-------------------------- MODULE PrestamosPruebas --------------------------
(***************************************************************************)
(* Theorems about Prestamos for any set of users, books and consoles, any  *)
(* stock, and any bound on days, requests and interruptions.               *)
(*                                                                         *)
(* The claims about the files rest on Ordenados: while alterados does not  *)
(* name a file, at most one process rewrites it, and the temporary file it *)
(* installs holds the whole text of the file with one change.              *)
(***************************************************************************)
EXTENDS Prestamos, TLAPS, FiniteSetTheorems

-----------------------------------------------------------------------------
(* Shapes of the operation under way *)

(***************************************************************************)
(* An operation has a user, and a book of the catalogue as soon as it has  *)
(* looked the book up; the server looks it up before its first step, a     *)
(* console while it copies libros.csv.  Only three routines rewrite a      *)
(* file, and a copy is given up only of libros.csv.                        *)
(***************************************************************************)
Reescrituras == {"csv_pedir", "csv_devolver", "csv_cierre"}

OrdenOK ==
  /\ pc[Servidor] \notin {"menu", "cerrado"}
  /\ \A p \in Consolas : pc[p] \notin PasosBD \cup {"esperando"}
  /\ \A p \in Procesos : EnCurso(p) =>
       /\ orden[p].usuario \in Usuarios
       /\ \/ orden[p].isbn \in ISBNs
          \/ p # Servidor /\ pc[p] \in {"csv_pedir", "csv_devolver"}
  /\ \A p \in Procesos : tramo[p] # "abrir" => pc[p] \in Reescrituras
  /\ \A p \in Procesos :
       tramo[p] \in {"cerrar", "borrar", "renombrar"} => orden[p].isbn \in ISBNs
  /\ \A p \in Procesos : tramo[p] \in {"descartar", "quitar"} => pc[p] # "csv_cierre"

LEMMA CambiosTipo ==
  ASSUME NEW l \in Libro
  PROVE  /\ RestarSQL(l) \in Libro
         /\ SumarSQL(l) \in Libro
         /\ RestarCSV(l) \in Libro
         /\ SumarCSV(l) \in Libro
BY DEF Libro, RestarSQL, SumarSQL, RestarCSV, SumarCSV

LEMMA TextoForma ==
  ASSUME NEW l, EsTexto(l)
  PROVE  /\ DOMAIN l \subseteq ISBNs
         /\ l \in [DOMAIN l -> Libro]
         /\ \A i \in DOMAIN l : l[i] \in Libro /\ l[i].copias \in Int
BY DEF EsTexto, Libro

LEMMA TextoCambiado ==
  ASSUME NEW l, EsTexto(l), NEW i \in DOMAIN l, NEW b \in Libro
  PROVE  EsTexto([l EXCEPT ![i] = b])
BY DEF EsTexto

LEMMA TextoParte ==
  ASSUME NEW l, EsTexto(l), NEW S \in SUBSET DOMAIN l
  PROVE  EsTexto(Parte(l, S))
<1>1. S \in SUBSET ISBNs /\ \A i \in S : l[i] \in Libro
  BY TextoForma
<1>2. Parte(l, S) \in [S -> Libro]
  BY <1>1 DEF Parte
<1> QED
  BY <1>1, <1>2 DEF EsTexto

LEMMA TextoSobre ==
  ASSUME NEW a, NEW b, EsTexto(a), EsTexto(b)
  PROVE  EsTexto(SobreLibros(a, b))
<1> DEFINE S == DOMAIN a \cup DOMAIN b
<1>1. /\ S \in SUBSET ISBNs
      /\ \A i \in DOMAIN a : a[i] \in Libro
      /\ \A i \in DOMAIN b : b[i] \in Libro
  BY TextoForma
<1>2. SobreLibros(a, b) \in [S -> Libro]
  BY <1>1 DEF SobreLibros
<1> QED
  BY <1>1, <1>2 DEF EsTexto

LEMMA TextoVacio == EsTexto(SinLibros)
<1>1. SinLibros \in [{} -> Libro]
  BY DEF SinLibros
<1> QED
  BY <1>1 DEF EsTexto

LEMMA EsSucesion ==
  ASSUME NEW S, NEW n \in Nat, NEW f \in [1 .. n -> S]
  PROVE  f \in Seq(S)
OBVIOUS

(***************************************************************************)
(* A copy written over a text: its lines, and then those of the text that  *)
(* it does not reach.                                                      *)
(***************************************************************************)
LEMMA LineasSobre ==
  ASSUME NEW S, NEW a \in Seq(S), NEW b \in Seq(S)
  PROVE  /\ SobreLineas(a, b) \in Seq(S)
         /\ Len(b) <= Len(a) => SobreLineas(a, b) = a
         /\ \A k \in DOMAIN SobreLineas(a, b) :
              \/ \E j \in DOMAIN a : SobreLineas(a, b)[k] = a[j]
              \/ \E j \in DOMAIN b : SobreLineas(a, b)[k] = b[j]
<1> DEFINE m == Len(a)
           n == Len(b)
           c == SubSeq(b, m + 1, n)
<1>1. m \in Nat /\ n \in Nat /\ DOMAIN a = 1 .. m /\ DOMAIN b = 1 .. n
  OBVIOUS
<1>2. /\ c \in Seq(S)
      /\ n <= m => c = << >>
      /\ \A k \in DOMAIN c : \E j \in DOMAIN b : c[k] = b[j]
  <2>1. CASE n <= m
    <3>1. c = << >>
      BY <1>1, <2>1
    <3> QED
      BY <2>1, <3>1
  <2>2. CASE m < n
    <3>1. c = [k \in 1 .. n - m |-> b[k + m]]
      BY <1>1, <2>2
    <3>2. \A k \in 1 .. n - m : k + m \in DOMAIN b /\ b[k + m] \in S
      BY <1>1, <2>2
    <3>3. n - m \in Nat /\ c \in [1 .. n - m -> S]
      <4>1. n - m \in Nat
        BY <1>1, <2>2
      <4>2. [k \in 1 .. n - m |-> b[k + m]] \in [1 .. n - m -> S]
        BY <3>2
      <4> QED
        BY <3>1, <4>1, <4>2
    <3>4. c \in Seq(S)
      BY <3>3, EsSucesion
    <3>5. DOMAIN c = 1 .. n - m /\ \A k \in DOMAIN c : c[k] = b[k + m]
      BY <3>1
    <3> HIDE DEF c
    <3>6. \A k \in DOMAIN c : \E j \in DOMAIN b : c[k] = b[j]
      BY <3>2, <3>5
    <3> QED
      BY <1>1, <2>2, <3>4, <3>6
  <2> QED
    BY <1>1, <2>1, <2>2
<1>3. SobreLineas(a, b) = a \o c
  BY DEF SobreLineas
<1> HIDE DEF c
<1>4. ASSUME NEW k \in DOMAIN (a \o c)
      PROVE  \/ \E j \in DOMAIN a : (a \o c)[k] = a[j]
             \/ \E j \in DOMAIN c : (a \o c)[k] = c[j]
  <2>1. Len(c) \in Nat /\ DOMAIN c = 1 .. Len(c) /\ k \in 1 .. m + Len(c)
    BY <1>1, <1>2, <1>4
  <2>2. CASE k <= m
    BY <1>1, <1>2, <2>1, <2>2
  <2>3. CASE k > m
    <3>1. k - m \in DOMAIN c /\ (a \o c)[k] = c[k - m]
      BY <1>1, <1>2, <2>1, <2>3
    <3> QED
      BY <3>1
  <2> QED
    BY <1>1, <2>1, <2>2, <2>3
<1> QED
  BY <1>2, <1>3, <1>4

LEMMA UnoMas ==
  ASSUME NEW f \in [ISBNs -> Nat], NEW i
  PROVE  [f EXCEPT ![i] = f[i] + 1] \in [ISBNs -> Nat]
<1>1. CASE i \in ISBNs
  <2>1. f[i] + 1 \in Nat
    BY <1>1
  <2> QED
    BY <2>1
<1>2. CASE i \notin ISBNs
  BY <1>2
<1> QED
  BY <1>1, <1>2

LEMMA CerradaTipo ==
  ASSUME hoy \in Nat, NEW r \in FilaHistorial, NEW u, NEW i
  PROVE  Cerrada(r, u, i) \in FilaHistorial
BY DEF Cerrada, FilaHistorial, Veredicto, ACTIVO, DEVUELTO, ATRASADO

LEMMA TiposIniciales == Init => TypeOK /\ OrdenOK
<1> SUFFICES ASSUME Init PROVE TypeOK /\ OrdenOK
  OBVIOUS
<1>1. EsTexto(librosCSV) /\ EsTexto(librosBD)
  <2>1. librosCSV \in [ISBNs -> Libro]
    BY ConstantesOK DEF Init, LibroInicial, Libro
  <2> QED
    BY <2>1 DEF EsTexto, Init
<1>2. orden \in [Procesos -> Orden]
  BY DEF Init, Orden, SinOrden, Pedibles
<1>3. fondo \in [ISBNs -> Int]
  BY ConstantesOK DEF Init
<1>4. TypeOK
  BY <1>1, <1>2, <1>3, TextoVacio, ConstantesOK DEF Init, TypeOK, Procesos, Tramos
<1>5. OrdenOK
  BY ConstantesOK DEF Init, OrdenOK, EnCurso, PasosBD, PasosCSV, Procesos
<1> QED
  BY <1>4, <1>5

-----------------------------------------------------------------------------
(* Type correctness *)

ProcesoOK ==
  /\ pc \in [Procesos -> PasosBD \cup PasosCSV \cup {"esperando", "menu", "cerrado"}]
  /\ tramo \in [Procesos -> Tramos]
  /\ orden \in [Procesos -> Orden]
  /\ resultado \in [Procesos -> {"nada", "ok", "error"}]

LEMMA SigueTipo ==
  ASSUME ProcesoOK, NEW p \in Procesos, NEW paso \in PasosBD \cup PasosCSV, Sigue(p, paso)
  PROVE  ProcesoOK'
BY DEF ProcesoOK, Sigue, Tramos

LEMMA AvanzaTipo ==
  ASSUME ProcesoOK, NEW p \in Procesos, NEW t \in Tramos, Avanza(p, t)
  PROVE  ProcesoOK'
BY DEF ProcesoOK, Avanza

LEMMA TerminaTipo ==
  ASSUME ProcesoOK, NEW p \in Procesos, NEW paso \in {"esperando", "menu", "cerrado"},
         NEW r \in {"nada", "ok", "error"}, Termina(p, paso, r)
  PROVE  ProcesoOK'
<1>1. SinOrden \in Orden
  BY DEF SinOrden, Orden, Pedibles
<1> QED
  BY <1>1 DEF ProcesoOK, Termina, Tramos

LEMMA EmpiezaTipo ==
  ASSUME ProcesoOK, NEW p \in Procesos, NEW paso \in PasosBD \cup PasosCSV,
         NEW u \in Usuarios, NEW i \in Pedibles, NEW f \in Nat, Empieza(p, paso, u, i, f)
  PROVE  ProcesoOK'
<1>1. [usuario |-> u, isbn |-> i, fila |-> f, fecha |-> 0] \in Orden
  BY DEF Orden
<1> QED
  BY <1>1 DEF ProcesoOK, Empieza, Tramos

(***************************************************************************)
(* One step of the server keeps the shapes.                                *)
(***************************************************************************)
LEMMA TiposServidor ==
  ASSUME TypeOK, OrdenOK, PasoServidor
  PROVE  TypeOK'
<1> USE DEF bd, csv, copias, historia, cotas
<1>0. ProcesoOK /\ Servidor \in Procesos
  BY DEF TypeOK, ProcesoOK, Procesos
<1>1. ASSUME NEW u \in Usuarios, NEW i \in Pedibles, PedirRemoto(u, i)
      PROVE  TypeOK'
  <2>1. ProcesoOK'
    BY <1>0, <1>1, EmpiezaTipo, TerminaTipo DEF PedirRemoto, PasosBD
  <2> QED
    BY <1>1, <2>1 DEF PedirRemoto, Pide, TypeOK, ProcesoOK
<1>2. ASSUME NEW u \in Usuarios, NEW i \in Pedibles, DevolverRemoto(u, i)
      PROVE  TypeOK'
  <2>1. ProcesoOK'
    <3>1. CASE Termina(Servidor, "esperando", "error")
      BY <1>0, <3>1, TerminaTipo
    <3>2. ASSUME NEW r \in prestamosBD, Empieza(Servidor, "devolver_borrar", u, i, r.id)
          PROVE  ProcesoOK'
      <4>1. r.id \in Nat
        BY DEF TypeOK, FilaPrestamo
      <4> QED
        BY <1>0, <3>2, <4>1, EmpiezaTipo DEF PasosBD
    <3> QED
      BY <1>2, <3>1, <3>2 DEF DevolverRemoto
  <2> QED
    BY <1>2, <2>1 DEF DevolverRemoto, Pide, TypeOK, ProcesoOK
<1>3. CASE PedirRestar
  <2>1. ProcesoOK'
    BY <1>0, <1>3, SigueTipo DEF PedirRestar, PasosBD
  <2>2. EsTexto(librosBD')
    <3>1. librosBD' = [librosBD EXCEPT ![orden[Servidor].isbn] =
                         RestarSQL(librosBD[orden[Servidor].isbn])]
      BY <1>3 DEF PedirRestar
    <3>2. CASE orden[Servidor].isbn \in DOMAIN librosBD
      BY <3>1, <3>2, TextoForma, TextoCambiado, CambiosTipo DEF TypeOK
    <3>3. CASE orden[Servidor].isbn \notin DOMAIN librosBD
      <4>1. librosBD' = librosBD
        BY <3>1, <3>3, TextoForma DEF TypeOK
      <4> QED
        BY <4>1 DEF TypeOK
    <3> QED
      BY <3>2, <3>3
  <2> QED
    BY <1>3, <2>1, <2>2 DEF PedirRestar, TypeOK, ProcesoOK
<1>4. CASE PedirPrestamo
  <2>1. ProcesoOK'
    BY <1>0, <1>4, SigueTipo DEF PedirPrestamo, PasosBD
  <2>2. orden[Servidor].usuario \in Usuarios /\ orden[Servidor].isbn \in ISBNs
    BY <1>0, <1>4 DEF PedirPrestamo, OrdenOK, EnCurso, PasosBD
  <2>3. prestamosBD' \subseteq FilaPrestamo /\ siguienteID' \in Nat
    BY <1>4, <2>2 DEF PedirPrestamo, TypeOK, FilaPrestamo
  <2> QED
    BY <1>4, <2>1, <2>3 DEF PedirPrestamo, TypeOK, ProcesoOK
<1>5. CASE PedirHistorial
  <2>1. ProcesoOK'
    BY <1>0, <1>5, SigueTipo, TerminaTipo DEF PedirHistorial, PasosCSV
  <2>2. orden[Servidor].usuario \in Usuarios /\ orden[Servidor].isbn \in ISBNs
    BY <1>0, <1>5 DEF PedirHistorial, OrdenOK, EnCurso, PasosBD
  <2>3. historialBD' \subseteq FilaHistorial
    BY <1>5, <2>2 DEF PedirHistorial, TypeOK, FilaHistorial
  <2> QED
    BY <1>5, <2>1, <2>3 DEF PedirHistorial, TypeOK, ProcesoOK
<1>6. CASE DevolverBorrar
  <2>1. ProcesoOK'
    BY <1>0, <1>6, SigueTipo DEF DevolverBorrar, PasosBD
  <2> QED
    BY <1>6, <2>1 DEF DevolverBorrar, TypeOK, ProcesoOK
<1>7. CASE DevolverSumar
  <2>1. ProcesoOK'
    BY <1>0, <1>7, SigueTipo DEF DevolverSumar, PasosBD
  <2>2. EsTexto(librosBD')
    <3>1. CASE orden[Servidor].isbn \in DOMAIN librosBD
      <4>1. librosBD' = [librosBD EXCEPT ![orden[Servidor].isbn] =
                           SumarSQL(librosBD[orden[Servidor].isbn])]
        BY <1>7, <3>1 DEF DevolverSumar
      <4> QED
        BY <3>1, <4>1, TextoForma, TextoCambiado, CambiosTipo DEF TypeOK
    <3>2. CASE orden[Servidor].isbn \notin DOMAIN librosBD
      BY <1>7, <3>2 DEF DevolverSumar, TypeOK
    <3> QED
      BY <3>1, <3>2
  <2>3. perdidas' \in [ISBNs -> Nat]
    <3>1. perdidas' = perdidas
            \/ perdidas' = [perdidas EXCEPT ![orden[Servidor].isbn] = perdidas[orden[Servidor].isbn] + 1]
      BY <1>7 DEF DevolverSumar
    <3> QED
      BY <3>1, UnoMas DEF TypeOK
  <2> QED
    BY <1>7, <2>1, <2>2, <2>3 DEF DevolverSumar, TypeOK, ProcesoOK
<1>8. CASE DevolverHistorial
  <2>1. ProcesoOK'
    BY <1>0, <1>8, SigueTipo DEF DevolverHistorial, PasosCSV
  <2>2. historialBD' \subseteq FilaHistorial
    BY <1>8, CerradaTipo DEF DevolverHistorial, TypeOK
  <2> QED
    BY <1>8, <2>1, <2>2 DEF DevolverHistorial, TypeOK, ProcesoOK
<1> QED
  BY <1>1, <1>2, <1>3, <1>4, <1>5, <1>6, <1>7, <1>8 DEF PasoServidor

(***************************************************************************)
(* The steps of a rewriting keep the shapes of the files, of the temporary *)
(* ones and of the copies.                                                 *)
(***************************************************************************)
TempOK ==
  /\ EsTexto(tempLibros)
  /\ tempHistorial \in Seq(FilaHistorial)
  /\ existeTemp \subseteq Archivos

CopiasOK ==
  /\ copiaLibros = [p \in Procesos |-> copiaLibros[p]]
  /\ \A p \in Procesos : EsTexto(copiaLibros[p])
  /\ copiaHistorial \in [Procesos -> Seq(FilaHistorial)]

LEMMA AbreAmbosTipo ==
  ASSUME TypeOK, NEW p, NEW f \in Archivos, AbreAmbos(p, f)
  PROVE  TempOK' /\ alterados' \subseteq Archivos
<1>1. alterados' \subseteq Archivos
  BY DEF TypeOK, AbreAmbos, Toca
<1>2. EsTexto(tempLibros')
  BY TextoVacio DEF TypeOK, AbreAmbos, Vaciar
<1>3. tempHistorial' \in Seq(FilaHistorial) /\ existeTemp' \subseteq Archivos
  BY DEF TypeOK, AbreAmbos, Vaciar
<1> QED
  BY <1>1, <1>2, <1>3 DEF TempOK

LEMMA CopiaTipo ==
  ASSUME CopiasOK, NEW p \in Procesos, NEW texto, EsTexto(texto),
         copiaLibros' = [copiaLibros EXCEPT ![p] = texto], UNCHANGED copiaHistorial
  PROVE  CopiasOK'
<1>1. copiaLibros' = [q \in Procesos |-> copiaLibros'[q]]
  BY DEF CopiasOK
<1>2. ASSUME NEW q \in Procesos
      PROVE  EsTexto(copiaLibros'[q])
  <2>1. copiaLibros'[q] = IF q = p THEN texto ELSE copiaLibros[q]
    BY DEF CopiasOK
  <2> QED
    BY <2>1 DEF CopiasOK
<1> QED
  BY <1>1, <1>2 DEF CopiasOK

LEMMA CopiasQuietas ==
  ASSUME CopiasOK, UNCHANGED <<copiaLibros, copiaHistorial>>
  PROVE  CopiasOK'
BY DEF CopiasOK

LEMMA ReposoTipo ==
  ASSUME NEW p
  PROVE  Reposo(p) \in {"esperando", "menu", "cerrado"}
BY DEF Reposo

LEMMA EnOperacion ==
  ASSUME OrdenOK, NEW p \in Procesos,
         pc[p] \in {"csv_prestamo", "csv_historial", "csv_cierre"} \cup PasosBD
  PROVE  orden[p].usuario \in Usuarios /\ orden[p].isbn \in ISBNs
BY DEF OrdenOK, EnCurso, PasosBD, PasosCSV

(***************************************************************************)
(* The text that a loan and a return copy from libros.csv.                 *)
(***************************************************************************)
LEMMA TextoCopiado ==
  ASSUME TypeOK, NEW i \in DOMAIN librosCSV
  PROVE  /\ EsTexto([librosCSV EXCEPT ![i] = RestarCSV(librosCSV[i])])
         /\ EsTexto([librosCSV EXCEPT ![i] = SumarCSV(librosCSV[i])])
<1>1. EsTexto(librosCSV)
  BY DEF TypeOK
<1>2. librosCSV[i] \in Libro
  BY <1>1, TextoForma
<1> QED
  BY <1>1, <1>2, CambiosTipo, TextoCambiado

LEMMA TiposApertura ==
  ASSUME TypeOK, OrdenOK, NEW p \in Procesos, CsvPedir(p) \/ CsvDevolver(p) \/ CsvCierre(p)
  PROVE  ProcesoOK' /\ TempOK' /\ CopiasOK' /\ alterados' \subseteq Archivos
<1> USE DEF copias
<1>0. ProcesoOK /\ CopiasOK /\ TempOK /\ alterados \subseteq Archivos /\ EsTexto(librosCSV)
  BY DEF TypeOK, ProcesoOK, CopiasOK, TempOK
<1>1. ASSUME NEW f, NoSeAbre(p, f)
      PROVE  ProcesoOK' /\ CopiasOK'
  BY <1>0, <1>1, TerminaTipo, ReposoTipo, CopiasQuietas DEF NoSeAbre
<1>2. ASSUME NEW texto, EsTexto(texto), NEW t \in Tramos, Copia(p, texto, t)
      PROVE  ProcesoOK' /\ CopiasOK'
  BY <1>0, <1>2, AvanzaTipo, CopiaTipo DEF Copia
<1>3. CASE CsvPedir(p)
  <2>1. CASE Termina(p, Reposo(p), "error") /\ UNCHANGED <<copias, alterados>>
    <3>1. TempOK'
      BY <1>0, <2>1 DEF TempOK
    <3> QED
      BY <1>0, <2>1, <3>1, TerminaTipo, ReposoTipo, CopiasQuietas
  <2>2. CASE AbreAmbos(p, "libros")
    <3>1. TempOK' /\ alterados' \subseteq Archivos
      BY <2>2, AbreAmbosTipo DEF Archivos
    <3>2. CASE NoSeAbre(p, "libros")
      BY <1>1, <3>1, <3>2
    <3>3. CASE /\ orden[p].isbn \in DOMAIN librosCSV
               /\ Copia(p, [librosCSV EXCEPT ![orden[p].isbn] =
                              RestarCSV(librosCSV[orden[p].isbn])], "cerrar")
      BY <1>2, <3>1, <3>3, TextoCopiado DEF Tramos
    <3>4. ASSUME NEW S \in SUBSET (DOMAIN librosCSV \ {orden[p].isbn}),
                 Copia(p, Parte(librosCSV, S), "descartar")
          PROVE  ProcesoOK' /\ TempOK' /\ CopiasOK' /\ alterados' \subseteq Archivos
      <4>1. EsTexto(Parte(librosCSV, S))
        BY <1>0, TextoParte
      <4> QED
        BY <1>2, <3>1, <3>4, <4>1 DEF Tramos
    <3>5. CASE Copia(p, librosCSV, "descartar")
      BY <1>0, <1>2, <3>1, <3>5 DEF Tramos
    <3> QED
      BY <1>3, <2>1, <2>2, <3>2, <3>3, <3>4, <3>5 DEF CsvPedir
  <2> QED
    BY <1>3, <2>1, <2>2 DEF CsvPedir
<1>4. CASE CsvDevolver(p)
  <2>1. TempOK' /\ alterados' \subseteq Archivos
    BY <1>4, AbreAmbosTipo DEF CsvDevolver, Archivos
  <2>2. CASE NoSeAbre(p, "libros")
    BY <1>1, <2>1, <2>2
  <2>3. CASE /\ orden[p].isbn \in DOMAIN librosCSV
             /\ Copia(p, [librosCSV EXCEPT ![orden[p].isbn] =
                            SumarCSV(librosCSV[orden[p].isbn])], "cerrar")
    BY <1>2, <2>1, <2>3, TextoCopiado DEF Tramos
  <2>4. CASE Copia(p, librosCSV, "descartar")
    BY <1>0, <1>2, <2>1, <2>4 DEF Tramos
  <2> QED
    BY <1>4, <2>2, <2>3, <2>4 DEF CsvDevolver
<1>5. CASE CsvCierre(p)
  <2>1. TempOK' /\ alterados' \subseteq Archivos
    BY <1>5, AbreAmbosTipo DEF CsvCierre, Archivos
  <2>2. CASE NoSeAbre(p, "historial")
    BY <1>1, <2>1, <2>2
  <2>3. CASE Avanza(p, "cerrar")
    <3> DEFINE t == [k \in DOMAIN historialCSV |->
                       Cerrada(historialCSV[k], orden[p].usuario, orden[p].isbn)]
    <3>1. t \in Seq(FilaHistorial)
      <4>1. DOMAIN historialCSV = 1 .. Len(historialCSV) /\ Len(historialCSV) \in Nat
        BY DEF TypeOK
      <4>2. \A k \in DOMAIN historialCSV :
              Cerrada(historialCSV[k], orden[p].usuario, orden[p].isbn) \in FilaHistorial
        BY CerradaTipo DEF TypeOK
      <4>3. t \in [1 .. Len(historialCSV) -> FilaHistorial]
        BY <4>1, <4>2
      <4> QED
        BY <4>1, <4>3, EsSucesion
    <3>2. CASE NoSeAbre(p, "historial")
      BY <2>2, <3>2
    <3>3. CASE copiaHistorial' = [copiaHistorial EXCEPT ![p] = t] /\ UNCHANGED copiaLibros
      <4> HIDE DEF t
      <4>1. copiaHistorial' \in [Procesos -> Seq(FilaHistorial)]
        BY <1>0, <3>1, <3>3 DEF CopiasOK
      <4>2. CopiasOK'
        BY <1>0, <3>3, <4>1 DEF CopiasOK
      <4> QED
        BY <1>0, <2>1, <2>3, <4>2, AvanzaTipo DEF Tramos
    <3> QED
      BY <1>5, <3>2, <3>3 DEF CsvCierre
  <2> QED
    BY <1>5, <2>2, <2>3 DEF CsvCierre
<1> QED
  BY <1>3, <1>4, <1>5

LEMMA TiposCopia ==
  ASSUME TypeOK, OrdenOK, NEW p \in Procesos,
         Cerrar(p) \/ Borrar(p) \/ Renombrar(p) \/ Quitar(p)
  PROVE  TypeOK'
<1> USE DEF bd, copias, historia, cotas
<1>0. /\ ProcesoOK /\ CopiasOK /\ TempOK
      /\ EsTexto(librosCSV) /\ historialCSV \in Seq(FilaHistorial) /\ existe \subseteq Archivos
      /\ Fichero(p) \in Archivos
  BY DEF TypeOK, ProcesoOK, CopiasOK, TempOK, Fichero, Archivos
<1>1. CASE Cerrar(p)
  <2>1. ProcesoOK'
    BY <1>0, <1>1, AvanzaTipo DEF Cerrar, Tramos
  <2>2. TempOK'
    <3>1. EsTexto(tempLibros')
      <4>1. EsTexto(SobreLibros(copiaLibros[p], tempLibros))
        BY <1>0, TextoSobre DEF CopiasOK, TempOK
      <4> QED
        BY <1>0, <1>1, <4>1 DEF Cerrar, TempOK
    <3>2. tempHistorial' \in Seq(FilaHistorial)
      <4>1. SobreLineas(copiaHistorial[p], tempHistorial) \in Seq(FilaHistorial)
        BY <1>0, LineasSobre DEF CopiasOK, TempOK
      <4> QED
        BY <1>0, <1>1, <4>1 DEF Cerrar, TempOK
    <3> QED
      BY <1>0, <1>1, <3>1, <3>2 DEF Cerrar, TempOK
  <2>3. CopiasOK'
    <3>1. CASE copiaLibros' = [copiaLibros EXCEPT ![p] = SinLibros] /\ UNCHANGED copiaHistorial
      BY <1>0, <3>1, TextoVacio, CopiaTipo
    <3>2. CASE copiaHistorial' = [copiaHistorial EXCEPT ![p] = << >>] /\ UNCHANGED copiaLibros
      BY <1>0, <3>2 DEF CopiasOK
    <3> QED
      BY <1>1, <3>1, <3>2 DEF Cerrar
  <2> QED
    BY <1>1, <2>1, <2>2, <2>3 DEF Cerrar, TypeOK, ProcesoOK, TempOK, CopiasOK
<1>2. CASE Borrar(p)
  <2>1. ProcesoOK'
    BY <1>0, <1>2, AvanzaTipo, TerminaTipo, ReposoTipo DEF Borrar, Tramos
  <2>2. existe' \subseteq Archivos
    BY <1>0, <1>2 DEF Borrar
  <2> QED
    BY <1>2, <2>1, <2>2 DEF Borrar, TypeOK, ProcesoOK
<1>3. CASE Renombrar(p)
  <2>1. ProcesoOK'
    BY <1>0, <1>3, SigueTipo, TerminaTipo, ReposoTipo DEF Renombrar, Prosigue, PasosCSV
  <2>2. /\ TempOK' /\ existe' \subseteq Archivos
        /\ EsTexto(librosCSV') /\ historialCSV' \in Seq(FilaHistorial)
    <3>1. CASE UNCHANGED <<librosCSV, historialCSV, existe, existeTemp,
                           tempLibros, tempHistorial>>
      BY <1>0, <3>1 DEF TempOK
    <3>2. CASE Instala(Fichero(p))
      <4>1. existe' \subseteq Archivos /\ existeTemp' \subseteq Archivos
        BY <1>0, <3>2 DEF Instala, TempOK
      <4>2. EsTexto(librosCSV') /\ EsTexto(tempLibros')
        BY <1>0, <3>2, TextoVacio DEF Instala, TempOK
      <4>3. historialCSV' \in Seq(FilaHistorial) /\ tempHistorial' \in Seq(FilaHistorial)
        <5>1. << >> \in Seq(FilaHistorial)
          OBVIOUS
        <5>2. \/ historialCSV' = historialCSV /\ tempHistorial' = tempHistorial
              \/ historialCSV' = tempHistorial /\ tempHistorial' = << >>
          BY <3>2 DEF Instala
        <5> QED
          BY <1>0, <5>1, <5>2 DEF TempOK
      <4> QED
        BY <4>1, <4>2, <4>3 DEF TempOK
    <3> QED
      BY <1>3, <3>1, <3>2 DEF Renombrar
  <2>3. deriva' \in [ISBNs -> Nat]
    <3>1. deriva' = deriva \/ deriva' = [deriva EXCEPT ![orden[p].isbn] =
                                                  deriva[orden[p].isbn] + 1]
      BY <1>3 DEF Renombrar
    <3>2. deriva \in [ISBNs -> Nat]
      BY DEF TypeOK
    <3> QED
      BY <3>1, <3>2, UnoMas
  <2> QED
    BY <1>3, <2>1, <2>2, <2>3 DEF Renombrar, TypeOK, ProcesoOK, TempOK
<1>4. CASE Quitar(p)
  <2>1. ProcesoOK'
    BY <1>0, <1>4, TerminaTipo, ReposoTipo DEF Quitar
  <2>2. TempOK'
    <3>1. EsTexto(tempLibros')
      BY <1>0, <1>4, TextoVacio DEF Quitar, TempOK
    <3>2. existeTemp' \subseteq Archivos
      BY <1>0, <1>4 DEF Quitar, TempOK
    <3> QED
      BY <1>0, <1>4, <3>1, <3>2 DEF Quitar, TempOK
  <2> QED
    BY <1>4, <2>1, <2>2 DEF Quitar, TypeOK, ProcesoOK, TempOK
<1> QED
  BY <1>1, <1>2, <1>3, <1>4

LEMMA TiposCSV ==
  ASSUME TypeOK, OrdenOK, NEW p \in Procesos, PasoCSV(p)
  PROVE  TypeOK'
<1> USE DEF bd, csv, copias, historia, cotas
<1>0. ProcesoOK
  BY DEF TypeOK, ProcesoOK
<1>1. CASE CsvPedir(p) \/ CsvDevolver(p) \/ CsvCierre(p)
  <2>1. ProcesoOK' /\ TempOK' /\ CopiasOK' /\ alterados' \subseteq Archivos
    BY <1>1, TiposApertura
  <2>2. UNCHANGED <<bd, librosCSV, prestamosCSV, historialCSV, existe, hoy,
                    fondo, perdidas, cortadas, deriva, cotas>>
    BY <1>1 DEF CsvPedir, CsvDevolver, CsvCierre
  <2> QED
    BY <2>1, <2>2 DEF TypeOK, ProcesoOK, TempOK, CopiasOK
<1>2. CASE CsvPrestamo(p)
  <2>1. orden[p].usuario \in Usuarios /\ orden[p].isbn \in ISBNs
    BY <1>2, EnOperacion DEF CsvPrestamo
  <2>2. prestamosCSV' \in Seq(LineaPrestamo)
    BY <1>2, <2>1 DEF CsvPrestamo, TypeOK, LineaPrestamo
  <2>3. ProcesoOK'
    <3>1. pc' \in [Procesos -> PasosBD \cup PasosCSV \cup {"esperando", "menu", "cerrado"}]
      BY <1>0, <1>2 DEF CsvPrestamo, ProcesoOK, PasosCSV
    <3>2. [orden[p] EXCEPT !.fecha = hoy] \in Orden
      BY <1>0 DEF ProcesoOK, Orden, TypeOK
    <3>3. orden' = [orden EXCEPT ![p] = [orden[p] EXCEPT !.fecha = hoy]]
      BY <1>2 DEF CsvPrestamo
    <3> QED
      BY <1>0, <1>2, <3>1, <3>2, <3>3 DEF CsvPrestamo, ProcesoOK
  <2> QED
    BY <1>2, <2>2, <2>3 DEF CsvPrestamo, TypeOK, ProcesoOK
<1>3. CASE CsvHistorial(p)
  <2>1. orden[p].usuario \in Usuarios /\ orden[p].isbn \in ISBNs
    BY <1>3, EnOperacion DEF CsvHistorial
  <2>2. orden[p].fecha \in Nat
    BY <1>0 DEF ProcesoOK, Orden
  <2>3. [usuario |-> orden[p].usuario, isbn |-> orden[p].isbn,
         fecha |-> orden[p].fecha, estado |-> ACTIVO] \in FilaHistorial
    BY <2>1, <2>2 DEF FilaHistorial
  <2>4. historialCSV' \in Seq(FilaHistorial)
    BY <1>3, <2>3 DEF CsvHistorial, TypeOK
  <2>5. ProcesoOK'
    BY <1>0, <1>3, TerminaTipo, ReposoTipo DEF CsvHistorial
  <2>6. existe' \subseteq Archivos /\ alterados' \subseteq Archivos
    BY <1>3 DEF CsvHistorial, Toca, TypeOK, Archivos
  <2> QED
    BY <1>3, <2>4, <2>5, <2>6 DEF CsvHistorial, TypeOK, ProcesoOK
<1>4. CASE Cerrar(p) \/ Borrar(p) \/ Renombrar(p) \/ Quitar(p)
  BY <1>4, TiposCopia
<1> QED
  BY <1>1, <1>2, <1>3, <1>4 DEF PasoCSV

(***************************************************************************)
(* The rebuild fills Prestamos with finitely many rows.                    *)
(***************************************************************************)
LEMMA FilasFinitas ==
  ASSUME NEW s \in Seq(LineaPrestamo)
  PROVE  IsFiniteSet({[id |-> k, usuario |-> s[k].usuario, isbn |-> s[k].isbn] : k \in DOMAIN s})
<1> DEFINE F == {[id |-> k, usuario |-> s[k].usuario, isbn |-> s[k].isbn] : k \in DOMAIN s}
           f == [k \in 1 .. Len(s) |-> [id |-> k, usuario |-> s[k].usuario, isbn |-> s[k].isbn]]
<1>1. DOMAIN s = 1 .. Len(s) /\ Len(s) \in Nat
  OBVIOUS
<1>2. IsFiniteSet(1 .. Len(s))
  BY <1>1, FS_Interval
<1>3. f \in Surjection(1 .. Len(s), F)
  BY <1>1 DEF Surjection
<1> QED
  BY <1>2, <1>3, FS_Surjection

LEMMA TiposConsola ==
  ASSUME TypeOK, OrdenOK, NEW p \in Procesos, PasoConsola(p)
  PROVE  TypeOK'
<1> USE DEF bd, csv, copias, historia, cotas
<1>0. ProcesoOK
  BY DEF TypeOK, ProcesoOK
<1>1. CASE Arrancar(p)
  <2>1. DOMAIN prestamosCSV = 1 .. Len(prestamosCSV) /\ Len(prestamosCSV) \in Nat
    BY DEF TypeOK
  <2>2. prestamosBD' \subseteq FilaPrestamo /\ siguienteID' \in Nat
    <3>1. ASSUME NEW k \in DOMAIN prestamosCSV
          PROVE  /\ k \in Nat
                 /\ prestamosCSV[k].usuario \in Usuarios
                 /\ prestamosCSV[k].isbn \in ISBNs
      <4>1. prestamosCSV[k] \in LineaPrestamo
        BY <3>1 DEF TypeOK
      <4>2. k \in Nat
        BY <2>1, <3>1
      <4> QED
        BY <4>1, <4>2 DEF LineaPrestamo
    <3> QED
      BY <1>1, <2>1, <3>1 DEF Arrancar, FilaPrestamo
  <2>3. historialBD' \subseteq FilaHistorial
    BY <1>1 DEF Arrancar, TypeOK
  <2>4. EsTexto(librosBD')
    BY <1>1, TextoVacio DEF Arrancar, TypeOK
  <2>5. fondo' \in [ISBNs -> Int]
    <3>1. IsFiniteSet(prestamosBD')
      BY <1>1, FilasFinitas DEF Arrancar, TypeOK
    <3>2. ASSUME NEW i \in ISBNs
          PROVE  EnLaBD(i)' + Cardinality(Filas(i)') \in Int
      <4>1. IsFiniteSet(Filas(i)')
        BY <3>1, FS_Subset DEF Filas
      <4>2. Cardinality(Filas(i)') \in Nat
        BY <4>1, FS_CardinalityType
      <4>3. EnLaBD(i)' \in Int
        BY <2>4, TextoForma DEF EnLaBD
      <4> QED
        BY <4>2, <4>3
    <3> QED
      BY <1>1, <3>2 DEF Arrancar
  <2>6. pc' \in [Procesos -> PasosBD \cup PasosCSV \cup {"esperando", "menu", "cerrado"}]
    BY <1>0, <1>1 DEF Arrancar, ProcesoOK
  <2>7. perdidas' \in [ISBNs -> Nat] /\ cortadas' \subseteq Usuarios \X ISBNs
        /\ deriva' \in [ISBNs -> Nat] /\ alterados' \subseteq Archivos
    BY <1>1 DEF Arrancar
  <2> QED
    BY <1>1, <2>2, <2>3, <2>4, <2>5, <2>6, <2>7 DEF Arrancar, TypeOK
<1>2. CASE Salir(p)
  BY <1>2 DEF Salir, TypeOK
<1>3. ASSUME NEW u \in Usuarios, NEW i \in Pedibles, MenuPrincipal(p, u, i)
      PROVE  TypeOK'
  <2>1. ProcesoOK'
    BY <1>0, <1>3, EmpiezaTipo DEF MenuPrincipal, PasosCSV
  <2> QED
    BY <1>3, <2>1 DEF MenuPrincipal, Pide, TypeOK, ProcesoOK
<1> QED
  BY <1>1, <1>2, <1>3 DEF PasoConsola

LEMMA TiposEntorno ==
  ASSUME TypeOK, OrdenOK, NEW p \in Procesos, PasaDia \/ Fallo(p) \/ FalloAlAbrir(p) \/ Caida(p)
  PROVE  TypeOK'
<1> USE DEF bd, csv, copias, proceso, historia, cotas
<1>0. ProcesoOK
  BY DEF TypeOK, ProcesoOK
<1>1. CASE PasaDia
  BY <1>1 DEF PasaDia, TypeOK
<1>2. CASE Fallo(p) \/ FalloAlAbrir(p) \/ Caida(p)
  <2>1. ProcesoOK'
    BY <1>0, <1>2, TerminaTipo, ReposoTipo DEF Fallo, FalloAlAbrir, Caida
  <2>2. Interrumpe(p)
    BY <1>2 DEF Fallo, FalloAlAbrir, Caida
  <2>3. cortadas' \subseteq Usuarios \X ISBNs
    <3>1. CASE pc[p] \in {"devolver_sumar", "devolver_historial"}
      <4>1. orden[p].usuario \in Usuarios /\ orden[p].isbn \in ISBNs
        BY <3>1, EnOperacion DEF PasosBD
      <4> QED
        BY <2>2, <4>1 DEF Interrumpe, TypeOK
    <3>2. CASE pc[p] \notin {"devolver_sumar", "devolver_historial"}
      BY <2>2, <3>2 DEF Interrumpe, TypeOK
    <3> QED
      BY <3>1, <3>2
  <2>4. perdidas' \in [ISBNs -> Nat] /\ deriva' \in [ISBNs -> Nat]
    <3>1. perdidas' = perdidas \/ perdidas' = [perdidas EXCEPT ![orden[p].isbn] = @ + 1]
      BY <2>2 DEF Interrumpe
    <3>2. deriva' = deriva \/ deriva' = [deriva EXCEPT ![orden[p].isbn] = @ + 1]
      BY <2>2 DEF Interrumpe
    <3>3. perdidas \in [ISBNs -> Nat] /\ deriva \in [ISBNs -> Nat]
      BY DEF TypeOK
    <3> QED
      BY <3>1, <3>2, <3>3, UnoMas
  <2>5. CopiasOK'
    <3>1. CopiasOK
      BY DEF TypeOK, CopiasOK
    <3> DEFINE c == [copiaLibros EXCEPT ![p] = SinLibros]
    <3>2. copiaLibros' = c /\ copiaHistorial' = [copiaHistorial EXCEPT ![p] = << >>]
      BY <2>2 DEF Interrumpe
    <3>3. c = [q \in Procesos |-> c[q]] /\ \A q \in Procesos : EsTexto(c[q])
      <4>1. \A q \in Procesos : c[q] = IF q = p THEN SinLibros ELSE copiaLibros[q]
        BY <3>1 DEF CopiasOK
      <4>2. c = [q \in Procesos |-> c[q]]
        BY <3>1 DEF CopiasOK
      <4> HIDE DEF c
      <4> QED
        BY <3>1, <4>1, <4>2, TextoVacio DEF CopiasOK
    <3> HIDE DEF c
    <3> QED
      BY <3>1, <3>2, <3>3 DEF CopiasOK
  <2>6. TempOK' /\ alterados' \subseteq Archivos
    <3>1. CASE AbreAmbos(p, Fichero(p))
      BY <3>1, AbreAmbosTipo DEF Fichero, Archivos
    <3>2. CASE Abandona(p) /\ UNCHANGED <<existeTemp, tempLibros, tempHistorial>>
      BY <3>2 DEF Abandona, Fichero, Archivos, TypeOK, TempOK
    <3> QED
      BY <1>2, <3>1, <3>2 DEF Fallo, FalloAlAbrir, Caida
  <2>7. /\ UNCHANGED <<bd, librosCSV, prestamosCSV, historialCSV, existe, hoy, fondo, peticiones>>
        /\ fallos' = fallos + 1
    BY <2>2 DEF Interrumpe
  <2>8. /\ EsTexto(librosBD)' /\ prestamosBD' \subseteq FilaPrestamo
        /\ siguienteID' \in Nat /\ historialBD' \subseteq FilaHistorial
        /\ EsTexto(librosCSV)' /\ prestamosCSV' \in Seq(LineaPrestamo)
        /\ historialCSV' \in Seq(FilaHistorial) /\ existe' \subseteq Archivos
        /\ hoy' \in Nat /\ fondo' \in [ISBNs -> Int] /\ peticiones' \in Nat
    <3>1. /\ UNCHANGED <<librosBD, prestamosBD, siguienteID, historialBD>>
          /\ UNCHANGED <<librosCSV, prestamosCSV, historialCSV, existe, hoy, fondo, peticiones>>
      BY <2>7
    <3> QED
      BY <3>1 DEF TypeOK
  <2>9. fallos' \in Nat
    BY <2>7 DEF TypeOK
  <2> QED
    BY <2>1, <2>3, <2>4, <2>5, <2>6, <2>8, <2>9 DEF TypeOK, ProcesoOK, TempOK, CopiasOK
<1> QED
  BY <1>1, <1>2

(***************************************************************************)
(* One step keeps OrdenOK.                                                 *)
(***************************************************************************)
LEMMA OrdenDe ==
  ASSUME OrdenOK, ProcesoOK, NEW p \in Procesos,
         NEW paso \in PasosBD \cup PasosCSV \cup {"esperando", "menu", "cerrado"},
         NEW t \in Tramos, NEW o,
         pc' = [pc EXCEPT ![p] = paso],
         tramo' = [tramo EXCEPT ![p] = t],
         orden' = [orden EXCEPT ![p] = o],
         p = Servidor => paso \notin {"menu", "cerrado"},
         p \in Consolas => paso \notin PasosBD \cup {"esperando"},
         paso \in PasosBD \cup PasosCSV =>
           /\ o.usuario \in Usuarios
           /\ o.isbn \in ISBNs \/ (p # Servidor /\ paso \in {"csv_pedir", "csv_devolver"}),
         t # "abrir" => paso \in Reescrituras,
         t \in {"cerrar", "borrar", "renombrar"} => o.isbn \in ISBNs,
         t \in {"descartar", "quitar"} => paso # "csv_cierre"
  PROVE  OrdenOK'
<1>1. Servidor \in Procesos /\ Consolas \subseteq Procesos
  BY DEF Procesos
<1>2. \A q \in Procesos : /\ pc'[q] = IF q = p THEN paso ELSE pc[q]
                          /\ tramo'[q] = IF q = p THEN t ELSE tramo[q]
                          /\ orden'[q] = IF q = p THEN o ELSE orden[q]
  BY DEF ProcesoOK
<1>3. pc'[Servidor] \notin {"menu", "cerrado"}
  BY <1>1, <1>2 DEF OrdenOK
<1>4. \A q \in Consolas : pc'[q] \notin PasosBD \cup {"esperando"}
  BY <1>1, <1>2 DEF OrdenOK
<1>5. \A q \in Procesos : pc'[q] \in PasosBD \cup PasosCSV =>
        /\ orden'[q].usuario \in Usuarios
        /\ \/ orden'[q].isbn \in ISBNs
           \/ q # Servidor /\ pc'[q] \in {"csv_pedir", "csv_devolver"}
  BY <1>2 DEF OrdenOK, EnCurso
<1>6. \A q \in Procesos :
        /\ tramo'[q] # "abrir" => pc'[q] \in Reescrituras
        /\ tramo'[q] \in {"cerrar", "borrar", "renombrar"} => orden'[q].isbn \in ISBNs
        /\ tramo'[q] \in {"descartar", "quitar"} => pc'[q] # "csv_cierre"
  BY <1>2 DEF OrdenOK
<1> QED
  BY <1>3, <1>4, <1>5, <1>6 DEF OrdenOK, EnCurso

LEMMA OrdenTermina ==
  ASSUME TypeOK, OrdenOK, NEW p \in Procesos,
         NEW paso \in {"esperando", "menu", "cerrado"}, NEW r, Termina(p, paso, r),
         paso = "esperando" <=> p = Servidor
  PROVE  OrdenOK'
<1>1. ProcesoOK /\ paso \notin PasosBD \cup PasosCSV /\ "abrir" \in Tramos
  BY DEF TypeOK, ProcesoOK, PasosBD, PasosCSV, Tramos
<1>2. Servidor \notin Consolas
  BY ConstantesOK
<1>3. /\ pc' = [pc EXCEPT ![p] = paso]
      /\ tramo' = [tramo EXCEPT ![p] = "abrir"]
      /\ orden' = [orden EXCEPT ![p] = SinOrden]
  BY DEF Termina
<1> QED
  BY <1>1, <1>2, <1>3, OrdenDe

LEMMA OrdenReposo ==
  ASSUME TypeOK, OrdenOK, NEW p \in Procesos, NEW r, Termina(p, Reposo(p), r)
  PROVE  OrdenOK'
<1>1. Reposo(p) \in {"esperando", "menu", "cerrado"} /\ (Reposo(p) = "esperando" <=> p = Servidor)
  BY DEF Reposo
<1> QED
  BY <1>1, OrdenTermina

LEMMA OrdenSigue ==
  ASSUME TypeOK, OrdenOK, NEW p \in Procesos, EnCurso(p), orden[p].isbn \in ISBNs,
         NEW paso \in PasosBD \cup PasosCSV, paso \in PasosBD => p = Servidor,
         Sigue(p, paso)
  PROVE  OrdenOK'
<1>1. ProcesoOK /\ paso \notin {"esperando", "menu", "cerrado"} /\ "abrir" \in Tramos
  BY DEF TypeOK, ProcesoOK, PasosBD, PasosCSV, Tramos
<1>2. Servidor \notin Consolas /\ orden[p].usuario \in Usuarios
  BY ConstantesOK DEF OrdenOK
<1>3. /\ pc' = [pc EXCEPT ![p] = paso]
      /\ tramo' = [tramo EXCEPT ![p] = "abrir"]
      /\ orden' = [orden EXCEPT ![p] = orden[p]]
  BY <1>1 DEF Sigue, ProcesoOK
<1> QED
  BY <1>1, <1>2, <1>3, OrdenDe

LEMMA OrdenAvanza ==
  ASSUME TypeOK, OrdenOK, NEW p \in Procesos, NEW t \in Tramos, Avanza(p, t),
         pc[p] \in Reescrituras,
         t \in {"cerrar", "borrar", "renombrar"} => orden[p].isbn \in ISBNs,
         t \in {"descartar", "quitar"} => pc[p] # "csv_cierre"
  PROVE  OrdenOK'
<1>1. ProcesoOK /\ Reescrituras \subseteq PasosCSV
      /\ pc[p] \notin PasosBD \cup {"esperando", "menu", "cerrado"}
  BY DEF TypeOK, ProcesoOK, PasosBD, PasosCSV, Reescrituras
<1>2. /\ orden[p].usuario \in Usuarios
      /\ orden[p].isbn \in ISBNs \/ (p # Servidor /\ pc[p] \in {"csv_pedir", "csv_devolver"})
  BY <1>1 DEF OrdenOK, EnCurso
<1>3. /\ pc' = [pc EXCEPT ![p] = pc[p]]
      /\ tramo' = [tramo EXCEPT ![p] = t]
      /\ orden' = [orden EXCEPT ![p] = orden[p]]
  BY <1>1 DEF Avanza, ProcesoOK
<1>4. pc[p] \in PasosBD \cup PasosCSV
  BY <1>1
<1> QED
  BY <1>1, <1>2, <1>3, <1>4, OrdenDe

LEMMA OrdenServidor ==
  ASSUME TypeOK, OrdenOK, PasoServidor
  PROVE  OrdenOK'
<1>0. ProcesoOK /\ Servidor \in Procesos /\ Servidor \notin Consolas
  BY ConstantesOK DEF TypeOK, ProcesoOK, Procesos
<1>1. ASSUME Termina(Servidor, "esperando", "error")
      PROVE  OrdenOK'
  BY <1>0, <1>1, OrdenTermina
<1>2. ASSUME NEW u \in Usuarios, NEW i \in Pedibles, PedirRemoto(u, i) \/ DevolverRemoto(u, i)
      PROVE  OrdenOK'
  <2>1. ASSUME NEW paso \in PasosBD, NEW f, i \in ISBNs, Empieza(Servidor, paso, u, i, f)
        PROVE  OrdenOK'
    <3> DEFINE o == [usuario |-> u, isbn |-> i, fila |-> f, fecha |-> 0]
    <3>1. /\ pc' = [pc EXCEPT ![Servidor] = paso]
          /\ tramo' = [tramo EXCEPT ![Servidor] = "abrir"]
          /\ orden' = [orden EXCEPT ![Servidor] = o]
      BY <2>1 DEF Empieza
    <3>2. /\ o.usuario \in Usuarios /\ o.isbn \in ISBNs /\ "abrir" \in Tramos
          /\ paso \notin {"esperando", "menu", "cerrado"}
      BY <2>1 DEF Tramos, PasosBD
    <3> HIDE DEF o
    <3> QED
      BY <1>0, <3>1, <3>2, OrdenDe
  <2>2. ASSUME NEW r \in prestamosBD, De(r, u, i)
        PROVE  i \in ISBNs
    BY <2>2 DEF TypeOK, FilaPrestamo, De
  <2>3. DOMAIN librosBD \subseteq ISBNs
    BY TextoForma DEF TypeOK
  <2> QED
    BY <1>1, <1>2, <2>1, <2>2, <2>3 DEF PedirRemoto, DevolverRemoto, PasosBD
<1>3. ASSUME NEW paso \in PasosBD \cup PasosCSV, pc[Servidor] \in PasosBD, Sigue(Servidor, paso)
      PROVE  OrdenOK'
  BY <1>0, <1>3, OrdenSigue, EnOperacion DEF EnCurso
<1>4. CASE PedirRestar \/ PedirPrestamo \/ DevolverBorrar \/ DevolverSumar \/ DevolverHistorial
  BY <1>3, <1>4 DEF PedirRestar, PedirPrestamo, DevolverBorrar, DevolverSumar,
                    DevolverHistorial, PasosBD, PasosCSV
<1>5. CASE PedirHistorial
  BY <1>1, <1>3, <1>5 DEF PedirHistorial, PasosBD, PasosCSV
<1> QED
  BY <1>2, <1>4, <1>5 DEF PasoServidor

LEMMA OrdenCSV ==
  ASSUME TypeOK, OrdenOK, NEW p \in Procesos, PasoCSV(p)
  PROVE  OrdenOK'
<1>0. /\ ProcesoOK /\ DOMAIN librosCSV \subseteq ISBNs
      /\ Reescrituras \subseteq PasosCSV
      /\ \A t \in {"cerrar", "borrar", "renombrar", "descartar", "quitar"} : t \in Tramos
  BY TextoForma DEF TypeOK, ProcesoOK, Reescrituras, PasosCSV, Tramos
<1>1. ASSUME NEW r, Termina(p, Reposo(p), r)
      PROVE  OrdenOK'
  BY <1>1, OrdenReposo
<1>2. ASSUME NEW t \in {"cerrar", "borrar", "renombrar"}, pc[p] \in Reescrituras,
             orden[p].isbn \in ISBNs, Avanza(p, t)
      PROVE  OrdenOK'
  BY <1>0, <1>2, OrdenAvanza
<1>3. ASSUME NEW t \in {"descartar", "quitar"}, pc[p] \in Reescrituras,
             pc[p] # "csv_cierre", Avanza(p, t)
      PROVE  OrdenOK'
  BY <1>0, <1>3, OrdenAvanza
<1>4. CASE CsvPedir(p)
  BY <1>0, <1>1, <1>2, <1>3, <1>4 DEF CsvPedir, NoSeAbre, Copia, Reescrituras
<1>5. CASE CsvDevolver(p)
  BY <1>0, <1>1, <1>2, <1>3, <1>5 DEF CsvDevolver, NoSeAbre, Copia, Reescrituras
<1>6. CASE CsvCierre(p)
  BY <1>1, <1>2, <1>6, EnOperacion DEF CsvCierre, NoSeAbre, Reescrituras
<1>7. CASE CsvPrestamo(p)
  <2>1. orden[p].usuario \in Usuarios /\ orden[p].isbn \in ISBNs
    BY <1>7, EnOperacion DEF CsvPrestamo
  <2> DEFINE o == [orden[p] EXCEPT !.fecha = hoy]
  <2>2. o.usuario \in Usuarios /\ o.isbn \in ISBNs
    BY <1>0, <2>1 DEF ProcesoOK, Orden
  <2>3. /\ pc' = [pc EXCEPT ![p] = "csv_historial"]
        /\ tramo' = [tramo EXCEPT ![p] = "abrir"]
        /\ orden' = [orden EXCEPT ![p] = o]
    <3>1. tramo[p] = "abrir"
      BY <1>7 DEF CsvPrestamo, OrdenOK, Reescrituras
    <3> QED
      BY <1>0, <1>7, <3>1 DEF CsvPrestamo, ProcesoOK
  <2>4. /\ "csv_historial" \in PasosCSV /\ "abrir" \in Tramos
        /\ "csv_historial" \notin PasosBD \cup {"esperando", "menu", "cerrado"}
    BY DEF PasosBD, PasosCSV, Tramos
  <2> HIDE DEF o
  <2> QED
    BY <1>0, <2>2, <2>3, <2>4, OrdenDe
<1>8. CASE CsvHistorial(p)
  BY <1>1, <1>8 DEF CsvHistorial
<1>9. CASE Cerrar(p) \/ Borrar(p) \/ Renombrar(p) \/ Quitar(p)
  <2>1. pc[p] \in Reescrituras
    BY <1>9 DEF Cerrar, Borrar, Renombrar, Quitar, OrdenOK
  <2>2. CASE Cerrar(p)
    <3>1. CASE tramo[p] = "cerrar" /\ Avanza(p, "borrar")
      BY <1>2, <2>1, <3>1 DEF OrdenOK
    <3>2. CASE tramo[p] = "descartar" /\ Avanza(p, "quitar")
      BY <1>3, <2>1, <3>2 DEF OrdenOK
    <3> QED
      BY <2>2, <3>1, <3>2 DEF Cerrar
  <2>3. CASE Borrar(p)
    <3>1. orden[p].isbn \in ISBNs
      BY <2>3 DEF Borrar, OrdenOK
    <3> QED
      BY <1>1, <1>2, <2>1, <2>3, <3>1 DEF Borrar
  <2>4. CASE Renombrar(p)
    <3>1. orden[p].isbn \in ISBNs /\ EnCurso(p)
      BY <1>0, <2>1, <2>4 DEF Renombrar, OrdenOK, EnCurso
    <3>2. ASSUME NEW paso \in {"csv_prestamo", "csv_cierre"}, Sigue(p, paso)
          PROVE  OrdenOK'
      <4>1. paso \in PasosCSV /\ paso \notin PasosBD
        BY <3>2 DEF PasosCSV, PasosBD
      <4> QED
        BY <3>1, <3>2, <4>1, OrdenSigue
    <3> QED
      BY <1>1, <2>4, <3>2 DEF Renombrar, Prosigue
  <2>5. CASE Quitar(p)
    BY <1>1, <2>5 DEF Quitar
  <2> QED
    BY <1>9, <2>2, <2>3, <2>4, <2>5
<1> QED
  BY <1>4, <1>5, <1>6, <1>7, <1>8, <1>9 DEF PasoCSV

LEMMA OrdenConsolaYEntorno ==
  ASSUME TypeOK, OrdenOK, NEW p \in Procesos,
         (p \in Consolas /\ PasoConsola(p)) \/ Fallo(p) \/ FalloAlAbrir(p) \/ Caida(p) \/ PasaDia
  PROVE  OrdenOK'
<1>0. /\ ProcesoOK /\ Servidor \in Procesos /\ Servidor \notin Consolas
      /\ Procesos = {Servidor} \cup Consolas
  BY ConstantesOK DEF TypeOK, ProcesoOK, Procesos
<1>1. ASSUME NEW paso \in {"menu", "cerrado"}, p \in Consolas,
             pc[p] \in {"menu", "cerrado"}, pc' = [pc EXCEPT ![p] = paso],
             UNCHANGED <<tramo, orden>>
      PROVE  OrdenOK'
  <2>1. tramo[p] = "abrir" /\ paso \notin PasosBD \cup PasosCSV /\ "abrir" \in Tramos
    BY <1>1 DEF OrdenOK, Reescrituras, PasosBD, PasosCSV, Tramos
  <2>2. /\ tramo' = [tramo EXCEPT ![p] = "abrir"]
        /\ orden' = [orden EXCEPT ![p] = orden[p]]
    BY <1>0, <1>1, <2>1 DEF ProcesoOK
  <2>3. /\ paso \in PasosBD \cup PasosCSV \cup {"esperando", "menu", "cerrado"}
        /\ paso \notin PasosBD \cup {"esperando"} /\ p # Servidor
        /\ pc' = [pc EXCEPT ![p] = paso]
    BY <1>0, <1>1, <2>1
  <2> QED
    BY <1>0, <2>1, <2>2, <2>3, OrdenDe
<1>2. CASE p \in Consolas /\ (Arrancar(p) \/ Salir(p))
  BY <1>1, <1>2 DEF Arrancar, Salir
<1>3. ASSUME NEW u \in Usuarios, NEW i \in Pedibles, p \in Consolas, MenuPrincipal(p, u, i)
      PROVE  OrdenOK'
  <2>1. PICK paso \in {"csv_pedir", "csv_devolver"} : Empieza(p, paso, u, i, 0)
    BY <1>3 DEF MenuPrincipal
  <2> DEFINE o == [usuario |-> u, isbn |-> i, fila |-> 0, fecha |-> 0]
  <2>2. /\ pc' = [pc EXCEPT ![p] = paso]
        /\ tramo' = [tramo EXCEPT ![p] = "abrir"]
        /\ orden' = [orden EXCEPT ![p] = o]
    BY <2>1 DEF Empieza
  <2>3. o.usuario \in Usuarios /\ "abrir" \in Tramos
    BY DEF Tramos
  <2>4. /\ paso \in PasosCSV /\ p # Servidor
        /\ paso \notin PasosBD \cup {"esperando", "menu", "cerrado"}
    BY <1>0, <1>3 DEF PasosBD, PasosCSV
  <2> HIDE DEF o
  <2> QED
    BY <1>0, <2>2, <2>3, <2>4, OrdenDe
<1>4. CASE Fallo(p) \/ FalloAlAbrir(p) \/ Caida(p)
  <2>1. PICK paso \in {"esperando", "menu", "cerrado"}, r \in {"error", "nada"} :
          /\ Termina(p, paso, r)
          /\ paso = "esperando" <=> p = Servidor
    BY <1>0, <1>4 DEF Fallo, FalloAlAbrir, Caida, Reposo
  <2> QED
    BY <2>1, OrdenTermina
<1>5. CASE PasaDia
  BY <1>5 DEF PasaDia, OrdenOK, EnCurso, proceso
<1> QED
  BY <1>2, <1>3, <1>4, <1>5 DEF PasoConsola

(***************************************************************************)
(* Prestamos is type correct, and its operations are well formed.          *)
(***************************************************************************)
LEMMA TiposQuietos ==
  ASSUME TypeOK, OrdenOK, UNCHANGED vars
  PROVE  TypeOK' /\ OrdenOK'
BY DEF TypeOK, OrdenOK, EnCurso, vars, bd, csv, copias, proceso, historia, cotas

LEMMA TiposPaso ==
  ASSUME TypeOK, OrdenOK, [Next]_vars
  PROVE  TypeOK' /\ OrdenOK'
<1> USE DEF Procesos
<1>1. CASE PasoServidor
  BY <1>1, TiposServidor, OrdenServidor
<1>2. ASSUME NEW p \in Procesos, PasoCSV(p)
      PROVE  TypeOK' /\ OrdenOK'
  BY <1>2, TiposCSV, OrdenCSV
<1>3. ASSUME NEW p \in Procesos, Fallo(p) \/ FalloAlAbrir(p) \/ Caida(p)
      PROVE  TypeOK' /\ OrdenOK'
  BY <1>3, TiposEntorno, OrdenConsolaYEntorno
<1>4. ASSUME NEW p \in Consolas, PasoConsola(p)
      PROVE  TypeOK' /\ OrdenOK'
  BY <1>4, TiposConsola, OrdenConsolaYEntorno
<1>5. CASE PasaDia
  BY <1>5, TiposEntorno, OrdenConsolaYEntorno
<1>6. CASE UNCHANGED vars
  BY <1>6, TiposQuietos
<1> QED
  BY <1>1, <1>2, <1>3, <1>4, <1>5, <1>6 DEF Next

THEOREM Tipos == Spec => [](TypeOK /\ OrdenOK)
<1>1. Init => TypeOK /\ OrdenOK
  BY TiposIniciales
<1>2. (TypeOK /\ OrdenOK) /\ [Next]_vars => (TypeOK /\ OrdenOK)'
  BY TiposPaso
<1> QED
  BY <1>1, <1>2, PTL DEF Spec

-----------------------------------------------------------------------------
(* The counters of the two stores *)

(***************************************************************************)
(* Where each book of a text comes from, one step later: from the same     *)
(* text, from the one it is copied from, or from one of the four           *)
(* statements that change a book.                                          *)
(***************************************************************************)
Viene(ahora, antes, i) == i \in DOMAIN antes /\ ahora[i] = antes[i]

DeLibros(t, i) ==
  \/ Viene(t, librosCSV, i)
  \/ /\ i \in DOMAIN librosCSV
     /\ \/ t[i] = RestarCSV(librosCSV[i]) /\ HayCopias(librosCSV[i].copias)
        \/ t[i] = SumarCSV(librosCSV[i])

LEMMA VieneIgual ==
  ASSUME NEW l
  PROVE  \A i \in DOMAIN l : Viene(l, l, i)
BY DEF Viene

LEMMA VieneDeVacio ==
  \A i \in DOMAIN SinLibros : FALSE
BY DEF SinLibros

(***************************************************************************)
(* The copies.                                                             *)
(***************************************************************************)
LEMMA CopiasVienen ==
  ASSUME TypeOK, OrdenOK, [Next]_vars, NEW p \in Procesos
  PROVE  \A i \in DOMAIN copiaLibros'[p] :
           Viene(copiaLibros'[p], copiaLibros[p], i) \/ DeLibros(copiaLibros'[p], i)
<1> DEFINE Bien == \A i \in DOMAIN copiaLibros'[p] :
                     Viene(copiaLibros'[p], copiaLibros[p], i) \/ DeLibros(copiaLibros'[p], i)
<1>0. CopiasOK /\ EsTexto(librosCSV)
  BY DEF TypeOK, CopiasOK
<1>1. CASE UNCHANGED copiaLibros
  BY <1>1, VieneIgual
<1>2. ASSUME NEW q \in Procesos, copiaLibros' = [copiaLibros EXCEPT ![q] = SinLibros]
      PROVE  Bien
  <2>1. copiaLibros'[p] = copiaLibros[p] \/ copiaLibros'[p] = SinLibros
    BY <1>0, <1>2 DEF CopiasOK
  <2> QED
    BY <2>1, VieneIgual, VieneDeVacio
<1>3. ASSUME NEW q \in Procesos, NEW t, NEW r, Copia(q, t, r),
             \A i \in DOMAIN t : DeLibros(t, i)
      PROVE  Bien
  <2>1. copiaLibros'[p] = copiaLibros[p] \/ copiaLibros'[p] = t
    BY <1>0, <1>3 DEF CopiasOK, Copia
  <2> QED
    BY <1>3, <2>1, VieneIgual
<1> HIDE DEF Bien
<1>4. \A i \in DOMAIN librosCSV : DeLibros(librosCSV, i)
  BY DEF DeLibros, Viene
<1>5. ASSUME NEW q \in Procesos, CsvPedir(q)
      PROVE  Bien
  <2>1. ASSUME NEW S \in SUBSET (DOMAIN librosCSV \ {orden[q].isbn}),
               Copia(q, Parte(librosCSV, S), "descartar")
        PROVE  Bien
    <3>1. \A i \in DOMAIN Parte(librosCSV, S) : DeLibros(Parte(librosCSV, S), i)
      BY DEF DeLibros, Viene, Parte
    <3> QED
      BY <1>3, <2>1, <3>1
  <2>2. ASSUME orden[q].isbn \in DOMAIN librosCSV,
               HayCopias(librosCSV[orden[q].isbn].copias),
               Copia(q, [librosCSV EXCEPT ![orden[q].isbn] = RestarCSV(librosCSV[orden[q].isbn])],
                     "cerrar")
        PROVE  Bien
    <3> DEFINE t == [librosCSV EXCEPT ![orden[q].isbn] = RestarCSV(librosCSV[orden[q].isbn])]
    <3>1. \A i \in DOMAIN t : DeLibros(t, i)
      BY <1>0, <2>2, TextoForma DEF DeLibros, Viene
    <3> HIDE DEF t
    <3>2. Copia(q, t, "cerrar")
      BY <2>2 DEF t
    <3> QED
      BY <1>3, <3>1, <3>2
  <2>3. CASE Copia(q, librosCSV, "descartar")
    BY <1>3, <1>4, <2>3
  <2>4. CASE UNCHANGED <<copias, alterados>> \/ NoSeAbre(q, "libros")
    BY <1>1, <2>4 DEF Bien, copias, NoSeAbre
  <2> QED
    BY <1>5, <2>1, <2>2, <2>3, <2>4 DEF CsvPedir
<1>6. ASSUME NEW q \in Procesos, CsvDevolver(q)
      PROVE  Bien
  <2>1. ASSUME orden[q].isbn \in DOMAIN librosCSV,
               Copia(q, [librosCSV EXCEPT ![orden[q].isbn] = SumarCSV(librosCSV[orden[q].isbn])],
                     "cerrar")
        PROVE  Bien
    <3> DEFINE t == [librosCSV EXCEPT ![orden[q].isbn] = SumarCSV(librosCSV[orden[q].isbn])]
    <3>1. \A i \in DOMAIN t : DeLibros(t, i)
      BY <1>0, <2>1, TextoForma DEF DeLibros, Viene
    <3> HIDE DEF t
    <3>2. Copia(q, t, "cerrar")
      BY <2>1 DEF t
    <3> QED
      BY <1>3, <3>1, <3>2
  <2>2. CASE Copia(q, librosCSV, "descartar")
    BY <1>3, <1>4, <2>2
  <2>3. CASE NoSeAbre(q, "libros")
    BY <1>1, <2>3 DEF Bien, NoSeAbre
  <2> QED
    BY <1>6, <2>1, <2>2, <2>3 DEF CsvDevolver
<1>7. ASSUME PasoServidor \/ PasaDia \/ UNCHANGED vars
      PROVE  Bien
  <2>1. UNCHANGED copiaLibros
    BY <1>7 DEF PasoServidor, PedirRemoto, DevolverRemoto, PedirRestar, PedirPrestamo,
                PedirHistorial, DevolverBorrar, DevolverSumar, DevolverHistorial,
                PasaDia, vars, csv, copias
  <2> QED
    BY <1>1, <2>1 DEF Bien
<1>8. ASSUME NEW q \in Consolas, PasoConsola(q)
      PROVE  Bien
  <2>1. UNCHANGED copiaLibros
    BY <1>8 DEF PasoConsola, Arrancar, Salir, MenuPrincipal, csv, copias
  <2> QED
    BY <1>1, <2>1 DEF Bien
<1>9. ASSUME NEW q \in Procesos, Fallo(q) \/ FalloAlAbrir(q) \/ Caida(q)
      PROVE  Bien
  <2>1. copiaLibros' = [copiaLibros EXCEPT ![q] = SinLibros]
    BY <1>9 DEF Fallo, FalloAlAbrir, Caida, Interrumpe
  <2> QED
    BY <1>2, <2>1
<1>10. ASSUME NEW q \in Procesos, CsvPrestamo(q) \/ CsvHistorial(q) \/ CsvCierre(q)
                                 \/ Borrar(q) \/ Renombrar(q) \/ Quitar(q)
       PROVE  Bien
  <2>1. UNCHANGED copiaLibros
    BY <1>10 DEF CsvPrestamo, CsvHistorial, CsvCierre, NoSeAbre, Borrar, Renombrar, Quitar, copias
  <2> QED
    BY <1>1, <2>1 DEF Bien
<1>11. ASSUME NEW q \in Procesos, Cerrar(q)
       PROVE  Bien
  BY <1>1, <1>2, <1>11 DEF Cerrar, Bien
<1>12. ASSUME NEW q \in Procesos, PasoCSV(q)
       PROVE  Bien
  BY <1>5, <1>6, <1>10, <1>11, <1>12 DEF PasoCSV
<1>13. Bien
  BY <1>7, <1>8, <1>9, <1>12 DEF Next
<1> QED
  BY <1>13 DEF Bien

(***************************************************************************)
(* temp.csv, libros.csv and LibrosBd.                                      *)
(***************************************************************************)
LEMMA TextosVienen ==
  ASSUME TypeOK, OrdenOK, [Next]_vars
  PROVE  /\ \A i \in DOMAIN tempLibros' :
              \/ Viene(tempLibros', tempLibros, i)
              \/ \E p \in Procesos : Viene(tempLibros', copiaLibros[p], i)
         /\ \A i \in DOMAIN librosCSV' :
              Viene(librosCSV', librosCSV, i) \/ Viene(librosCSV', tempLibros, i)
         /\ \A i \in DOMAIN librosBD' :
              \/ Viene(librosBD', librosBD, i) \/ Viene(librosBD', librosCSV, i)
              \/ /\ i \in DOMAIN librosBD
                 /\ librosBD'[i] \in {RestarSQL(librosBD[i]), SumarSQL(librosBD[i])}
<1> DEFINE T == \A i \in DOMAIN tempLibros' :
                  \/ Viene(tempLibros', tempLibros, i)
                  \/ \E p \in Procesos : Viene(tempLibros', copiaLibros[p], i)
           L == \A i \in DOMAIN librosCSV' :
                  Viene(librosCSV', librosCSV, i) \/ Viene(librosCSV', tempLibros, i)
           B == \A i \in DOMAIN librosBD' :
                  \/ Viene(librosBD', librosBD, i) \/ Viene(librosBD', librosCSV, i)
                  \/ /\ i \in DOMAIN librosBD
                     /\ librosBD'[i] \in {RestarSQL(librosBD[i]), SumarSQL(librosBD[i])}
<1>0. EsTexto(librosBD)
  BY DEF TypeOK
<1> SUFFICES T /\ L /\ B
  OBVIOUS
<1>a. (UNCHANGED tempLibros \/ tempLibros' = SinLibros) => T
  BY VieneIgual, VieneDeVacio
<1>b. UNCHANGED librosCSV => L
  BY VieneIgual
<1>c. UNCHANGED librosBD => B
  BY VieneIgual
<1>d. librosCSV' = tempLibros => L
  BY VieneIgual
<1>e. (librosBD' = librosCSV \/ librosBD' = SinLibros) => B
  BY VieneIgual, VieneDeVacio
<1>f. ASSUME NEW i, NEW b \in {RestarSQL(librosBD[i]), SumarSQL(librosBD[i])},
             librosBD' = [librosBD EXCEPT ![i] = b]
      PROVE  B
  BY <1>0, <1>f, TextoForma DEF Viene
<1>g. ASSUME NEW p \in Procesos, tempLibros' = SobreLibros(copiaLibros[p], tempLibros)
      PROVE  T
  BY <1>g DEF SobreLibros, Viene
<1> HIDE DEF T, L, B
<1>2. CASE PasoServidor
  <2>1. UNCHANGED <<tempLibros, librosCSV>>
    BY <1>2 DEF PasoServidor, PedirRemoto, DevolverRemoto, PedirRestar, PedirPrestamo,
                PedirHistorial, DevolverBorrar, DevolverSumar, DevolverHistorial, csv, copias
  <2>2. CASE PedirRestar
    BY <1>a, <1>b, <1>f, <2>1, <2>2 DEF PedirRestar
  <2>3. CASE DevolverSumar
    BY <1>a, <1>b, <1>c, <1>f, <2>1, <2>3 DEF DevolverSumar
  <2>4. CASE UNCHANGED librosBD
    BY <1>a, <1>b, <1>c, <2>1, <2>4
  <2>5. T /\ L /\ B
    BY <1>2, <2>2, <2>3, <2>4
       DEF PasoServidor, PedirRemoto, PedirPrestamo, PedirHistorial,
           DevolverRemoto, DevolverBorrar, DevolverHistorial, bd
  <2> QED
    BY <2>5
<1>3. ASSUME NEW p \in Procesos, PasoCSV(p)
      PROVE  T /\ L /\ B
  <2>1. UNCHANGED librosBD
    BY <1>3 DEF PasoCSV, CsvPedir, CsvDevolver, CsvCierre, CsvPrestamo, CsvHistorial,
                Cerrar, Borrar, Renombrar, Quitar, bd
  <2>2. L
    <3>1. UNCHANGED librosCSV \/ librosCSV' = tempLibros
      BY <1>3 DEF PasoCSV, CsvPedir, CsvDevolver, CsvCierre, CsvPrestamo, CsvHistorial,
                  Cerrar, Borrar, Renombrar, Instala, Quitar
    <3> QED
      BY <1>b, <1>d, <3>1
  <2>3. T
    <3>1. CASE CsvPedir(p) \/ CsvDevolver(p) \/ CsvCierre(p)
      BY <1>a, <3>1 DEF CsvPedir, CsvDevolver, CsvCierre, AbreAmbos, Vaciar, copias
    <3>2. CASE CsvPrestamo(p) \/ CsvHistorial(p) \/ Borrar(p) \/ Renombrar(p) \/ Quitar(p)
      BY <1>a, <3>2 DEF CsvPrestamo, CsvHistorial, Borrar, Renombrar, Instala, Quitar, copias
    <3>3. CASE Cerrar(p)
      BY <1>a, <1>g, <3>3 DEF Cerrar
    <3> QED
      BY <1>3, <3>1, <3>2, <3>3 DEF PasoCSV
  <2> QED
    BY <1>c, <2>1, <2>2, <2>3
<1>4. ASSUME NEW p \in Consolas, PasoConsola(p)
      PROVE  T /\ L /\ B
  <2>1. UNCHANGED <<tempLibros, librosCSV>>
    BY <1>4 DEF PasoConsola, Arrancar, Salir, MenuPrincipal, csv, copias
  <2>2. librosBD' = librosBD \/ librosBD' = librosCSV \/ librosBD' = SinLibros
    BY <1>4 DEF PasoConsola, Arrancar, Salir, MenuPrincipal, bd
  <2> QED
    BY <1>a, <1>b, <1>c, <1>e, <2>1, <2>2
<1>5. ASSUME NEW p \in Procesos, Fallo(p) \/ FalloAlAbrir(p) \/ Caida(p)
      PROVE  T /\ L /\ B
  <2>1. UNCHANGED <<librosCSV, librosBD>>
    BY <1>5 DEF Fallo, FalloAlAbrir, Caida, Interrumpe, bd
  <2>2. UNCHANGED tempLibros \/ tempLibros' = SinLibros
    BY <1>5 DEF Fallo, FalloAlAbrir, Caida, AbreAmbos, Vaciar
  <2> QED
    BY <1>a, <1>b, <1>c, <2>1, <2>2
<1>6. CASE PasaDia \/ UNCHANGED vars
  <2>1. UNCHANGED <<tempLibros, librosCSV, librosBD>>
    BY <1>6 DEF PasaDia, vars, bd, csv, copias
  <2> QED
    BY <1>a, <1>b, <1>c, <2>1
<1> QED
  BY <1>2, <1>3, <1>4, <1>5, <1>6 DEF Next

(***************************************************************************)
(* Every text of libros.csv: the file, the temporary one and the copies.   *)
(***************************************************************************)
TextosCoherentes ==
  /\ Coherente(librosBD)
  /\ Coherente(librosCSV)
  /\ Coherente(tempLibros)
  /\ \A p \in Procesos : Coherente(copiaLibros[p])

LEMMA CambiosCoherentes ==
  ASSUME NEW l \in Libro
  PROVE  /\ RestarSQL(l).disponible = 1 <=> RestarSQL(l).copias > 0
         /\ SumarSQL(l).disponible = 1 <=> SumarSQL(l).copias > 0
         /\ RestarCSV(l).disponible = 1 <=> RestarCSV(l).copias > 0
         /\ SumarCSV(l).disponible = 1 <=> SumarCSV(l).copias > 0
<1>1. l.copias \in Int
  BY DEF Libro
<1> QED
  BY <1>1 DEF RestarSQL, SumarSQL, RestarCSV, SumarCSV

LEMMA CoherentesPaso ==
  ASSUME TypeOK, OrdenOK, TextosCoherentes, [Next]_vars
  PROVE  TextosCoherentes'
<1>0. /\ \A i \in DOMAIN librosBD : librosBD[i] \in Libro
      /\ \A i \in DOMAIN librosCSV : librosCSV[i] \in Libro
  BY TextoForma DEF TypeOK
<1>1. Coherente(librosBD')
  <2> SUFFICES ASSUME NEW i \in DOMAIN librosBD'
               PROVE  librosBD'[i].disponible = 1 <=> librosBD'[i].copias > 0
    BY DEF Coherente
  <2> QED
    BY <1>0, TextosVienen, CambiosCoherentes DEF TextosCoherentes, Coherente, Viene
<1>2. Coherente(tempLibros') /\ Coherente(librosCSV')
  BY TextosVienen DEF TextosCoherentes, Coherente, Viene
<1>3. ASSUME NEW p \in Procesos
      PROVE  Coherente(copiaLibros'[p])
  <2> SUFFICES ASSUME NEW i \in DOMAIN copiaLibros'[p]
               PROVE  copiaLibros'[p][i].disponible = 1 <=> copiaLibros'[p][i].copias > 0
    BY DEF Coherente
  <2>1. Viene(copiaLibros'[p], copiaLibros[p], i) \/ DeLibros(copiaLibros'[p], i)
    BY CopiasVienen
  <2> QED
    BY <1>0, <2>1, CambiosCoherentes DEF TextosCoherentes, Coherente, Viene, DeLibros
<1> QED
  BY <1>1, <1>2, <1>3 DEF TextosCoherentes

(***************************************************************************)
(* In both stores, and whatever copy of libros.csv has been installed over *)
(* another, a book is flagged available exactly when its counter is        *)
(* positive.                                                               *)
(***************************************************************************)
THEOREM BanderaYContador == Spec => []DisponibleCoherente
<1>1. Init => TextosCoherentes
  BY ConstantesOK DEF Init, TextosCoherentes, Coherente, LibroInicial, SinLibros
<1>2. TypeOK /\ OrdenOK /\ TextosCoherentes /\ [Next]_vars => TextosCoherentes'
  BY CoherentesPaso
<1>3. TextosCoherentes => DisponibleCoherente
  BY DEF TextosCoherentes, DisponibleCoherente
<1> QED
  BY <1>1, <1>2, <1>3, Tipos, PTL DEF Spec

TextosNoNegativos ==
  /\ SinNegativos(librosCSV)
  /\ SinNegativos(tempLibros)
  /\ \A p \in Procesos : SinNegativos(copiaLibros[p])

LEMMA NoNegativosPaso ==
  ASSUME TypeOK, OrdenOK, TextosNoNegativos, [Next]_vars
  PROVE  TextosNoNegativos'
<1>0. \A i \in DOMAIN librosCSV : librosCSV[i].copias \in Int
  BY TextoForma DEF TypeOK
<1>1. SinNegativos(tempLibros') /\ SinNegativos(librosCSV')
  BY TextosVienen DEF TextosNoNegativos, SinNegativos, Viene
<1>2. ASSUME NEW l, l.copias \in Int, l.copias >= 0
      PROVE  /\ SumarCSV(l).copias >= 0
             /\ HayCopias(l.copias) => RestarCSV(l).copias >= 0
  BY <1>2 DEF SumarCSV, RestarCSV, HayCopias
<1>3. ASSUME NEW p \in Procesos
      PROVE  SinNegativos(copiaLibros'[p])
  <2> SUFFICES ASSUME NEW i \in DOMAIN copiaLibros'[p]
               PROVE  copiaLibros'[p][i].copias >= 0
    BY DEF SinNegativos
  <2>1. Viene(copiaLibros'[p], copiaLibros[p], i) \/ DeLibros(copiaLibros'[p], i)
    BY CopiasVienen
  <2> QED
    BY <1>0, <1>2, <2>1 DEF TextosNoNegativos, SinNegativos, Viene, DeLibros
<1> QED
  BY <1>1, <1>3 DEF TextosNoNegativos

(***************************************************************************)
(* libros.csv never counts below zero, although its text may be one copied *)
(* before other loans.                                                     *)
(***************************************************************************)
THEOREM SinNegativosEnCSV == Spec => []CopiasCSVNoNegativas
<1>1. Init => TextosNoNegativos
  BY ConstantesOK DEF Init, TextosNoNegativos, SinNegativos, LibroInicial, SinLibros
<1>2. TypeOK /\ OrdenOK /\ TextosNoNegativos /\ [Next]_vars => TextosNoNegativos'
  BY NoNegativosPaso
<1>3. TextosNoNegativos => CopiasCSVNoNegativas
  BY DEF TextosNoNegativos, CopiasCSVNoNegativas
<1> QED
  BY <1>1, <1>2, <1>3, Tipos, PTL DEF Spec

-----------------------------------------------------------------------------
(* Frames: what a step leaves alone *)

(***************************************************************************)
(* A step of one process does not move the others.                         *)
(***************************************************************************)
OtrosQuietos(p) ==
  \A q \in Procesos \ {p} :
    /\ pc'[q] = pc[q]
    /\ tramo'[q] = tramo[q]
    /\ orden'[q] = orden[q]
    /\ resultado'[q] = resultado[q]

LEMMA OtrosAlSeguir ==
  ASSUME ProcesoOK, NEW p \in Procesos,
         \/ \E paso : Sigue(p, paso)
         \/ \E t : Avanza(p, t)
         \/ \E paso, r : Termina(p, paso, r)
         \/ \E paso, u, i, f : Empieza(p, paso, u, i, f)
  PROVE  OtrosQuietos(p)
BY DEF ProcesoOK, OtrosQuietos, Sigue, Avanza, Termina, Empieza

LEMMA MarcoCSV ==
  ASSUME TypeOK, NEW p \in Procesos, PasoCSV(p)
  PROVE  /\ UNCHANGED <<bd, hoy, fondo, perdidas, cortadas, cotas>>
         /\ OtrosQuietos(p)
         /\ pc[p] \in PasosCSV \/ tramo[p] # "abrir"
         /\ pc'[p] = pc[p] \/ pc'[p] \in PasosCSV \cup {Reposo(p)}
<1>0. ProcesoOK
  BY DEF TypeOK, ProcesoOK
<1>1. UNCHANGED <<bd, hoy, fondo, perdidas, cortadas, cotas>>
  BY DEF PasoCSV, CsvPedir, CsvPrestamo, CsvHistorial, CsvDevolver, CsvCierre,
         Cerrar, Borrar, Renombrar, Quitar, historia
<1>2. OtrosQuietos(p)
  <2>1. CASE CsvPrestamo(p)
    BY <1>0, <2>1 DEF CsvPrestamo, OtrosQuietos, ProcesoOK
  <2>2. CASE ~ CsvPrestamo(p)
    <3>1. (\E paso : Sigue(p, paso)) \/ (\E t : Avanza(p, t)) \/ (\E paso, r : Termina(p, paso, r))
      BY <2>2 DEF PasoCSV, CsvPedir, CsvHistorial, CsvDevolver, CsvCierre,
                  Cerrar, Borrar, Renombrar, Prosigue, Quitar, NoSeAbre, Copia
    <3> QED
      BY <1>0, <3>1, OtrosAlSeguir
  <2> QED
    BY <2>1, <2>2
<1>3. pc[p] \in PasosCSV \/ tramo[p] # "abrir"
  BY DEF PasoCSV, CsvPedir, CsvPrestamo, CsvHistorial, CsvDevolver, CsvCierre,
         Cerrar, Borrar, Renombrar, Quitar, PasosCSV
<1>4. pc'[p] = pc[p] \/ pc'[p] \in PasosCSV \cup {Reposo(p)}
  BY <1>0 DEF PasoCSV, CsvPedir, CsvPrestamo, CsvHistorial, CsvDevolver, CsvCierre,
         Cerrar, Borrar, Renombrar, Prosigue, Quitar, NoSeAbre, Copia,
         Sigue, Avanza, Termina, PasosCSV, ProcesoOK
<1> QED
  BY <1>1, <1>2, <1>3, <1>4

LEMMA MarcoFallo ==
  ASSUME TypeOK, NEW p \in Procesos, Fallo(p) \/ FalloAlAbrir(p) \/ Caida(p)
  PROVE  /\ Interrumpe(p)
         /\ OtrosQuietos(p)
         /\ tramo'[p] = "abrir"
         /\ pc'[p] \in {"esperando", "menu", "cerrado"}
         /\ pc'[p] = "esperando" <=> p = Servidor
         /\ resultado'[p] \in {"nada", "error"}
<1>0. ProcesoOK
  BY DEF TypeOK, ProcesoOK
<1>1. PICK paso \in {"esperando", "menu", "cerrado"}, r \in {"error", "nada"} :
        /\ Termina(p, paso, r)
        /\ paso = "esperando" <=> p = Servidor
  BY DEF Fallo, FalloAlAbrir, Caida, Reposo
<1>2. Interrumpe(p)
  BY DEF Fallo, FalloAlAbrir, Caida
<1>3. OtrosQuietos(p)
  BY <1>0, <1>1, OtrosAlSeguir
<1> QED
  BY <1>0, <1>1, <1>2, <1>3 DEF Termina, ProcesoOK
-----------------------------------------------------------------------------
(* The rows of Prestamos *)

(***************************************************************************)
(* Prestamos is a finite table, its IDs are distinct and below the next    *)
(* one, and the row that a return is about to delete is in it.  A loan is  *)
(* begun only of a book that has a row in LibrosBd.                        *)
(***************************************************************************)
FilasOK ==
  /\ IsFiniteSet(prestamosBD)
  /\ \A r \in prestamosBD : r.id < siguienteID
  /\ \A r, q \in prestamosBD : r.id = q.id => r = q
  /\ pc[Servidor] = "devolver_borrar" =>
       \E r \in prestamosBD : /\ r.id = orden[Servidor].fila
                              /\ De(r, orden[Servidor].usuario, orden[Servidor].isbn)
  /\ pc[Servidor] = "pedir_restar" => orden[Servidor].isbn \in DOMAIN librosBD

LEMMA FilasIguales ==
  ASSUME FilasOK, UNCHANGED <<prestamosBD, siguienteID>>,
         UNCHANGED librosBD \/ pc'[Servidor] # "pedir_restar",
         \/ pc'[Servidor] \notin {"devolver_borrar", "pedir_restar"}
         \/ pc'[Servidor] = pc[Servidor] /\ orden'[Servidor] = orden[Servidor]
  PROVE  FilasOK'
BY DEF FilasOK

LEMMA FilasServidor ==
  ASSUME TypeOK, OrdenOK, FilasOK, PasoServidor
  PROVE  FilasOK'
<1>0. ProcesoOK /\ Servidor \in Procesos
  BY DEF TypeOK, ProcesoOK, Procesos
<1>1. ASSUME NEW u \in Usuarios, NEW i \in Pedibles, PedirRemoto(u, i)
      PROVE  FilasOK'
  <2>1. /\ pc'[Servidor] # "devolver_borrar"
        /\ pc'[Servidor] = "pedir_restar" => orden'[Servidor].isbn \in DOMAIN librosBD
    BY <1>0, <1>1 DEF PedirRemoto, Empieza, Termina, ProcesoOK
  <2> QED
    BY <1>1, <2>1 DEF PedirRemoto, bd, FilasOK
<1>2. ASSUME NEW u \in Usuarios, NEW i \in Pedibles, DevolverRemoto(u, i)
      PROVE  FilasOK'
  <2>1. CASE Termina(Servidor, "esperando", "error")
    <3>1. pc'[Servidor] \notin {"devolver_borrar", "pedir_restar"}
      BY <1>0, <2>1 DEF Termina, ProcesoOK
    <3> QED
      BY <1>2, <3>1, FilasIguales DEF DevolverRemoto, bd
  <2>2. ASSUME NEW r \in prestamosBD, De(r, u, i),
               Empieza(Servidor, "devolver_borrar", u, i, r.id)
        PROVE  FilasOK'
    <3>1. /\ pc'[Servidor] = "devolver_borrar"
          /\ orden'[Servidor].fila = r.id
          /\ orden'[Servidor].usuario = u
          /\ orden'[Servidor].isbn = i
      BY <1>0, <2>2 DEF Empieza, ProcesoOK
    <3>2. UNCHANGED <<prestamosBD, siguienteID>>
      BY <1>2 DEF DevolverRemoto, bd
    <3> QED
      BY <2>2, <3>1, <3>2 DEF FilasOK, De
  <2> QED
    BY <1>2, <2>1, <2>2 DEF DevolverRemoto
<1>3. CASE PedirPrestamo
  <2> DEFINE fila == [id |-> siguienteID, usuario |-> orden[Servidor].usuario,
                      isbn |-> orden[Servidor].isbn]
  <2>1. prestamosBD' = prestamosBD \cup {fila} /\ siguienteID' = siguienteID + 1
    BY <1>3 DEF PedirPrestamo
  <2>2. IsFiniteSet(prestamosBD')
    BY <2>1, FS_AddElement DEF FilasOK
  <2>3. \A r \in prestamosBD : r.id \in Nat /\ r.id < siguienteID /\ siguienteID \in Nat
    BY DEF FilasOK, TypeOK, FilaPrestamo
  <2>4. fila.id = siguienteID /\ siguienteID \in Nat
    BY DEF TypeOK
  <2>5. \A r \in prestamosBD' : r.id < siguienteID'
    BY <2>1, <2>3, <2>4
  <2>6. \A r, q \in prestamosBD' : r.id = q.id => r = q
    BY <2>1, <2>3, <2>4 DEF FilasOK
  <2>7. pc'[Servidor] \notin {"devolver_borrar", "pedir_restar"}
    BY <1>0, <1>3 DEF PedirPrestamo, Sigue, ProcesoOK
  <2> QED
    BY <2>2, <2>5, <2>6, <2>7 DEF FilasOK
<1>4. CASE DevolverBorrar
  <2>1. prestamosBD' \subseteq prestamosBD /\ siguienteID' = siguienteID
    BY <1>4 DEF DevolverBorrar
  <2>2. IsFiniteSet(prestamosBD')
    BY <2>1, FS_Subset DEF FilasOK
  <2>3. pc'[Servidor] \notin {"devolver_borrar", "pedir_restar"}
    BY <1>0, <1>4 DEF DevolverBorrar, Sigue, ProcesoOK
  <2> QED
    BY <2>1, <2>2, <2>3 DEF FilasOK
<1>5. CASE PedirRestar \/ PedirHistorial \/ DevolverSumar \/ DevolverHistorial
  <2>1. pc'[Servidor] \notin {"devolver_borrar", "pedir_restar"}
    BY <1>0, <1>5 DEF PedirRestar, PedirHistorial, DevolverSumar, DevolverHistorial,
                      Sigue, Termina, ProcesoOK
  <2>2. UNCHANGED <<prestamosBD, siguienteID>>
    BY <1>5 DEF PedirRestar, PedirHistorial, DevolverSumar, DevolverHistorial
  <2> QED
    BY <2>1, <2>2, FilasIguales
<1> QED
  BY <1>1, <1>2, <1>3, <1>4, <1>5 DEF PasoServidor

LEMMA FilasArrancar ==
  ASSUME TypeOK, NEW p \in Procesos, p # Servidor, Arrancar(p)
  PROVE  FilasOK'
<1>1. DOMAIN prestamosCSV = 1 .. Len(prestamosCSV) /\ Len(prestamosCSV) \in Nat
  BY DEF TypeOK
<1>2. prestamosBD' = {[id |-> k, usuario |-> prestamosCSV[k].usuario,
                       isbn |-> prestamosCSV[k].isbn] : k \in DOMAIN prestamosCSV}
  BY DEF Arrancar
<1>3. IsFiniteSet(prestamosBD')
  BY <1>2, FilasFinitas DEF TypeOK
<1>4. \A r \in prestamosBD' : r.id \in 1 .. Len(prestamosCSV)
  BY <1>1, <1>2
<1>5. \A r, q \in prestamosBD' : r.id = q.id => r = q
  BY <1>2
<1>6. siguienteID' = Len(prestamosCSV) + 1
  BY DEF Arrancar
<1>7. pc'[Servidor] \notin {"devolver_borrar", "pedir_restar"}
  <2>1. pc'[Servidor] = pc[Servidor]
    BY DEF Arrancar, TypeOK
  <2> QED
    BY <2>1 DEF Arrancar, EnCurso, PasosBD
<1>8. \A r \in prestamosBD' : r.id < siguienteID'
  BY <1>1, <1>4, <1>6
<1> QED
  BY <1>3, <1>5, <1>7, <1>8 DEF FilasOK

(***************************************************************************)
(* The other steps leave the database as it is, and the server where it    *)
(* is or outside the statements that change the database.                  *)
(***************************************************************************)
BDQuieta ==
  /\ UNCHANGED <<librosBD, prestamosBD, siguienteID, fondo>>
  /\ \/ pc'[Servidor] = pc[Servidor] /\ orden'[Servidor] = orden[Servidor]
     \/ pc'[Servidor] \notin PasosBD

LEMMA FueraDeBD ==
  ASSUME TypeOK, OrdenOK, NEW p \in Procesos,
         \/ PasoCSV(p)
         \/ p \in Consolas /\ Salir(p)
         \/ p \in Consolas /\ \E u \in Usuarios, i \in Pedibles : MenuPrincipal(p, u, i)
         \/ PasaDia
         \/ UNCHANGED vars
  PROVE  /\ BDQuieta
         /\ perdidas' = perdidas
         /\ pc'[Servidor] \notin PasosBD => pc[Servidor] \notin PasosBD
<1> USE ConstantesOK DEF bd, csv, proceso, historia
<1>0. ProcesoOK /\ Servidor \in Procesos
  BY DEF TypeOK, ProcesoOK, Procesos
<1>1. CASE PasoCSV(p)
  <2>1. UNCHANGED <<librosBD, prestamosBD, siguienteID, fondo, perdidas>>
    BY <1>1, MarcoCSV
  <2>2. CASE p = Servidor
    <3>1. pc[Servidor] \notin PasosBD
      BY <1>1, <2>2, MarcoCSV DEF OrdenOK, Reescrituras, PasosBD, PasosCSV
    <3>2. pc'[Servidor] \notin PasosBD
      BY <1>1, <2>2, <3>1, MarcoCSV DEF Reposo, PasosBD, PasosCSV
    <3> QED
      BY <2>1, <3>1, <3>2 DEF BDQuieta
  <2>3. CASE p # Servidor
    BY <1>0, <1>1, <2>1, <2>3, MarcoCSV DEF BDQuieta, OtrosQuietos
  <2> QED
    BY <2>2, <2>3
<1>2. ASSUME p \in Consolas,
             Salir(p) \/ \E u \in Usuarios, i \in Pedibles : MenuPrincipal(p, u, i)
      PROVE  BDQuieta /\ perdidas' = perdidas /\ pc'[Servidor] = pc[Servidor]
  BY <1>0, <1>2 DEF BDQuieta, Salir, MenuPrincipal, Empieza, ProcesoOK
<1>3. CASE PasaDia \/ UNCHANGED vars
  BY <1>3 DEF BDQuieta, PasaDia, vars
<1> QED
  BY <1>1, <1>2, <1>3

LEMMA InterrupcionBD ==
  ASSUME TypeOK, OrdenOK, NEW p \in Procesos, Fallo(p) \/ FalloAlAbrir(p) \/ Caida(p)
  PROVE  /\ BDQuieta
         /\ p = Servidor => pc'[Servidor] = "esperando"
         /\ p # Servidor => /\ pc'[Servidor] = pc[Servidor]
                            /\ orden'[Servidor] = orden[Servidor]
                            /\ perdidas' = perdidas
<1> USE ConstantesOK DEF bd
<1>0. ProcesoOK /\ Servidor \in Procesos /\ Procesos = {Servidor} \cup Consolas
  BY DEF TypeOK, ProcesoOK, Procesos
<1>1. Interrumpe(p)
  BY MarcoFallo
<1>2. UNCHANGED <<librosBD, prestamosBD, siguienteID, fondo>>
  BY <1>1 DEF Interrumpe
<1>3. CASE p = Servidor
  <2>1. pc'[Servidor] = "esperando"
    BY <1>3, MarcoFallo
  <2> QED
    BY <1>2, <1>3, <2>1 DEF BDQuieta, PasosBD
<1>4. CASE p # Servidor
  <2>1. pc'[Servidor] = pc[Servidor] /\ orden'[Servidor] = orden[Servidor]
    BY <1>0, <1>4, MarcoFallo DEF OtrosQuietos
  <2>2. pc[p] \notin PasosBD
    BY <1>0, <1>4 DEF OrdenOK
  <2>3. perdidas' = perdidas
    BY <1>1, <2>2 DEF Interrumpe, PasosBD
  <2> QED
    BY <1>2, <1>4, <2>1, <2>3 DEF BDQuieta
<1> QED
  BY <1>3, <1>4

LEMMA FilasPaso ==
  ASSUME TypeOK, OrdenOK, FilasOK, [Next]_vars
  PROVE  FilasOK'
<1> USE ConstantesOK
<1>1. CASE PasoServidor
  BY <1>1, FilasServidor
<1>2. CASE BDQuieta
  BY <1>2, FilasIguales DEF BDQuieta, PasosBD
<1>3. ASSUME NEW p \in Consolas, PasoConsola(p)
      PROVE  FilasOK'
  <2>1. p \in Procesos /\ p # Servidor
    BY DEF Procesos
  <2>2. CASE Arrancar(p)
    BY <2>1, <2>2, FilasArrancar
  <2> QED
    BY <1>2, <1>3, <2>1, <2>2, FueraDeBD DEF PasoConsola
<1>4. ASSUME NEW p \in Procesos, PasoCSV(p) \/ Fallo(p) \/ FalloAlAbrir(p) \/ Caida(p)
      PROVE  FilasOK'
  BY <1>2, <1>4, FueraDeBD, InterrupcionBD
<1>5. CASE PasaDia \/ UNCHANGED vars
  <2>1. Servidor \in Procesos
    BY DEF Procesos
  <2> QED
    BY <1>2, <1>5, <2>1, FueraDeBD
<1> QED
  BY <1>1, <1>3, <1>4, <1>5 DEF Next

(***************************************************************************)
(* The table Prestamos is well formed in every reachable state.            *)
(***************************************************************************)
THEOREM FilasBienFormadas == Spec => [](TypeOK /\ OrdenOK /\ FilasOK)
<1>1. Init => FilasOK
  BY FS_EmptySet, ConstantesOK DEF Init, FilasOK, Procesos
<1>2. TypeOK /\ OrdenOK /\ FilasOK /\ [Next]_vars => FilasOK'
  BY FilasPaso
<1> QED
  BY <1>1, <1>2, Tipos, PTL DEF Spec

-----------------------------------------------------------------------------
(* The database implements the inventory *)

LEMMA CuentasEnteras ==
  ASSUME TypeOK, FilasOK, NEW i \in ISBNs
  PROVE  /\ EnLaBD(i) \in Int
         /\ IsFiniteSet(Filas(i))
         /\ Cardinality(Filas(i)) \in Nat
         /\ \A paso : EnMano(paso, i) \in {0, 1}
         /\ Estante(i) \in Int
         /\ Prestados(i) \in Nat
<1>1. EnLaBD(i) \in Int
  BY TextoForma DEF TypeOK, EnLaBD
<1>2. IsFiniteSet(Filas(i))
  BY FS_Subset DEF FilasOK, Filas
<1>3. Cardinality(Filas(i)) \in Nat
  BY <1>2, FS_CardinalityType
<1>4. \A paso : EnMano(paso, i) \in {0, 1}
  BY DEF EnMano
<1> QED
  BY <1>1, <1>2, <1>3, <1>4 DEF Estante, Prestados

(***************************************************************************)
(* A step that leaves the shelf, the loans and the accounts alone.         *)
(***************************************************************************)
LEMMA Quieto ==
  ASSUME \A i \in ISBNs : Estante(i)' = Estante(i) /\ Prestados(i)' = Prestados(i),
         UNCHANGED <<perdidas, fondo>>
  PROVE  UNCHANGED I!inventario
BY DEF I!inventario

LEMMA QuietoSiBDQuieta ==
  ASSUME UNCHANGED <<librosBD, prestamosBD, perdidas, fondo>>,
         \/ pc'[Servidor] = pc[Servidor] /\ orden'[Servidor] = orden[Servidor]
         \/ /\ pc[Servidor] \notin {"pedir_prestamo", "devolver_sumar"}
            /\ pc'[Servidor] \notin {"pedir_prestamo", "devolver_sumar"}
  PROVE  UNCHANGED I!inventario
<1>1. ASSUME NEW i \in ISBNs, NEW paso \in {"pedir_prestamo", "devolver_sumar"}
      PROVE  EnMano(paso, i)' = EnMano(paso, i)
  BY <1>1 DEF EnMano
<1>2. ASSUME NEW i \in ISBNs
      PROVE  Estante(i)' = Estante(i) /\ Prestados(i)' = Prestados(i)
  BY <1>1, <1>2 DEF Estante, Prestados, Filas, EnLaBD
<1> QED
  BY <1>2, Quieto

(***************************************************************************)
(* The four statements that move a copy, and the account they settle.      *)
(***************************************************************************)
LEMMA PasoPedirRestar ==
  ASSUME TypeOK, OrdenOK, FilasOK, PedirRestar
  PROVE  UNCHANGED I!inventario
<1> DEFINE b == orden[Servidor].isbn
<1>0. ProcesoOK /\ Servidor \in Procesos
  BY DEF TypeOK, ProcesoOK, Procesos
<1>1. b \in ISBNs
  BY <1>0, EnOperacion DEF PedirRestar, PasosBD
<1>2. pc[Servidor] = "pedir_restar" /\ pc'[Servidor] = "pedir_prestamo" /\ orden' = orden
  BY <1>0 DEF PedirRestar, Sigue, ProcesoOK
<1>3. ASSUME NEW i \in ISBNs
      PROVE  Estante(i)' = Estante(i) /\ Prestados(i)' = Prestados(i)
  <2>1. EnLaBD(i)' = IF i = b THEN EnLaBD(i) - 1 ELSE EnLaBD(i)
    <3>1. librosBD' = [librosBD EXCEPT ![b] = RestarSQL(librosBD[b])] /\ b \in DOMAIN librosBD
      BY <1>2 DEF PedirRestar, FilasOK
    <3>2. DOMAIN librosBD' = DOMAIN librosBD
      BY <3>1
    <3>3. \A j \in DOMAIN librosBD :
            librosBD'[j] = IF j = b THEN RestarSQL(librosBD[b]) ELSE librosBD[j]
      BY <3>1, TextoForma DEF TypeOK
    <3>4. RestarSQL(librosBD[b]).copias = librosBD[b].copias - 1
      BY DEF RestarSQL
    <3> QED
      BY <3>1, <3>2, <3>3, <3>4 DEF EnLaBD
  <2>2. /\ EnMano("pedir_prestamo", i) = 0
        /\ EnMano("pedir_prestamo", i)' = IF i = b THEN 1 ELSE 0
        /\ EnMano("devolver_sumar", i) = 0
        /\ EnMano("devolver_sumar", i)' = 0
    BY <1>2 DEF EnMano
  <2>3. Filas(i)' = Filas(i)
    BY DEF PedirRestar, Filas
  <2> QED
    BY <2>1, <2>2, <2>3, CuentasEnteras DEF Estante, Prestados
<1>4. UNCHANGED <<perdidas, fondo>>
  BY DEF PedirRestar, historia
<1> QED
  BY <1>3, <1>4, Quieto

LEMMA PasoPedirPrestamo ==
  ASSUME TypeOK, OrdenOK, FilasOK, PedirPrestamo
  PROVE  \E i \in ISBNs : I!Prestar(i)
<1> DEFINE b == orden[Servidor].isbn
           fila == [id |-> siguienteID, usuario |-> orden[Servidor].usuario, isbn |-> b]
<1>0. ProcesoOK /\ Servidor \in Procesos
  BY DEF TypeOK, ProcesoOK, Procesos
<1>1. b \in ISBNs
  BY <1>0, EnOperacion DEF PedirPrestamo, PasosBD
<1>2. pc[Servidor] = "pedir_prestamo" /\ pc'[Servidor] = "pedir_historial" /\ orden' = orden
  BY <1>0 DEF PedirPrestamo, Sigue, ProcesoOK
<1>3. prestamosBD' = prestamosBD \cup {fila} /\ UNCHANGED librosBD
  BY DEF PedirPrestamo
<1>4. fila \notin prestamosBD
  <2>1. \A r \in prestamosBD : r.id \in Nat /\ r.id < siguienteID
    BY DEF FilasOK, TypeOK, FilaPrestamo
  <2>2. fila.id = siguienteID /\ siguienteID \in Nat
    BY DEF TypeOK
  <2> QED
    BY <2>1, <2>2
<1>5. ASSUME NEW i \in ISBNs
      PROVE  /\ Estante(i)' = IF i = b THEN Estante(i) - 1 ELSE Estante(i)
             /\ Prestados(i)' = IF i = b THEN Prestados(i) + 1 ELSE Prestados(i)
  <2>1. /\ EnMano("pedir_prestamo", i) = IF i = b THEN 1 ELSE 0
        /\ EnMano("pedir_prestamo", i)' = 0
        /\ EnMano("devolver_sumar", i) = 0
        /\ EnMano("devolver_sumar", i)' = 0
    BY <1>2 DEF EnMano
  <2>2. Cardinality(Filas(i))' =
          IF i = b THEN Cardinality(Filas(i)) + 1 ELSE Cardinality(Filas(i))
    <3>1. CASE i = b
      <4>1. Filas(i)' = Filas(i) \cup {fila} /\ fila \notin Filas(i)
        BY <1>3, <1>4, <3>1 DEF Filas
      <4> QED
        BY <3>1, <4>1, CuentasEnteras, FS_AddElement
    <3>2. CASE i # b
      <4>1. Filas(i)' = Filas(i)
        BY <1>3, <3>2 DEF Filas
      <4> QED
        BY <3>2, <4>1
    <3> QED
      BY <3>1, <3>2
  <2> QED
    BY <1>3, <2>1, <2>2, CuentasEnteras DEF Estante, Prestados, EnLaBD
<1>6. UNCHANGED <<perdidas, fondo>>
  BY DEF PedirPrestamo, historia
<1>7. I!Prestar(b)
  BY <1>1, <1>5, <1>6 DEF I!Prestar
<1> QED
  BY <1>1, <1>7

LEMMA PasoDevolverBorrar ==
  ASSUME TypeOK, OrdenOK, FilasOK, DevolverBorrar
  PROVE  UNCHANGED I!inventario
<1> DEFINE b == orden[Servidor].isbn
<1>0. ProcesoOK /\ Servidor \in Procesos
  BY DEF TypeOK, ProcesoOK, Procesos
<1>2. pc[Servidor] = "devolver_borrar" /\ pc'[Servidor] = "devolver_sumar" /\ orden' = orden
  BY <1>0 DEF DevolverBorrar, Sigue, ProcesoOK
<1>3. PICK fila \in prestamosBD : fila.id = orden[Servidor].fila /\ fila.isbn = b
  BY <1>2 DEF FilasOK, De
<1>4. prestamosBD' = prestamosBD \ {fila} /\ UNCHANGED librosBD
  BY <1>3 DEF DevolverBorrar, FilasOK
<1>5. ASSUME NEW i \in ISBNs
      PROVE  Estante(i)' = Estante(i) /\ Prestados(i)' = Prestados(i)
  <2>1. /\ EnMano("pedir_prestamo", i) = 0
        /\ EnMano("pedir_prestamo", i)' = 0
        /\ EnMano("devolver_sumar", i) = 0
        /\ EnMano("devolver_sumar", i)' = IF i = b THEN 1 ELSE 0
    BY <1>2 DEF EnMano
  <2>2. Cardinality(Filas(i))' =
          IF i = b THEN Cardinality(Filas(i)) - 1 ELSE Cardinality(Filas(i))
    <3>1. CASE i = b
      <4>1. Filas(i)' = Filas(i) \ {fila} /\ fila \in Filas(i)
        BY <1>3, <1>4, <3>1 DEF Filas
      <4> QED
        BY <3>1, <4>1, CuentasEnteras, FS_RemoveElement
    <3>2. CASE i # b
      <4>1. Filas(i)' = Filas(i)
        BY <1>3, <1>4, <3>2 DEF Filas
      <4> QED
        BY <3>2, <4>1
    <3> QED
      BY <3>1, <3>2
  <2> QED
    BY <1>4, <2>1, <2>2, CuentasEnteras DEF Estante, Prestados, EnLaBD
<1>6. UNCHANGED <<perdidas, fondo>>
  BY DEF DevolverBorrar, historia
<1> QED
  BY <1>5, <1>6, Quieto

LEMMA PasoDevolverSumar ==
  ASSUME TypeOK, OrdenOK, FilasOK, DevolverSumar
  PROVE  \E i \in ISBNs : I!Devolver(i) \/ I!PerderAlDevolver(i)
<1> DEFINE b == orden[Servidor].isbn
<1>0. ProcesoOK /\ Servidor \in Procesos
  BY DEF TypeOK, ProcesoOK, Procesos
<1>1. b \in ISBNs
  BY <1>0, EnOperacion DEF DevolverSumar, PasosBD
<1>2. pc[Servidor] = "devolver_sumar" /\ pc'[Servidor] = "devolver_historial" /\ orden' = orden
  BY <1>0 DEF DevolverSumar, Sigue, ProcesoOK
<1>3. ASSUME NEW i \in ISBNs
      PROVE  /\ Estante(i)' = IF i = b /\ b \in DOMAIN librosBD
                              THEN Estante(i) + 1 ELSE Estante(i)
             /\ Prestados(i)' = IF i = b THEN Prestados(i) - 1 ELSE Prestados(i)
             /\ i = b => Prestados(i) > 0
  <2>1. EnLaBD(i)' = IF i = b /\ b \in DOMAIN librosBD THEN EnLaBD(i) + 1 ELSE EnLaBD(i)
    <3>1. CASE b \in DOMAIN librosBD
      <4>1. librosBD' = [librosBD EXCEPT ![b] = SumarSQL(librosBD[b])]
        BY <3>1 DEF DevolverSumar
      <4>2. DOMAIN librosBD' = DOMAIN librosBD
        BY <4>1
      <4>3. \A j \in DOMAIN librosBD :
              librosBD'[j] = IF j = b THEN SumarSQL(librosBD[b]) ELSE librosBD[j]
        BY <4>1, TextoForma DEF TypeOK
      <4>4. SumarSQL(librosBD[b]).copias = librosBD[b].copias + 1
        BY DEF SumarSQL
      <4> QED
        BY <3>1, <4>2, <4>3, <4>4 DEF EnLaBD
    <3>2. CASE b \notin DOMAIN librosBD
      BY <3>2 DEF DevolverSumar, EnLaBD
    <3> QED
      BY <3>1, <3>2
  <2>2. /\ EnMano("pedir_prestamo", i) = 0
        /\ EnMano("pedir_prestamo", i)' = 0
        /\ EnMano("devolver_sumar", i) = IF i = b THEN 1 ELSE 0
        /\ EnMano("devolver_sumar", i)' = 0
    BY <1>2 DEF EnMano
  <2>3. Filas(i)' = Filas(i)
    BY DEF DevolverSumar, Filas
  <2> QED
    BY <2>1, <2>2, <2>3, CuentasEnteras DEF Estante, Prestados
<1>4. CASE b \in DOMAIN librosBD
  <2>1. UNCHANGED <<perdidas, fondo>>
    BY <1>4 DEF DevolverSumar
  <2>2. I!Devolver(b)
    BY <1>1, <1>3, <1>4, <2>1 DEF I!Devolver
  <2> QED
    BY <1>1, <2>2
<1>5. CASE b \notin DOMAIN librosBD
  <2>1. perdidas' = [perdidas EXCEPT ![b] = perdidas[b] + 1] /\ fondo' = fondo
    BY <1>5 DEF DevolverSumar
  <2>2. \A i \in ISBNs : Estante(i)' = Estante(i)
    BY <1>3, <1>5
  <2>3. I!PerderAlDevolver(b)
    BY <1>1, <1>3, <2>1, <2>2 DEF I!PerderAlDevolver
  <2> QED
    BY <1>1, <2>3
<1> QED
  BY <1>4, <1>5

LEMMA PasoInterrupcion ==
  ASSUME TypeOK, OrdenOK, FilasOK, NEW p \in Procesos, Fallo(p) \/ FalloAlAbrir(p) \/ Caida(p)
  PROVE  \/ UNCHANGED I!inventario
         \/ \E i \in ISBNs : I!PerderAlPrestar(i) \/ I!PerderAlDevolver(i)
<1> DEFINE b == orden[Servidor].isbn
<1>0. UNCHANGED <<librosBD, prestamosBD, fondo>>
  BY InterrupcionBD DEF BDQuieta
<1>1. CASE p # Servidor
  BY <1>0, <1>1, InterrupcionBD, QuietoSiBDQuieta
<1>2. CASE p = Servidor /\ pc[Servidor] \in {"pedir_prestamo", "devolver_sumar"}
  <2>1. b \in ISBNs
    BY <1>2, EnOperacion DEF PasosBD
  <2>2. pc'[Servidor] = "esperando"
    BY <1>2, InterrupcionBD
  <2>3. perdidas' = [perdidas EXCEPT ![b] = @ + 1]
    BY <1>2 DEF Fallo, FalloAlAbrir, Caida, Interrumpe
  <2>4. ASSUME NEW i \in ISBNs
        PROVE  /\ Estante(i)' = IF i = b /\ pc[Servidor] = "pedir_prestamo"
                                THEN Estante(i) - 1 ELSE Estante(i)
               /\ Prestados(i)' = IF i = b /\ pc[Servidor] = "devolver_sumar"
                                  THEN Prestados(i) - 1 ELSE Prestados(i)
               /\ i = b /\ pc[Servidor] = "devolver_sumar" => Prestados(i) > 0
    <3>1. /\ EnMano("pedir_prestamo", i) =
               IF i = b /\ pc[Servidor] = "pedir_prestamo" THEN 1 ELSE 0
          /\ EnMano("devolver_sumar", i) =
               IF i = b /\ pc[Servidor] = "devolver_sumar" THEN 1 ELSE 0
      BY DEF EnMano
    <3>2. EnMano("pedir_prestamo", i)' = 0 /\ EnMano("devolver_sumar", i)' = 0
      BY <2>2 DEF EnMano
    <3>3. Filas(i)' = Filas(i)
      BY <1>0 DEF Filas
    <3> QED
      BY <1>0, <3>1, <3>2, <3>3, CuentasEnteras DEF Estante, Prestados, EnLaBD
  <2>5. CASE pc[Servidor] = "pedir_prestamo"
    <3>1. I!PerderAlPrestar(b)
      BY <1>0, <2>1, <2>3, <2>4, <2>5 DEF I!PerderAlPrestar
    <3> QED
      BY <2>1, <3>1
  <2>6. CASE pc[Servidor] = "devolver_sumar"
    <3>1. I!PerderAlDevolver(b)
      BY <1>0, <2>1, <2>3, <2>4, <2>6 DEF I!PerderAlDevolver
    <3> QED
      BY <2>1, <3>1
  <2> QED
    BY <1>2, <2>5, <2>6
<1>3. CASE p = Servidor /\ pc[Servidor] \notin {"pedir_prestamo", "devolver_sumar"}
  <2>1. perdidas' = perdidas
    BY <1>3 DEF Fallo, FalloAlAbrir, Caida, Interrumpe
  <2>2. pc'[Servidor] = "esperando"
    BY <1>3, InterrupcionBD
  <2> QED
    BY <1>0, <1>3, <2>1, <2>2, QuietoSiBDQuieta
<1> QED
  BY <1>1, <1>2, <1>3

LEMMA PasoArrancar ==
  ASSUME TypeOK, FilasOK', TypeOK', NEW p \in Procesos, p # Servidor, Arrancar(p)
  PROVE  I!Recontar
<1>1. pc'[Servidor] = pc[Servidor] /\ pc[Servidor] \notin PasosBD
  BY DEF Arrancar, TypeOK, EnCurso, PasosBD
<1>2. ASSUME NEW i \in ISBNs
      PROVE  /\ Estante(i)' \in Int
             /\ Prestados(i)' \in Nat
             /\ fondo'[i] = Estante(i)' + Prestados(i)'
  <2>1. EnMano("pedir_prestamo", i)' = 0 /\ EnMano("devolver_sumar", i)' = 0
    BY <1>1 DEF EnMano, PasosBD
  <2>2. Cardinality(Filas(i)') \in Nat
    BY FS_Subset, FS_CardinalityType DEF FilasOK, Filas
  <2>3. EnLaBD(i)' \in Int
    <3>1. EsTexto(librosBD')
      BY DEF TypeOK
    <3> QED
      BY <3>1, TextoForma DEF EnLaBD
  <2>4. fondo'[i] = EnLaBD(i)' + Cardinality(Filas(i)')
    BY DEF Arrancar
  <2> QED
    BY <2>1, <2>2, <2>3, <2>4 DEF Estante, Prestados
<1>3. fondo' \in [ISBNs -> Int] /\ perdidas' = [i \in ISBNs |-> 0]
  BY DEF TypeOK, Arrancar
<1> QED
  BY <1>2, <1>3 DEF I!Recontar, I!Cuenta

LEMMA PasoImplementa ==
  ASSUME TypeOK, OrdenOK, FilasOK, TypeOK', FilasOK', [Next]_vars
  PROVE  [I!Next]_(I!inventario)
<1> USE ConstantesOK
<1>0. ProcesoOK /\ Servidor \in Procesos
  BY DEF TypeOK, ProcesoOK, Procesos
<1>1. CASE PasoServidor
  <2>1. CASE PedirRestar \/ DevolverBorrar
    BY <2>1, PasoPedirRestar, PasoDevolverBorrar
  <2>2. CASE PedirPrestamo \/ DevolverSumar
    BY <2>2, PasoPedirPrestamo, PasoDevolverSumar DEF I!Next
  <2>3. CASE \/ \E u \in Usuarios, i \in Pedibles : PedirRemoto(u, i) \/ DevolverRemoto(u, i)
             \/ PedirHistorial \/ DevolverHistorial
    <3>1. /\ pc[Servidor] \notin {"pedir_prestamo", "devolver_sumar"}
          /\ pc'[Servidor] \notin {"pedir_prestamo", "devolver_sumar"}
      BY <1>0, <2>3 DEF PedirRemoto, DevolverRemoto, PedirHistorial, DevolverHistorial,
                        Empieza, Sigue, Termina, ProcesoOK
    <3>2. UNCHANGED <<librosBD, prestamosBD, perdidas, fondo>>
      BY <2>3 DEF PedirRemoto, DevolverRemoto, PedirHistorial, DevolverHistorial, bd, historia
    <3> QED
      BY <3>1, <3>2, QuietoSiBDQuieta
  <2> QED
    BY <1>1, <2>1, <2>2, <2>3 DEF PasoServidor
<1>2. ASSUME NEW p \in Procesos, Fallo(p) \/ FalloAlAbrir(p) \/ Caida(p)
      PROVE  [I!Next]_(I!inventario)
  BY <1>2, PasoInterrupcion DEF I!Next
<1>3. ASSUME NEW p \in Consolas, Arrancar(p)
      PROVE  [I!Next]_(I!inventario)
  <2>1. p \in Procesos /\ p # Servidor
    BY DEF Procesos
  <2> QED
    BY <1>3, <2>1, PasoArrancar DEF I!Next
<1>4. ASSUME NEW p \in Procesos,
             \/ PasoCSV(p)
             \/ p \in Consolas /\ Salir(p)
             \/ p \in Consolas /\ \E u \in Usuarios, i \in Pedibles : MenuPrincipal(p, u, i)
             \/ PasaDia
             \/ UNCHANGED vars
      PROVE  UNCHANGED I!inventario
  <2>1. /\ BDQuieta
        /\ perdidas' = perdidas
        /\ pc'[Servidor] \notin PasosBD => pc[Servidor] \notin PasosBD
    BY <1>4, FueraDeBD
  <2> QED
    BY <2>1, QuietoSiBDQuieta DEF BDQuieta, PasosBD
<1>5. Consolas \subseteq Procesos
  BY DEF Procesos
<1> QED
  BY <1>0, <1>1, <1>2, <1>3, <1>4, <1>5 DEF Next, PasoConsola

(***************************************************************************)
(* The database, seen through the mapping, is an inventory.                *)
(***************************************************************************)
THEOREM Implementa == Spec => ImplementaInventario
<1>1. Init => I!Init
  <2> SUFFICES ASSUME Init PROVE I!Init
    OBVIOUS
  <2>1. ASSUME NEW i \in ISBNs
        PROVE  Estante(i) = CopiasIniciales[i] /\ Prestados(i) = 0
    <3>1. EnMano("pedir_prestamo", i) = 0 /\ EnMano("devolver_sumar", i) = 0
      BY DEF Init, EnMano, Procesos
    <3>2. Filas(i) = {}
      BY DEF Init, Filas
    <3>3. EnLaBD(i) = CopiasIniciales[i] /\ CopiasIniciales[i] \in Int
      BY ConstantesOK DEF Init, LibroInicial, EnLaBD
    <3> QED
      BY <3>1, <3>2, <3>3, FS_EmptySet DEF Estante, Prestados
  <2> QED
    BY <2>1, ConstantesOK DEF Init, I!Init
<1>2. /\ TypeOK /\ OrdenOK /\ FilasOK
      /\ (TypeOK /\ OrdenOK /\ FilasOK)'
      /\ [Next]_vars
      => [I!Next]_(I!inventario)
  BY PasoImplementa
<1> QED
  BY <1>1, <1>2, FilasBienFormadas, PTL DEF Spec, I!Spec, ImplementaInventario

(***************************************************************************)
(* No copy appears or vanishes in the database: conservation is inherited  *)
(* from the inventory.                                                     *)
(***************************************************************************)
THEOREM ConservaLaBD == Spec => []ConservacionBD
<1>1. I!Conservacion => ConservacionBD
  BY DEF I!Conservacion, ConservacionBD
<1> QED
  BY <1>1, Implementa, I!Conserva, PTL DEF ImplementaInventario

-----------------------------------------------------------------------------
(* A process that rewrites a file alone *)

(***************************************************************************)
(* The text of libros.csv with the book of the operation changed, and that *)
(* of historial.csv with its loans closed on some day.                     *)
(***************************************************************************)
LibroCambiado(t, p) ==
  /\ orden[p].isbn \in DOMAIN librosCSV
  /\ \/ /\ pc[p] = "csv_pedir"
        /\ HayCopias(librosCSV[orden[p].isbn].copias)
        /\ t = [librosCSV EXCEPT ![orden[p].isbn] = RestarCSV(librosCSV[orden[p].isbn])]
     \/ /\ pc[p] = "csv_devolver"
        /\ t = [librosCSV EXCEPT ![orden[p].isbn] = SumarCSV(librosCSV[orden[p].isbn])]

Cerradas(r, u, i) ==
  IF SeCierra(r, u, i)
  THEN {[r EXCEPT !.estado = DEVUELTO], [r EXCEPT !.estado = ATRASADO]}
  ELSE {r}

EsCierre(t, u, i) ==
  /\ Len(t) = Len(historialCSV)
  /\ \A k \in DOMAIN historialCSV : t[k] \in Cerradas(historialCSV[k], u, i)

(***************************************************************************)
(* Where a file and its temporary one are while p, alone, rewrites it.  A  *)
(* return gives its copy up only for a book that is not there.             *)
(***************************************************************************)
EnRegla(p) ==
  /\ Fichero(p) \in existe <=> tramo[p] # "renombrar"
  /\ tramo[p] # "quitar" => Fichero(p) \in existeTemp
  /\ tramo[p] = "cerrar" /\ Fichero(p) = "libros" =>
       tempLibros = SinLibros /\ LibroCambiado(copiaLibros[p], p)
  /\ tramo[p] = "cerrar" /\ Fichero(p) = "historial" =>
       tempHistorial = << >> /\ EsCierre(copiaHistorial[p], orden[p].usuario, orden[p].isbn)
  /\ tramo[p] \in {"borrar", "renombrar"} /\ Fichero(p) = "libros" =>
       LibroCambiado(tempLibros, p)
  /\ tramo[p] \in {"borrar", "renombrar"} /\ Fichero(p) = "historial" =>
       EsCierre(tempHistorial, orden[p].usuario, orden[p].isbn)
  /\ tramo[p] \in {"descartar", "quitar"} /\ pc[p] = "csv_devolver" =>
       orden[p].isbn \notin DOMAIN librosCSV

SinReescribir(f) == \A p \in Procesos : ~ Reescribe(p, f)

Ordenado(f) ==
  f \notin alterados =>
    /\ \A p, q \in Procesos : Reescribe(p, f) /\ Reescribe(q, f) => p = q
    /\ SinReescribir(f) => f \in existe
    /\ \A p \in Procesos : Reescribe(p, f) => EnRegla(p)

Ordenados == \A f \in Archivos : Ordenado(f)

(***************************************************************************)
(* Nobody is left rewriting f, and it is there.                            *)
(***************************************************************************)
LEMMA OrdenadoLibre ==
  ASSUME NEW f, SinReescribir(f)', f \in existe'
  PROVE  Ordenado(f)'
BY DEF Ordenado, SinReescribir

(***************************************************************************)
(* A step that does not touch what the one that rewrites f relies on.      *)
(***************************************************************************)
Igual(p) ==
  /\ pc'[p] = pc[p]
  /\ tramo'[p] = tramo[p]
  /\ orden'[p] = orden[p]

Intacto(f) ==
  /\ f \in alterados => f \in alterados'
  /\ f \in existe' <=> f \in existe
  /\ \A p \in Procesos :
       \/ Igual(p) /\ copiaLibros'[p] = copiaLibros[p] /\ copiaHistorial'[p] = copiaHistorial[p]
       \/ ~ Reescribe(p, f) /\ ~ Reescribe(p, f)'
  /\ \/ SinReescribir(f)
     \/ f = "libros" /\ UNCHANGED <<librosCSV, tempLibros>>
     \/ f = "historial" /\ UNCHANGED <<historialCSV, tempHistorial>>
  /\ SinReescribir(f) \/ (f \in existeTemp' <=> f \in existeTemp)

LEMMA OrdenadoIntacto ==
  ASSUME NEW f \in Archivos, Ordenado(f), Intacto(f) \/ f \in alterados'
  PROVE  Ordenado(f)'
<1> SUFFICES ASSUME f \notin alterados', Intacto(f)
             PROVE  Ordenado(f)'
  BY DEF Ordenado
<1>1. \A p \in Procesos : Reescribe(p, f)' <=> Reescribe(p, f)
  BY DEF Intacto, Igual, Reescribe, Fichero
<1>2. f \notin alterados
  BY DEF Intacto
<1>3. ASSUME NEW p \in Procesos, Reescribe(p, f)
      PROVE  EnRegla(p)'
  <2>1. EnRegla(p) /\ Fichero(p) = f
    BY <1>2, <1>3 DEF Ordenado, Reescribe
  <2>2. Igual(p) /\ copiaLibros'[p] = copiaLibros[p] /\ copiaHistorial'[p] = copiaHistorial[p]
    BY <1>3 DEF Intacto
  <2>3. Fichero(p)' = Fichero(p)
    BY <2>2 DEF Fichero, Igual
  <2>4. ~ SinReescribir(f)
    BY <1>3 DEF SinReescribir
  <2>5. (f \in existe' <=> f \in existe) /\ (f \in existeTemp' <=> f \in existeTemp)
    BY <2>4 DEF Intacto
  <2>6. CASE f = "libros"
    <3>1. UNCHANGED <<librosCSV, tempLibros>>
      BY <2>4, <2>6 DEF Intacto
    <3> QED
      BY <2>1, <2>2, <2>3, <2>5, <2>6, <3>1 DEF EnRegla, Igual, LibroCambiado
  <2>7. CASE f = "historial"
    <3>1. UNCHANGED <<historialCSV, tempHistorial>>
      BY <2>4, <2>7 DEF Intacto
    <3> QED
      BY <2>1, <2>2, <2>3, <2>5, <2>7, <3>1 DEF EnRegla, Igual, EsCierre, Fichero
  <2> QED
    BY <2>6, <2>7 DEF Archivos
<1>4. SinReescribir(f)' => f \in existe'
  BY <1>1, <1>2 DEF SinReescribir, Ordenado, Intacto
<1> QED
  BY <1>1, <1>2, <1>3, <1>4 DEF Ordenado

LEMMA IntactoAjeno ==
  ASSUME NEW p \in Procesos, NEW f \in Archivos, OtrosQuietos(p),
         ~ Reescribe(p, f), ~ Reescribe(p, f)',
         \A q \in Procesos \ {p} : /\ copiaLibros'[q] = copiaLibros[q]
                                   /\ copiaHistorial'[q] = copiaHistorial[q],
         f = "libros" => UNCHANGED <<librosCSV, tempLibros>>,
         f = "historial" => UNCHANGED <<historialCSV, tempHistorial>> \/ SinReescribir(f),
         f \in existe' <=> f \in existe,
         f \in existeTemp' <=> f \in existeTemp,
         f \in alterados => f \in alterados'
  PROVE  Intacto(f)
BY DEF Intacto, Igual, OtrosQuietos, Archivos

LEMMA AjenasSiguen ==
  ASSUME NEW p \in Procesos, OtrosQuietos(p), NEW f
  PROVE  \A q \in Procesos \ {p} : Reescribe(q, f)' <=> Reescribe(q, f)
BY DEF OtrosQuietos, Reescribe, Fichero

LEMMA SoloElla ==
  ASSUME NEW f, Ordenado(f), f \notin alterados, NEW p \in Procesos, Reescribe(p, f)
  PROVE  /\ EnRegla(p) /\ Fichero(p) = f
         /\ \A q \in Procesos \ {p} : ~ Reescribe(q, f)
         /\ Libre(f, p)
BY DEF Ordenado, Reescribe, Libre, Abierto, Tramos

LEMMA CopiasAjenas ==
  ASSUME TypeOK, NEW p \in Procesos,
         \/ UNCHANGED copiaLibros
         \/ \E t : copiaLibros' = [copiaLibros EXCEPT ![p] = t],
         \/ UNCHANGED copiaHistorial
         \/ \E t : copiaHistorial' = [copiaHistorial EXCEPT ![p] = t]
  PROVE  \A q \in Procesos \ {p} : /\ copiaLibros'[q] = copiaLibros[q]
                                   /\ copiaHistorial'[q] = copiaHistorial[q]
BY DEF TypeOK

(***************************************************************************)
(* The commands of the server, the menus of a console and the days.        *)
(***************************************************************************)
LEMMA OrdenadosFuera ==
  ASSUME TypeOK, OrdenOK, Ordenados,
         \/ PasoServidor
         \/ \E p \in Consolas : Salir(p)
         \/ \E p \in Consolas, u \in Usuarios, i \in Pedibles : MenuPrincipal(p, u, i)
         \/ PasaDia
         \/ UNCHANGED vars
  PROVE  Ordenados'
<1> USE DEF csv, copias, historia, proceso
<1>0. ProcesoOK /\ Servidor \in Procesos /\ Consolas \subseteq Procesos
  BY DEF TypeOK, ProcesoOK, Procesos
<1>1. UNCHANGED <<csv, alterados>>
  BY DEF PasoServidor, PedirRemoto, PedirRestar, PedirPrestamo, PedirHistorial,
         DevolverRemoto, DevolverBorrar, DevolverSumar, DevolverHistorial,
         Salir, MenuPrincipal, PasaDia, vars
<1>2. ASSUME NEW f \in Archivos, NEW p \in Procesos, OtrosQuietos(p),
             tramo[p] = "abrir", tramo'[p] = "abrir"
      PROVE  Intacto(f)
  <2>1. ~ Reescribe(p, f) /\ ~ Reescribe(p, f)'
    BY <1>2 DEF Reescribe
  <2> QED
    BY <1>1, <1>2, <2>1, IntactoAjeno
<1>3. ASSUME NEW f \in Archivos
      PROVE  Intacto(f)
  <2>1. CASE PasoServidor
    <3>1. pc[Servidor] \in PasosBD \cup {"esperando"}
      BY <2>1 DEF PasoServidor, PedirRemoto, PedirRestar, PedirPrestamo, PedirHistorial,
                  DevolverRemoto, DevolverBorrar, DevolverSumar, DevolverHistorial, PasosBD
    <3>2. tramo[Servidor] = "abrir"
      BY <1>0, <3>1 DEF OrdenOK, Reescrituras, PasosBD
    <3>3. \/ \E paso : Sigue(Servidor, paso)
          \/ \E paso, r : Termina(Servidor, paso, r)
          \/ \E paso, u, i, k : Empieza(Servidor, paso, u, i, k)
      BY <2>1 DEF PasoServidor, PedirRemoto, PedirRestar, PedirPrestamo, PedirHistorial,
                  DevolverRemoto, DevolverBorrar, DevolverSumar, DevolverHistorial
    <3>4. OtrosQuietos(Servidor)
      BY <1>0, <3>3, OtrosAlSeguir
    <3>5. tramo'[Servidor] = "abrir"
      BY <1>0, <3>3 DEF Sigue, Termina, Empieza, ProcesoOK
    <3> QED
      BY <1>0, <1>2, <3>2, <3>4, <3>5
  <2>2. ASSUME NEW p \in Consolas, Salir(p)
        PROVE  Intacto(f)
    <3>1. tramo[p] = "abrir" /\ tramo'[p] = "abrir"
      BY <1>0, <2>2 DEF Salir, OrdenOK, Reescrituras
    <3>2. OtrosQuietos(p)
      BY <1>0, <2>2 DEF Salir, OtrosQuietos, ProcesoOK
    <3> QED
      BY <1>0, <1>2, <3>1, <3>2
  <2>3. ASSUME NEW p \in Consolas, NEW u \in Usuarios, NEW i \in Pedibles, MenuPrincipal(p, u, i)
        PROVE  Intacto(f)
    <3>1. \E paso, uu, ii, k : Empieza(p, paso, uu, ii, k)
      BY <2>3 DEF MenuPrincipal
    <3>2. tramo[p] = "abrir" /\ tramo'[p] = "abrir"
      BY <1>0, <2>3, <3>1 DEF MenuPrincipal, OrdenOK, Reescrituras, Empieza, ProcesoOK
    <3>3. OtrosQuietos(p)
      BY <1>0, <3>1, OtrosAlSeguir
    <3> QED
      BY <1>0, <1>2, <3>2, <3>3
  <2>4. CASE PasaDia \/ UNCHANGED vars
    <3>1. UNCHANGED <<pc, tramo, orden, csv, alterados>>
      BY <2>4 DEF PasaDia, vars
    <3> QED
      BY <3>1 DEF Intacto, Igual, Archivos
  <2> QED
    BY <2>1, <2>2, <2>3, <2>4
<1> QED
  BY <1>3, OrdenadoIntacto DEF Ordenados

LEMMA OrdenadosArrancar ==
  ASSUME TypeOK, OrdenOK, NEW p \in Consolas, Arrancar(p)
  PROVE  Ordenados'
<1>1. ASSUME NEW q \in Procesos
      PROVE  tramo'[q] = "abrir"
  <2>1. ~ EnCurso(q)
    BY DEF Arrancar, EnCurso, PasosBD, PasosCSV, Procesos
  <2>2. tramo[q] = "abrir"
    BY <2>1 DEF OrdenOK, EnCurso, Reescrituras, PasosCSV
  <2> QED
    BY <2>2 DEF Arrancar
<1>2. ASSUME NEW f \in Archivos
      PROVE  Ordenado(f)'
  <2>1. SinReescribir(f)'
    BY <1>1 DEF SinReescribir, Reescribe
  <2>2. f \in alterados' \/ f \in existe'
    BY DEF Arrancar, csv
  <2> QED
    BY <2>1, <2>2 DEF Ordenado, SinReescribir
<1> QED
  BY <1>2 DEF Ordenados

(***************************************************************************)
(* Lines appended: the dates are noted, and historial.csv, if it is not    *)
(* being rewritten, is there.                                              *)
(***************************************************************************)
LEMMA OrdenadosAnexo ==
  ASSUME TypeOK, OrdenOK, Ordenados, NEW p \in Procesos, CsvPrestamo(p) \/ CsvHistorial(p)
  PROVE  Ordenados'
<1> USE DEF copias, historia
<1>1. tramo[p] = "abrir" /\ tramo'[p] = "abrir"
  BY DEF OrdenOK, Reescrituras, CsvPrestamo, CsvHistorial, Termina, TypeOK
<1>2. OtrosQuietos(p)
  BY MarcoCSV DEF PasoCSV
<1>3. ASSUME NEW f \in Archivos
      PROVE  Intacto(f) \/ f \in alterados'
  <2>1. ~ Reescribe(p, f) /\ ~ Reescribe(p, f)'
    BY <1>1 DEF Reescribe
  <2>2. CASE CsvPrestamo(p)
    BY <1>2, <2>1, <2>2, IntactoAjeno DEF CsvPrestamo
  <2>3. CASE CsvHistorial(p) /\ f = "libros"
    BY <1>2, <2>1, <2>3, IntactoAjeno DEF CsvHistorial, Toca
  <2>4. CASE CsvHistorial(p) /\ f = "historial" /\ f \notin alterados'
    <3>1. f \notin alterados /\ SinReescribir(f)
      BY <2>1, <2>4 DEF CsvHistorial, Toca, SinReescribir
    <3>2. f \in existe
      BY <3>1 DEF Ordenados, Ordenado
    <3> QED
      BY <1>2, <2>1, <2>4, <3>1, <3>2, IntactoAjeno DEF CsvHistorial
  <2> QED
    BY <2>2, <2>3, <2>4 DEF Archivos
<1> QED
  BY <1>3, OrdenadoIntacto DEF Ordenados

(***************************************************************************)
(* A rewriting begins.                                                     *)
(***************************************************************************)
LEMMA OrdenadosApertura ==
  ASSUME TypeOK, OrdenOK, Ordenados, NEW p \in Procesos, NEW f \in Archivos,
         AbreAmbos(p, f), UNCHANGED <<librosCSV, historialCSV, existe, prestamosCSV, bd>>,
         tramo[p] = "abrir", pc[p] \in Reescrituras, Fichero(p) = f,
         OtrosQuietos(p),
         \/ \E t : copiaLibros' = [copiaLibros EXCEPT ![p] = t]
         \/ UNCHANGED copiaLibros,
         \/ \E t : copiaHistorial' = [copiaHistorial EXCEPT ![p] = t]
         \/ UNCHANGED copiaHistorial,
         \/ tramo'[p] = "abrir"
         \/ /\ tramo'[p] \in {"cerrar", "descartar"}
            /\ pc'[p] = pc[p] /\ orden'[p] = orden[p]
            /\ tramo'[p] = "cerrar" /\ f = "libros" => LibroCambiado(copiaLibros'[p], p)
            /\ tramo'[p] = "cerrar" /\ f = "historial" =>
                 EsCierre(copiaHistorial'[p], orden[p].usuario, orden[p].isbn)
            /\ tramo'[p] = "descartar" /\ pc[p] = "csv_devolver" =>
                 orden[p].isbn \notin DOMAIN librosCSV
  PROVE  Ordenados'
<1>0. \A q \in Procesos \ {p} : /\ copiaLibros'[q] = copiaLibros[q]
                                /\ copiaHistorial'[q] = copiaHistorial[q]
  BY CopiasAjenas
<1>1. ASSUME NEW g \in Archivos \ {f}
      PROVE  Ordenado(g)'
  <2>1. ~ Reescribe(p, g) /\ ~ Reescribe(p, g)'
    BY <1>1 DEF Reescribe, Fichero
  <2>2. Intacto(g)
    BY <1>0, <1>1, <2>1, IntactoAjeno DEF AbreAmbos, Vaciar, Toca, Archivos
  <2> QED
    BY <2>2, OrdenadoIntacto DEF Ordenados
<1>2. CASE f \in alterados'
  BY <1>1, <1>2 DEF Ordenados, Ordenado
<1>3. CASE f \notin alterados'
  <2>1. f \notin alterados /\ SinReescribir(f)
    BY <1>3 DEF AbreAmbos, Toca, Reescribe, SinReescribir
  <2>2. f \in existe
    BY <2>1 DEF Ordenados, Ordenado
  <2>3. \A q \in Procesos \ {p} : ~ Reescribe(q, f)'
    BY <2>1, AjenasSiguen DEF SinReescribir
  <2>4. CASE tramo'[p] = "abrir"
    <3>1. SinReescribir(f)'
      BY <2>3, <2>4 DEF SinReescribir, Reescribe
    <3>2. Ordenado(f)'
      BY <2>2, <3>1, OrdenadoLibre
    <3> QED
      BY <1>1, <3>2 DEF Ordenados
  <2>5. CASE /\ tramo'[p] \in {"cerrar", "descartar"}
             /\ pc'[p] = pc[p] /\ orden'[p] = orden[p]
    <3>1. Fichero(p)' = f
      BY <2>5 DEF Fichero
    <3>2. EnRegla(p)'
      BY <2>2, <2>5, <3>1
         DEF EnRegla, AbreAmbos, Vaciar, LibroCambiado, EsCierre, Archivos
    <3>3. Ordenado(f)'
      <4>1. Reescribe(p, f)'
        BY <2>5, <3>1 DEF Reescribe
      <4> QED
        BY <2>2, <2>3, <3>2, <4>1 DEF Ordenado, SinReescribir
    <3> QED
      BY <1>1, <3>3 DEF Ordenados
  <2> QED
    BY <2>4, <2>5
<1> QED
  BY <1>2, <1>3

LEMMA CierreDeLineas ==
  ASSUME TypeOK, NEW u, NEW i
  PROVE  EsCierre([k \in DOMAIN historialCSV |-> Cerrada(historialCSV[k], u, i)], u, i)
<1>1. DOMAIN historialCSV = 1 .. Len(historialCSV) /\ Len(historialCSV) \in Nat
  BY DEF TypeOK
<1> DEFINE t == [k \in DOMAIN historialCSV |-> Cerrada(historialCSV[k], u, i)]
<1>2. Len(t) = Len(historialCSV)
  BY <1>1
<1>3. \A k \in DOMAIN historialCSV : t[k] \in Cerradas(historialCSV[k], u, i)
  BY DEF Cerrada, Cerradas, Veredicto
<1> QED
  BY <1>2, <1>3 DEF EsCierre

SinElLibro(p) == pc[p] = "csv_devolver" => orden[p].isbn \notin DOMAIN librosCSV

LEMMA OrdenadosAbrir ==
  ASSUME TypeOK, OrdenOK, Ordenados, NEW p \in Procesos,
         CsvPedir(p) \/ CsvDevolver(p) \/ CsvCierre(p)
  PROVE  Ordenados'
<1> USE DEF copias
<1>0. ProcesoOK /\ CopiasOK
  BY DEF TypeOK, ProcesoOK, CopiasOK
<1>1. tramo[p] = "abrir" /\ pc[p] \in Reescrituras /\ OtrosQuietos(p)
  BY MarcoCSV DEF PasoCSV, CsvPedir, CsvDevolver, CsvCierre, Reescrituras
<1>2. UNCHANGED <<librosCSV, historialCSV, existe, prestamosCSV, bd>>
  BY DEF CsvPedir, CsvDevolver, CsvCierre
<1>3. ASSUME NEW r, Termina(p, Reposo(p), r)
      PROVE  tramo'[p] = "abrir"
  BY <1>0, <1>3 DEF Termina, ProcesoOK
<1>4. ASSUME NEW t, Avanza(p, t)
      PROVE  tramo'[p] = t /\ pc'[p] = pc[p] /\ orden'[p] = orden[p]
  BY <1>0, <1>4 DEF Avanza, ProcesoOK
<1>5. ASSUME NEW texto, NEW t, Copia(p, texto, t)
      PROVE  /\ copiaLibros' = [copiaLibros EXCEPT ![p] = texto]
             /\ copiaLibros'[p] = texto /\ UNCHANGED copiaHistorial
             /\ tramo'[p] = t /\ pc'[p] = pc[p] /\ orden'[p] = orden[p]
  BY <1>0, <1>4, <1>5 DEF Copia, CopiasOK
<1>6. ASSUME AbreAmbos(p, "libros"), Fichero(p) = "libros",
             \/ NoSeAbre(p, "libros")
             \/ \E texto : Copia(p, texto, "descartar") /\ SinElLibro(p)
             \/ \E texto : Copia(p, texto, "cerrar") /\ LibroCambiado(texto, p)
      PROVE  Ordenados'
  <2>0. "libros" \in Archivos
    BY DEF Archivos
  <2>1. CASE NoSeAbre(p, "libros")
    <3>1. tramo'[p] = "abrir" /\ UNCHANGED <<copiaLibros, copiaHistorial>>
      BY <1>3, <2>1 DEF NoSeAbre
    <3> QED
      BY <1>1, <1>2, <1>6, <2>0, <3>1, OrdenadosApertura
  <2>2. ASSUME NEW texto, NEW t \in {"cerrar", "descartar"}, Copia(p, texto, t),
               t = "cerrar" => LibroCambiado(texto, p),
               t = "descartar" => SinElLibro(p)
        PROVE  Ordenados'
    <3>1. /\ copiaLibros' = [copiaLibros EXCEPT ![p] = texto]
          /\ copiaLibros'[p] = texto /\ UNCHANGED copiaHistorial
          /\ tramo'[p] = t /\ pc'[p] = pc[p] /\ orden'[p] = orden[p]
      BY <1>5, <2>2
    <3>2. tramo'[p] = "cerrar" => LibroCambiado(copiaLibros'[p], p)
      BY <2>2, <3>1
    <3> QED
      BY <1>1, <1>2, <1>6, <2>0, <2>2, <3>1, <3>2, OrdenadosApertura DEF SinElLibro
  <2> QED
    BY <1>6, <2>1, <2>2
<1>7. CASE CsvPedir(p)
  <2>1. Fichero(p) = "libros"
    BY <1>7 DEF CsvPedir, Fichero
  <2>2. CASE Termina(p, Reposo(p), "error") /\ UNCHANGED <<copias, alterados>>
    <3>1. tramo'[p] = "abrir"
      BY <1>3, <2>2
    <3>2. ASSUME NEW f \in Archivos
          PROVE  Intacto(f)
      <4>1. ~ Reescribe(p, f) /\ ~ Reescribe(p, f)'
        BY <1>1, <3>1 DEF Reescribe
      <4> QED
        BY <1>1, <1>2, <2>2, <4>1, IntactoAjeno
    <3> QED
      BY <3>2, OrdenadoIntacto DEF Ordenados
  <2>3. ASSUME orden[p].isbn \in DOMAIN librosCSV, HayCopias(librosCSV[orden[p].isbn].copias)
        PROVE  LibroCambiado([librosCSV EXCEPT ![orden[p].isbn] =
                                RestarCSV(librosCSV[orden[p].isbn])], p)
    BY <1>7, <2>3 DEF CsvPedir, LibroCambiado
  <2>4. ASSUME AbreAmbos(p, "libros"),
               \/ NoSeAbre(p, "libros")
               \/ \E texto : Copia(p, texto, "descartar")
               \/ /\ orden[p].isbn \in DOMAIN librosCSV
                  /\ HayCopias(librosCSV[orden[p].isbn].copias)
                  /\ Copia(p, [librosCSV EXCEPT ![orden[p].isbn] =
                                 RestarCSV(librosCSV[orden[p].isbn])], "cerrar")
        PROVE  Ordenados'
    BY <1>6, <1>7, <2>1, <2>3, <2>4 DEF SinElLibro, CsvPedir
  <2> QED
    BY <1>7, <2>2, <2>4 DEF CsvPedir
<1>8. CASE CsvDevolver(p)
  <2>1. Fichero(p) = "libros"
    BY <1>8 DEF CsvDevolver, Fichero
  <2>2. orden[p].isbn \in DOMAIN librosCSV =>
          LibroCambiado([librosCSV EXCEPT ![orden[p].isbn] =
                           SumarCSV(librosCSV[orden[p].isbn])], p)
    BY <1>8 DEF CsvDevolver, LibroCambiado
  <2>3. \/ NoSeAbre(p, "libros")
        \/ \E texto : Copia(p, texto, "descartar") /\ SinElLibro(p)
        \/ \E texto : Copia(p, texto, "cerrar") /\ LibroCambiado(texto, p)
    BY <1>8, <2>2 DEF CsvDevolver, SinElLibro
  <2> QED
    BY <1>6, <1>8, <2>1, <2>3 DEF CsvDevolver
<1>9. CASE CsvCierre(p)
  <2>1. Fichero(p) = "historial" /\ AbreAmbos(p, "historial") /\ "historial" \in Archivos
    BY <1>9 DEF CsvCierre, Fichero, Archivos
  <2>2. CASE NoSeAbre(p, "historial")
    <3>1. tramo'[p] = "abrir" /\ UNCHANGED <<copiaLibros, copiaHistorial>>
      BY <1>3, <2>2 DEF NoSeAbre
    <3> QED
      BY <1>1, <1>2, <2>1, <3>1, OrdenadosApertura
  <2>3. CASE /\ Avanza(p, "cerrar") /\ UNCHANGED copiaLibros
             /\ copiaHistorial' = [copiaHistorial EXCEPT ![p] =
                  [k \in DOMAIN historialCSV |->
                     Cerrada(historialCSV[k], orden[p].usuario, orden[p].isbn)]]
    <3>1. tramo'[p] = "cerrar" /\ pc'[p] = pc[p] /\ orden'[p] = orden[p]
      BY <1>4, <2>3
    <3>2. EsCierre(copiaHistorial'[p], orden[p].usuario, orden[p].isbn)
      BY <1>0, <2>3, CierreDeLineas DEF CopiasOK
    <3> QED
      BY <1>1, <1>2, <2>1, <2>3, <3>1, <3>2, OrdenadosApertura
  <2> QED
    BY <1>9, <2>2, <2>3 DEF CsvCierre
<1> QED
  BY <1>7, <1>8, <1>9

(***************************************************************************)
(* A rewriting goes on.  The other file is left alone.                     *)
(***************************************************************************)
LEMMA OtroArchivo ==
  ASSUME TypeOK, OrdenOK, Ordenados, NEW p \in Procesos,
         Cerrar(p) \/ Borrar(p) \/ Renombrar(p) \/ Quitar(p),
         NEW g \in Archivos, g # Fichero(p)
  PROVE  Ordenado(g)'
<1> USE DEF copias, historia
<1>0. OtrosQuietos(p) /\ ProcesoOK
  BY MarcoCSV DEF PasoCSV, TypeOK, ProcesoOK
<1>1. \A q \in Procesos \ {p} : /\ copiaLibros'[q] = copiaLibros[q]
                                /\ copiaHistorial'[q] = copiaHistorial[q]
  BY CopiasAjenas DEF Cerrar, Borrar, Renombrar, Quitar
<1>2. ~ Reescribe(p, g)
  BY DEF Reescribe
<1>3. ~ Reescribe(p, g)'
  <2>1. CASE tramo'[p] = "abrir"
    BY <2>1 DEF Reescribe
  <2>2. CASE \E t : Avanza(p, t)
    BY <2>2 DEF Avanza, Reescribe, Fichero
  <2> QED
    BY <1>0, <2>1, <2>2 DEF Cerrar, Borrar, Renombrar, Prosigue, Quitar, Sigue, Termina, ProcesoOK
<1>4. UNCHANGED alterados
  BY DEF Cerrar, Borrar, Renombrar, Quitar
<1>5. /\ g = "libros" => UNCHANGED <<librosCSV, tempLibros>>
      /\ g = "historial" => UNCHANGED <<historialCSV, tempHistorial>>
  <2>1. Quitar(p) => Fichero(p) = "libros"
    BY DEF OrdenOK, Quitar, Fichero
  <2> QED
    BY <2>1 DEF Cerrar, Borrar, Renombrar, Instala, Quitar
<1>6. (g \in existe' <=> g \in existe) /\ (g \in existeTemp' <=> g \in existeTemp)
  <2>1. Quitar(p) => Fichero(p) = "libros"
    BY DEF OrdenOK, Quitar, Fichero
  <2> QED
    BY <2>1 DEF Cerrar, Borrar, Renombrar, Instala, Quitar
<1>7. Intacto(g)
  BY <1>0, <1>1, <1>2, <1>3, <1>4, <1>5, <1>6, IntactoAjeno
<1> QED
  BY <1>7, OrdenadoIntacto DEF Ordenados

LEMMA SobreNada ==
  /\ \A t : EsTexto(t) => SobreLibros(t, SinLibros) = t
  /\ \A t \in Seq(FilaHistorial) : SobreLineas(t, << >>) = t
<1>1. ASSUME NEW t, EsTexto(t)
      PROVE  SobreLibros(t, SinLibros) = t
  <2>1. t = [i \in DOMAIN t |-> t[i]]
    BY <1>1, TextoForma
  <2>2. DOMAIN SinLibros = {}
    BY DEF SinLibros
  <2>3. SobreLibros(t, SinLibros) = [i \in DOMAIN t |-> t[i]]
    BY <2>2 DEF SobreLibros
  <2> QED
    BY <2>1, <2>3
<1>2. ASSUME NEW t \in Seq(FilaHistorial)
      PROVE  SobreLineas(t, << >>) = t
  <2>1. << >> \in Seq(FilaHistorial) /\ Len(<< >>) <= Len(t)
    OBVIOUS
  <2> QED
    BY <2>1, LineasSobre
<1> QED
  BY <1>1, <1>2

LEMMA OrdenadosCerrar ==
  ASSUME TypeOK, OrdenOK, Ordenados, NEW p \in Procesos, Cerrar(p)
  PROVE  Ordenados'
<1>f. PICK f \in Archivos : f = Fichero(p)
  BY DEF Fichero, Archivos
<1>0. ProcesoOK /\ CopiasOK /\ OtrosQuietos(p)
  BY <1>f, MarcoCSV DEF PasoCSV, TypeOK, ProcesoOK, CopiasOK
<1>1. UNCHANGED <<librosCSV, historialCSV, existe, existeTemp, alterados>>
  BY DEF Cerrar, historia
<1>2. /\ pc'[p] = pc[p] /\ orden'[p] = orden[p]
      /\ \/ tramo[p] = "cerrar" /\ tramo'[p] = "borrar"
         \/ tramo[p] = "descartar" /\ tramo'[p] = "quitar"
  BY <1>f, <1>0 DEF Cerrar, Avanza, ProcesoOK
<1>3. CASE f \in alterados
  BY <1>f, <1>0, <1>1, <1>3, OtroArchivo DEF Ordenados, Ordenado
<1>4. CASE f \notin alterados
  <2>1. Reescribe(p, f)
    BY <1>f, <1>2 DEF Reescribe
  <2>2. /\ EnRegla(p)
        /\ \A q \in Procesos \ {p} : ~ Reescribe(q, f)
    BY <1>f, <1>0, <1>4, <2>1, SoloElla DEF Ordenados
  <2>3. \A q \in Procesos \ {p} : ~ Reescribe(q, f)'
    BY <1>f, <1>0, <2>2, AjenasSiguen
  <2>4. Fichero(p)' = f /\ Reescribe(p, f)'
    BY <1>f, <1>2 DEF Fichero, Reescribe
  <2>5. EnRegla(p)'
    <3>1. CASE f = "libros" /\ tramo[p] = "cerrar"
      <4>1. tempLibros' = copiaLibros[p]
        BY <1>f, <1>0, <2>2, <3>1, SobreNada DEF Cerrar, EnRegla, CopiasOK
      <4> QED
        BY <1>f, <1>1, <1>2, <2>2, <2>4, <3>1, <4>1 DEF EnRegla, LibroCambiado
    <3>2. CASE f = "historial" /\ tramo[p] = "cerrar"
      <4>1. tempHistorial' = copiaHistorial[p]
        BY <1>f, <1>0, <2>2, <3>2, SobreNada DEF Cerrar, EnRegla, CopiasOK
      <4> QED
        BY <1>f, <1>1, <1>2, <2>2, <2>4, <3>2, <4>1 DEF EnRegla, EsCierre
    <3>3. CASE tramo[p] = "descartar"
      BY <1>f, <1>1, <1>2, <2>2, <2>4, <3>3 DEF EnRegla
    <3> QED
      BY <1>f, <1>0, <1>2, <3>1, <3>2, <3>3 DEF Archivos
  <2>6. Ordenado(f)'
    BY <1>f, <2>3, <2>4, <2>5 DEF Ordenado, SinReescribir
  <2> QED
    BY <1>f, <1>0, <2>6, OtroArchivo DEF Ordenados
<1> QED
  BY <1>f, <1>3, <1>4

(***************************************************************************)
(* A lone process always removes the old file and renames the new one.     *)
(***************************************************************************)
LEMMA SolaLoBorra ==
  ASSUME Ordenados, NEW p \in Procesos, Borrar(p), Fichero(p) \in Archivos \ alterados
  PROVE  /\ existe' = existe \ {Fichero(p)}
         /\ Avanza(p, "renombrar")
<1>1. Reescribe(p, Fichero(p))
  BY DEF Borrar, Reescribe
<1>2. EnRegla(p) /\ Libre(Fichero(p), p)
  BY <1>1, SoloElla DEF Ordenados
<1> QED
  BY <1>2 DEF Borrar, Borrable, EnRegla

LEMMA SolaLoInstala ==
  ASSUME Ordenados, NEW p \in Procesos, Renombrar(p), Fichero(p) \in Archivos \ alterados
  PROVE  /\ Instala(Fichero(p)) /\ Prosigue(p)
         /\ deriva' = IF pc[p] = "csv_pedir" /\ p # Servidor
                      THEN [deriva EXCEPT ![orden[p].isbn] = deriva[orden[p].isbn] + 1]
                      ELSE deriva
         /\ Fichero(p) = "libros" => LibroCambiado(librosCSV', p)
         /\ Fichero(p) = "historial" => EsCierre(historialCSV', orden[p].usuario, orden[p].isbn)
<1>1. Reescribe(p, Fichero(p)) /\ tramo[p] = "renombrar"
  BY DEF Renombrar, Reescribe
<1>2. EnRegla(p) /\ Libre(Fichero(p), p)
  BY <1>1, SoloElla DEF Ordenados
<1>3. Renombrable(p, Fichero(p))
  BY <1>1, <1>2 DEF EnRegla, Renombrable
<1>4. /\ Instala(Fichero(p)) /\ Prosigue(p)
      /\ deriva' = IF pc[p] = "csv_pedir" /\ p # Servidor
                   THEN [deriva EXCEPT ![orden[p].isbn] = deriva[orden[p].isbn] + 1]
                   ELSE deriva
  BY <1>3 DEF Renombrar
<1>5. /\ Fichero(p) = "libros" => librosCSV' = tempLibros
      /\ Fichero(p) = "historial" => historialCSV' = tempHistorial
  BY <1>4 DEF Instala
<1> QED
  BY <1>1, <1>2, <1>4, <1>5 DEF EnRegla

LEMMA OrdenadosSoltar ==
  ASSUME TypeOK, OrdenOK, Ordenados, NEW p \in Procesos, Borrar(p) \/ Renombrar(p) \/ Quitar(p)
  PROVE  Ordenados'
<1> USE DEF historia, copias
<1>f. PICK f \in Archivos : f = Fichero(p)
  BY DEF Fichero, Archivos
<1>0. ProcesoOK /\ OtrosQuietos(p)
  BY <1>f, MarcoCSV DEF PasoCSV, TypeOK, ProcesoOK
<1>1. UNCHANGED alterados
  BY DEF Borrar, Renombrar, Quitar
<1>2. CASE f \in alterados
  BY <1>f, <1>0, <1>1, <1>2, OtroArchivo DEF Ordenados, Ordenado
<1>3. CASE f \notin alterados
  <2>1. Reescribe(p, f)
    BY <1>f DEF Reescribe, Borrar, Renombrar, Quitar
  <2>2. /\ EnRegla(p)
        /\ \A q \in Procesos \ {p} : ~ Reescribe(q, f)
    BY <1>f, <1>0, <1>3, <2>1, SoloElla DEF Ordenados
  <2>3. \A q \in Procesos \ {p} : ~ Reescribe(q, f)'
    BY <1>f, <1>0, <2>2, AjenasSiguen
  <2>4. CASE Borrar(p)
    <3>1. existe' = existe \ {f} /\ Avanza(p, "renombrar")
      BY <1>f, <1>0, <1>3, <2>4, SolaLoBorra
    <3>2. pc'[p] = pc[p] /\ orden'[p] = orden[p] /\ tramo'[p] = "renombrar" /\ tramo[p] = "borrar"
      BY <1>f, <1>0, <2>4, <3>1 DEF Avanza, Borrar, ProcesoOK
    <3>3. UNCHANGED <<librosCSV, historialCSV, existeTemp, tempLibros, tempHistorial>>
      BY <1>f, <2>4 DEF Borrar
    <3>4. Fichero(p)' = f /\ Reescribe(p, f)'
      BY <1>f, <3>2 DEF Fichero, Reescribe
    <3>5. EnRegla(p)'
      BY <1>f, <2>2, <3>1, <3>2, <3>3, <3>4 DEF EnRegla, LibroCambiado, EsCierre
    <3>6. Ordenado(f)'
      BY <1>f, <2>3, <3>4, <3>5 DEF Ordenado, SinReescribir
    <3> QED
      BY <1>f, <1>0, <2>4, <3>6, OtroArchivo DEF Ordenados
  <2>5. CASE Renombrar(p) \/ Quitar(p)
    <3>1. f \in existe'
      <4>1. CASE Renombrar(p)
        BY <1>f, <1>0, <1>3, <4>1, SolaLoInstala DEF Instala
      <4>2. CASE Quitar(p)
        BY <1>f, <2>2, <4>2 DEF EnRegla, Quitar
      <4> QED
        BY <1>f, <2>5, <4>1, <4>2
    <3>2. tramo'[p] = "abrir"
      BY <1>f, <1>0, <2>5 DEF Renombrar, Prosigue, Quitar, Sigue, Termina, ProcesoOK
    <3>3. SinReescribir(f)'
      BY <1>f, <2>3, <3>2 DEF SinReescribir, Reescribe
    <3>4. Ordenado(f)'
      BY <1>f, <3>1, <3>3, OrdenadoLibre
    <3> QED
      BY <1>f, <1>0, <2>5, <3>4, OtroArchivo DEF Ordenados
  <2> QED
    BY <1>f, <2>4, <2>5
<1> QED
  BY <1>f, <1>2, <1>3

(***************************************************************************)
(* A process that stops.                                                   *)
(***************************************************************************)
LEMMA OrdenadosFallo ==
  ASSUME TypeOK, OrdenOK, Ordenados, NEW p \in Procesos, Fallo(p) \/ FalloAlAbrir(p) \/ Caida(p)
  PROVE  Ordenados'
<1>0. /\ ProcesoOK /\ OtrosQuietos(p) /\ tramo'[p] = "abrir"
      /\ UNCHANGED <<librosCSV, historialCSV, existe, prestamosCSV, bd>>
      /\ copiaLibros' = [copiaLibros EXCEPT ![p] = SinLibros]
      /\ copiaHistorial' = [copiaHistorial EXCEPT ![p] = << >>]
  BY MarcoFallo DEF TypeOK, ProcesoOK, Interrumpe
<1>1. CASE FalloAlAbrir(p)
  <2>1. /\ tramo[p] = "abrir" /\ pc[p] \in Reescrituras
        /\ AbreAmbos(p, Fichero(p)) /\ Fichero(p) \in Archivos
    BY <1>1 DEF FalloAlAbrir, Reescrituras, Fichero, Archivos
  <2> QED
    BY <1>0, <2>1, OrdenadosApertura
<1>2. CASE Fallo(p) \/ Caida(p)
  <2>1. Abandona(p) /\ UNCHANGED <<existeTemp, tempLibros, tempHistorial>>
    BY <1>2 DEF Fallo, Caida
  <2>2. \A q \in Procesos \ {p} : /\ copiaLibros'[q] = copiaLibros[q]
                                  /\ copiaHistorial'[q] = copiaHistorial[q]
    BY <1>0, CopiasAjenas
  <2>3. ASSUME NEW f \in Archivos
        PROVE  Ordenado(f)'
    <3>0. f \in alterados => f \in alterados'
      BY <2>1 DEF Abandona
    <3>1. ~ Reescribe(p, f)'
      BY <1>0 DEF Reescribe
    <3>2. CASE ~ Reescribe(p, f)
      <4>1. Intacto(f)
        BY <1>0, <2>1, <2>2, <3>0, <3>1, <3>2, IntactoAjeno
      <4> QED
        BY <4>1, OrdenadoIntacto DEF Ordenados
    <3>3. CASE Reescribe(p, f) /\ f \notin alterados'
      <4>1. EnRegla(p) /\ Fichero(p) = f /\ \A q \in Procesos \ {p} : ~ Reescribe(q, f)
        BY <3>0, <3>3, SoloElla DEF Ordenados
      <4>2. SinReescribir(f)'
        BY <1>0, <3>1, <4>1, AjenasSiguen DEF SinReescribir
      <4>3. f \in existe'
        BY <1>0, <2>1, <3>3, <4>1 DEF Abandona, EnRegla
      <4> QED
        BY <4>2, <4>3, OrdenadoLibre
    <3> QED
      BY <3>2, <3>3 DEF Ordenado
  <2> QED
    BY <2>3 DEF Ordenados
<1> QED
  BY <1>1, <1>2

LEMMA OrdenadosPaso ==
  ASSUME TypeOK, OrdenOK, Ordenados, [Next]_vars
  PROVE  Ordenados'
<1>1. ASSUME NEW p \in Procesos, PasoCSV(p)
      PROVE  Ordenados'
  BY <1>1, OrdenadosAbrir, OrdenadosAnexo, OrdenadosCerrar, OrdenadosSoltar DEF PasoCSV
<1>2. ASSUME NEW p \in Procesos, Fallo(p) \/ FalloAlAbrir(p) \/ Caida(p)
      PROVE  Ordenados'
  BY <1>2, OrdenadosFallo
<1>3. ASSUME NEW p \in Consolas, PasoConsola(p)
      PROVE  Ordenados'
  BY <1>3, OrdenadosFuera, OrdenadosArrancar DEF PasoConsola
<1> QED
  BY <1>1, <1>2, <1>3, OrdenadosFuera DEF Next

(***************************************************************************)
(* Where no two processes have worked at once, a file has one rewriter at  *)
(* most, and what it installs is the text of the file with its one change. *)
(***************************************************************************)
THEOREM CadaCopiaEsFiel == Spec => []Ordenados
<1>1. Init => Ordenados
  BY DEF Init, Ordenados, Ordenado, Reescribe, SinReescribir
<1>2. TypeOK /\ OrdenOK /\ Ordenados /\ [Next]_vars => Ordenados'
  BY OrdenadosPaso
<1> QED
  BY <1>1, <1>2, Tipos, PTL DEF Spec

-----------------------------------------------------------------------------
(* The history of loans *)

(***************************************************************************)
(* Who writes the files: appends, and the renames.                         *)
(***************************************************************************)
LEMMA QuienEscribe ==
  ASSUME TypeOK, [Next]_vars
  PROVE  /\ \/ librosCSV' = librosCSV
            \/ \E p \in Procesos : Renombrar(p) /\ Fichero(p) = "libros"
         /\ \/ historialCSV' = historialCSV
            \/ \E p \in Procesos : CsvHistorial(p)
            \/ \E p \in Procesos : Renombrar(p) /\ Fichero(p) = "historial"
         /\ \/ prestamosCSV' = prestamosCSV
            \/ \E p \in Procesos : CsvPrestamo(p)
<1> DEFINE Bien == /\ \/ librosCSV' = librosCSV
                      \/ \E p \in Procesos : Renombrar(p) /\ Fichero(p) = "libros"
                   /\ \/ historialCSV' = historialCSV
                      \/ \E p \in Procesos : CsvHistorial(p)
                      \/ \E p \in Procesos : Renombrar(p) /\ Fichero(p) = "historial"
                   /\ \/ prestamosCSV' = prestamosCSV
                      \/ \E p \in Procesos : CsvPrestamo(p)
<1> SUFFICES Bien
  OBVIOUS
<1>1. ASSUME PasoServidor \/ PasaDia \/ UNCHANGED vars
      PROVE  Bien
  BY <1>1 DEF PasoServidor, PedirRemoto, PedirRestar, PedirPrestamo, PedirHistorial,
              DevolverRemoto, DevolverBorrar, DevolverSumar, DevolverHistorial,
              PasaDia, vars, csv
<1>2. ASSUME NEW p \in Consolas, PasoConsola(p)
      PROVE  Bien
  BY <1>2 DEF PasoConsola, Arrancar, Salir, MenuPrincipal, csv
<1>3. ASSUME NEW p \in Procesos, Fallo(p) \/ FalloAlAbrir(p) \/ Caida(p)
      PROVE  Bien
  BY <1>3 DEF Fallo, FalloAlAbrir, Caida, Interrumpe
<1>4. ASSUME NEW p \in Procesos, PasoCSV(p)
      PROVE  Bien
  <2>1. CASE Renombrar(p)
    BY <2>1 DEF Renombrar, Instala
  <2>2. CASE CsvHistorial(p)
    BY <2>2 DEF CsvHistorial
  <2>3. CASE CsvPrestamo(p)
    BY <2>3 DEF CsvPrestamo
  <2>4. CASE \/ CsvPedir(p) \/ CsvDevolver(p) \/ CsvCierre(p)
             \/ Cerrar(p) \/ Borrar(p) \/ Quitar(p)
    BY <2>4 DEF CsvPedir, CsvDevolver, CsvCierre, Cerrar, Borrar, Quitar
  <2> QED
    BY <1>4, <2>1, <2>2, <2>3, <2>4 DEF PasoCSV
<1> HIDE DEF Bien
<1> QED
  BY <1>1, <1>2, <1>3, <1>4 DEF Next

(***************************************************************************)
(* A line is appended to the text of historial.csv, unless another process *)
(* is rewriting it.                                                        *)
(***************************************************************************)
LEMMA AnexoEntero ==
  ASSUME Ordenados, NEW p \in Procesos, CsvHistorial(p), "historial" \notin alterados'
  PROVE  historialCSV' =
           Append(historialCSV, [usuario |-> orden[p].usuario, isbn |-> orden[p].isbn,
                                 fecha |-> orden[p].fecha, estado |-> ACTIVO])
<1>1. "historial" \notin alterados /\ \A q \in Procesos \ {p} : ~ Reescribe(q, "historial")
  BY DEF CsvHistorial, Toca
<1>2. ~ Reescribe(p, "historial")
  BY DEF CsvHistorial, Reescribe, Fichero
<1>3. "historial" \in existe
  BY <1>1, <1>2 DEF Ordenados, Ordenado, SinReescribir, Archivos
<1> QED
  BY <1>3 DEF CsvHistorial

(***************************************************************************)
(* As long as historial.csv is rewritten by one process at a time, and no  *)
(* rewriting is cut before its rename, no step removes, reorders or edits  *)
(* a line of it, except to close it, and a closed line stays as it is.     *)
(***************************************************************************)
THEOREM CierreUnico == Spec => CierreDefinitivo
<1>1. TypeOK /\ Ordenados /\ [Next]_vars
        => ["historial" \notin alterados' => SeConserva(historialCSV, historialCSV')]_vars
  <2> SUFFICES ASSUME TypeOK, Ordenados, Next, "historial" \notin alterados'
               PROVE  SeConserva(historialCSV, historialCSV')
    OBVIOUS
  <2>0. /\ historialCSV \in Seq(FilaHistorial)
        /\ DOMAIN historialCSV = 1 .. Len(historialCSV)
        /\ Len(historialCSV) \in Nat
    BY DEF TypeOK
  <2>1. CASE historialCSV' = historialCSV
    BY <2>0, <2>1 DEF SeConserva
  <2>2. ASSUME NEW p \in Procesos, CsvHistorial(p)
        PROVE  SeConserva(historialCSV, historialCSV')
    <3> DEFINE linea == [usuario |-> orden[p].usuario, isbn |-> orden[p].isbn,
                         fecha |-> orden[p].fecha, estado |-> ACTIVO]
    <3>1. historialCSV' = Append(historialCSV, linea)
      BY <2>2, AnexoEntero
    <3> HIDE DEF linea
    <3>2. /\ Len(historialCSV') = Len(historialCSV) + 1
          /\ \A k \in DOMAIN historialCSV : historialCSV'[k] = historialCSV[k]
      BY <2>0, <3>1
    <3> QED
      BY <2>0, <3>2 DEF SeConserva
  <2>3. ASSUME NEW p \in Procesos, Renombrar(p), Fichero(p) = "historial"
        PROVE  SeConserva(historialCSV, historialCSV')
    <3>1. "historial" \in Archivos \ alterados
      BY <2>3 DEF Renombrar, Archivos
    <3>2. EsCierre(historialCSV', orden[p].usuario, orden[p].isbn)
      BY <2>3, <3>1, SolaLoInstala
    <3>3. ASSUME NEW k \in DOMAIN historialCSV
          PROVE  \/ historialCSV'[k] = historialCSV[k]
                 \/ /\ historialCSV[k].estado = ACTIVO
                    /\ historialCSV'[k] \in {[historialCSV[k] EXCEPT !.estado = DEVUELTO],
                                             [historialCSV[k] EXCEPT !.estado = ATRASADO]}
      <4>1. historialCSV'[k] \in Cerradas(historialCSV[k], orden[p].usuario, orden[p].isbn)
        BY <3>2 DEF EsCierre
      <4> QED
        BY <4>1 DEF Cerradas, SeCierra
    <3>4. Len(historialCSV) = Len(historialCSV')
      BY <3>2 DEF EsCierre
    <3> QED
      BY <2>0, <3>3, <3>4 DEF SeConserva
  <2> QED
    BY <2>1, <2>2, <2>3, QuienEscribe
<1> QED
  BY <1>1, Tipos, CadaCopiaEsFiel, PTL DEF Spec, CierreDefinitivo

-----------------------------------------------------------------------------
(* The database and libros.csv *)

(***************************************************************************)
(* What the operation of the server has done in one store and not yet in   *)
(* the other: a copy lent in the database, or given back in it.            *)
(***************************************************************************)
Adelanto(i) ==
  IF orden[Servidor].isbn # i THEN 0
  ELSE IF pc[Servidor] \in {"pedir_prestamo", "pedir_historial", "csv_pedir"} THEN 1
  ELSE IF pc[Servidor] \in {"devolver_historial", "csv_devolver"} THEN -1
  ELSE 0

DesfaseDe(i) == librosBD[i].copias + Adelanto(i) <= librosCSV[i].copias + deriva[i]

Desfase ==
  "libros" \notin alterados =>
    /\ DOMAIN librosBD = DOMAIN librosCSV
    /\ \A i \in DOMAIN librosBD : DesfaseDe(i)

LEMMA NumerosDesfase ==
  ASSUME TypeOK, NEW i \in DOMAIN librosBD, i \in DOMAIN librosCSV
  PROVE  /\ librosBD[i].copias \in Int
         /\ librosCSV[i].copias \in Int
         /\ deriva[i] \in Nat
         /\ Adelanto(i) \in {-1, 0, 1}
<1>1. EsTexto(librosBD) /\ EsTexto(librosCSV)
  BY DEF TypeOK
<1>2. i \in ISBNs /\ librosBD[i].copias \in Int /\ librosCSV[i].copias \in Int
  BY <1>1, TextoForma
<1> QED
  BY <1>2 DEF TypeOK, Adelanto

LEMMA CambioDeLibro ==
  ASSUME NEW l, EsTexto(l), NEW b \in DOMAIN l, NEW t,
         t \in {RestarSQL(l[b]), RestarCSV(l[b])} \/ t \in {SumarSQL(l[b]), SumarCSV(l[b])}
  PROVE  /\ DOMAIN [l EXCEPT ![b] = t] = DOMAIN l
         /\ \A i \in DOMAIN l :
              [l EXCEPT ![b] = t][i].copias =
                IF i # b THEN l[i].copias
                ELSE IF t \in {RestarSQL(l[b]), RestarCSV(l[b])} THEN l[b].copias - 1
                ELSE l[b].copias + 1
<1>1. /\ RestarSQL(l[b]).copias = l[b].copias - 1
      /\ RestarCSV(l[b]).copias = l[b].copias - 1
      /\ SumarSQL(l[b]).copias = l[b].copias + 1
      /\ SumarCSV(l[b]).copias = l[b].copias + 1
  BY DEF RestarSQL, RestarCSV, SumarSQL, SumarCSV
<1> HIDE DEF RestarSQL, RestarCSV, SumarSQL, SumarCSV
<1>2. \A i \in DOMAIN l : [l EXCEPT ![b] = t][i] = IF i = b THEN t ELSE l[i]
  BY TextoForma
<1> QED
  BY <1>1, <1>2

LEMMA DesfaseServidor ==
  ASSUME TypeOK, OrdenOK, FilasOK, Desfase, PasoServidor
  PROVE  Desfase'
<1>0. ProcesoOK /\ Servidor \in Procesos /\ EsTexto(librosBD)
  BY DEF TypeOK, ProcesoOK, Procesos
<1>2. UNCHANGED <<librosCSV, deriva, alterados>>
  BY DEF PasoServidor, PedirRemoto, PedirRestar, PedirPrestamo, PedirHistorial,
         DevolverRemoto, DevolverBorrar, DevolverSumar, DevolverHistorial, csv, historia
<1> SUFFICES ASSUME "libros" \notin alterados
             PROVE  /\ DOMAIN librosBD' = DOMAIN librosCSV
                    /\ \A i \in DOMAIN librosBD' : DesfaseDe(i)'
  BY <1>2 DEF Desfase
<1>1. DOMAIN librosBD = DOMAIN librosCSV /\ \A i \in DOMAIN librosBD : DesfaseDe(i)
  BY DEF Desfase
<1>3. CASE PedirRestar
  <2>1. pc[Servidor] = "pedir_restar" /\ pc'[Servidor] = "pedir_prestamo" /\ orden' = orden
    BY <1>0, <1>3 DEF PedirRestar, Sigue, ProcesoOK
  <2>2. /\ DOMAIN librosBD' = DOMAIN librosBD
        /\ \A i \in DOMAIN librosBD :
             librosBD'[i].copias = IF i = orden[Servidor].isbn THEN librosBD[i].copias - 1
                                   ELSE librosBD[i].copias
    BY <1>0, <1>3, <2>1, CambioDeLibro DEF PedirRestar, FilasOK
  <2>3. ASSUME NEW i \in DOMAIN librosBD
        PROVE  DesfaseDe(i)'
    <3>1. Adelanto(i) = 0 /\ Adelanto(i)' = IF i = orden[Servidor].isbn THEN 1 ELSE 0
      BY <2>1 DEF Adelanto
    <3> QED
      BY <1>1, <1>2, <2>2, <3>1, NumerosDesfase DEF DesfaseDe
  <2> QED
    BY <1>1, <2>2, <2>3
<1>4. CASE DevolverSumar
  <2>1. pc[Servidor] = "devolver_sumar" /\ pc'[Servidor] = "devolver_historial" /\ orden' = orden
    BY <1>0, <1>4 DEF DevolverSumar, Sigue, ProcesoOK
  <2>2. /\ DOMAIN librosBD' = DOMAIN librosBD
        /\ \A i \in DOMAIN librosBD :
             librosBD'[i].copias = IF i = orden[Servidor].isbn THEN librosBD[i].copias + 1
                                   ELSE librosBD[i].copias
    <3>1. CASE orden[Servidor].isbn \notin DOMAIN librosBD
      BY <1>4, <3>1 DEF DevolverSumar
    <3>2. CASE orden[Servidor].isbn \in DOMAIN librosBD
      <4> DEFINE b == orden[Servidor].isbn
      <4>1. librosBD' = [librosBD EXCEPT ![b] = SumarSQL(librosBD[b])]
        BY <1>4, <3>2 DEF DevolverSumar
      <4>2. SumarSQL(librosBD[b]).copias # RestarSQL(librosBD[b]).copias
            /\ SumarSQL(librosBD[b]).copias # RestarCSV(librosBD[b]).copias
        <5>1. librosBD[b].copias \in Int
          BY <1>0, <3>2, TextoForma
        <5> QED
          BY <5>1 DEF SumarSQL, RestarSQL, RestarCSV
      <4> QED
        BY <1>0, <3>2, <4>1, <4>2, CambioDeLibro
    <3> QED
      BY <3>1, <3>2
  <2>3. ASSUME NEW i \in DOMAIN librosBD
        PROVE  DesfaseDe(i)'
    <3>1. Adelanto(i) = 0 /\ Adelanto(i)' = IF i = orden[Servidor].isbn THEN -1 ELSE 0
      BY <2>1 DEF Adelanto
    <3> QED
      BY <1>1, <1>2, <2>2, <3>1, NumerosDesfase DEF DesfaseDe
  <2> QED
    BY <1>1, <2>2, <2>3
<1>5. ASSUME librosBD' = librosBD,
             \A i : \/ Adelanto(i)' = Adelanto(i)
                    \/ Adelanto(i)' = 0 /\ Adelanto(i) \in {0, 1}
      PROVE  /\ DOMAIN librosBD' = DOMAIN librosCSV
             /\ \A i \in DOMAIN librosBD' : DesfaseDe(i)'
  <2>1. ASSUME NEW i \in DOMAIN librosBD
        PROVE  DesfaseDe(i)'
    BY <1>1, <1>2, <1>5, NumerosDesfase DEF DesfaseDe
  <2> QED
    BY <1>1, <1>5, <2>1
<1>6. CASE PedirPrestamo \/ DevolverBorrar \/ DevolverHistorial \/ PedirHistorial
  <2>1. librosBD' = librosBD
    BY <1>6 DEF PedirPrestamo, DevolverBorrar, DevolverHistorial, PedirHistorial
  <2>2. \A i : \/ Adelanto(i)' = Adelanto(i)
               \/ Adelanto(i)' = 0 /\ Adelanto(i) \in {0, 1}
    BY <1>0, <1>6 DEF PedirPrestamo, DevolverBorrar, DevolverHistorial, PedirHistorial,
                      Sigue, Termina, Adelanto, ProcesoOK
  <2> QED
    BY <1>5, <2>1, <2>2
<1>7. ASSUME NEW u \in Usuarios, NEW j \in Pedibles, PedirRemoto(u, j) \/ DevolverRemoto(u, j)
      PROVE  /\ DOMAIN librosBD' = DOMAIN librosCSV
             /\ \A i \in DOMAIN librosBD' : DesfaseDe(i)'
  <2>1. /\ pc[Servidor] = "esperando"
        /\ pc'[Servidor] \in {"esperando", "pedir_restar", "devolver_borrar"}
    BY <1>0, <1>7 DEF PedirRemoto, DevolverRemoto, Empieza, Termina, ProcesoOK
  <2>2. \A i : Adelanto(i) = 0 /\ Adelanto(i)' = 0
    BY <2>1 DEF Adelanto
  <2>3. librosBD' = librosBD
    BY <1>7 DEF PedirRemoto, DevolverRemoto, bd
  <2> QED
    BY <1>5, <2>2, <2>3
<1> QED
  BY <1>3, <1>4, <1>6, <1>7 DEF PasoServidor

LEMMA DesfaseNoPeor ==
  ASSUME TypeOK, Desfase, UNCHANGED <<librosBD, librosCSV, deriva>>,
         "libros" \in alterados => "libros" \in alterados',
         \A i \in DOMAIN librosCSV : \/ Adelanto(i)' = Adelanto(i)
                                     \/ Adelanto(i)' = 0 /\ Adelanto(i) \in {0, 1}
  PROVE  Desfase'
<1> SUFFICES ASSUME "libros" \notin alterados
             PROVE  /\ DOMAIN librosBD = DOMAIN librosCSV
                    /\ \A i \in DOMAIN librosBD : DesfaseDe(i)'
  BY DEF Desfase
<1>1. DOMAIN librosBD = DOMAIN librosCSV /\ \A i \in DOMAIN librosBD : DesfaseDe(i)
  BY DEF Desfase
<1>2. ASSUME NEW i \in DOMAIN librosBD
      PROVE  DesfaseDe(i)'
  BY <1>1, NumerosDesfase DEF DesfaseDe
<1> QED
  BY <1>1, <1>2

(***************************************************************************)
(* The server leaves csv_devolver without its rename only for a book that  *)
(* is in neither store, as long as it is alone on libros.csv.              *)
(***************************************************************************)
LEMMA AdelantoCSV ==
  ASSUME TypeOK, OrdenOK, Ordenados, NEW p \in Procesos, PasoCSV(p), "libros" \notin alterados',
         ~ (Renombrar(p) /\ Fichero(p) = "libros"), NEW i \in DOMAIN librosCSV
  PROVE  \/ Adelanto(i)' = Adelanto(i)
         \/ Adelanto(i)' = 0 /\ Adelanto(i) \in {0, 1}
<1>0. ProcesoOK /\ Servidor \in Procesos
  BY DEF TypeOK, ProcesoOK, Procesos
<1>1. CASE p # Servidor
  <2>1. pc'[Servidor] = pc[Servidor] /\ orden'[Servidor] = orden[Servidor]
    BY <1>0, <1>1, MarcoCSV DEF OtrosQuietos
  <2> QED
    BY <2>1 DEF Adelanto
<1>2. ASSUME p = Servidor, \E t : Avanza(p, t)
      PROVE  Adelanto(i)' = Adelanto(i)
  BY <1>2 DEF Avanza, Adelanto
<1>3. ASSUME p = Servidor, \E r : Termina(p, Reposo(p), r)
      PROVE  Adelanto(i)' = 0
  BY <1>0, <1>3 DEF Termina, Reposo, Adelanto, ProcesoOK
<1>4. pc[Servidor] \notin {"devolver_historial", "csv_devolver"} => Adelanto(i) \in {0, 1}
  BY DEF Adelanto
<1>5. CASE p = Servidor /\ (CsvPedir(p) \/ CsvCierre(p) \/ CsvHistorial(p))
  BY <1>2, <1>3, <1>4, <1>5 DEF CsvPedir, CsvCierre, CsvHistorial, NoSeAbre, Copia
<1>6. CASE p = Servidor /\ CsvPrestamo(p)
  <2>1. Adelanto(i) = 0 /\ Adelanto(i)' = 0
    BY <1>0, <1>6 DEF CsvPrestamo, Adelanto, ProcesoOK
  <2> QED
    BY <2>1
<1>7. CASE p = Servidor /\ CsvDevolver(p)
  <2>1. "libros" \notin alterados /\ SinReescribir("libros")
    BY <1>7 DEF CsvDevolver, AbreAmbos, Toca, SinReescribir, Reescribe
  <2>2. "libros" \in existe
    BY <2>1 DEF Ordenados, Ordenado, Archivos
  <2> QED
    BY <1>2, <1>7, <2>2 DEF CsvDevolver, NoSeAbre, Copia
<1>8. CASE p = Servidor /\ (Cerrar(p) \/ Borrar(p) \/ Quitar(p) \/ Renombrar(p))
  <2>1. "libros" \notin alterados /\ "libros" \in Archivos
    BY <1>8 DEF Cerrar, Borrar, Quitar, Renombrar, historia, Archivos
  <2>2. CASE Fichero(p) = "libros" /\ Borrar(p)
    BY <1>2, <1>8, <2>1, <2>2, SolaLoBorra
  <2>3. CASE Quitar(p)
    <3>1. CASE pc[p] = "csv_devolver"
      <4>1. Reescribe(p, "libros")
        BY <2>3, <3>1 DEF Quitar, Reescribe, Fichero
      <4>2. EnRegla(p)
        BY <2>1, <4>1, SoloElla DEF Ordenados
      <4>3. orden[p].isbn # i
        BY <2>3, <3>1, <4>2 DEF Quitar, EnRegla
      <4> QED
        BY <1>3, <1>8, <2>3, <4>3 DEF Quitar, Adelanto
    <3>2. CASE pc[p] # "csv_devolver"
      <4>1. pc[p] # "devolver_historial"
        BY <2>3 DEF Quitar, OrdenOK, Reescrituras
      <4> QED
        BY <1>3, <1>4, <1>8, <2>3, <3>2, <4>1 DEF Quitar
    <3> QED
      BY <3>1, <3>2
  <2>4. CASE Cerrar(p)
    BY <1>2, <1>8, <2>4 DEF Cerrar
  <2>5. CASE Fichero(p) = "historial" /\ (Borrar(p) \/ Renombrar(p))
    <3>1. pc[p] = "csv_cierre"
      BY <2>5 DEF Fichero
    <3> QED
      BY <1>2, <1>3, <1>4, <1>8, <2>5, <3>1 DEF Borrar, Renombrar, Prosigue
  <2> QED
    BY <1>8, <2>2, <2>3, <2>4, <2>5 DEF Fichero
<1> QED
  BY <1>1, <1>5, <1>6, <1>7, <1>8 DEF PasoCSV

LEMMA DesfaseRenombrar ==
  ASSUME TypeOK, OrdenOK, Ordenados, Desfase, NEW p \in Procesos,
         Renombrar(p), Fichero(p) = "libros"
  PROVE  Desfase'
<1> USE ConstantesOK
<1>0. ProcesoOK /\ Servidor \in Procesos /\ EsTexto(librosCSV) /\ EsTexto(librosBD)
  BY DEF TypeOK, ProcesoOK, Procesos
<1>1. UNCHANGED <<librosBD, alterados>>
  BY DEF Renombrar, bd
<1> SUFFICES ASSUME "libros" \notin alterados
             PROVE  /\ DOMAIN librosBD = DOMAIN librosCSV'
                    /\ \A i \in DOMAIN librosBD : DesfaseDe(i)'
  BY <1>1 DEF Desfase
<1>2. DOMAIN librosBD = DOMAIN librosCSV /\ \A i \in DOMAIN librosBD : DesfaseDe(i)
  BY DEF Desfase
<1>3. /\ Prosigue(p)
      /\ deriva' = IF pc[p] = "csv_pedir" /\ p # Servidor
                   THEN [deriva EXCEPT ![orden[p].isbn] = deriva[orden[p].isbn] + 1]
                   ELSE deriva
      /\ LibroCambiado(librosCSV', p)
  BY SolaLoInstala DEF Archivos
<1> DEFINE b == orden[p].isbn
<1>4. b \in DOMAIN librosCSV /\ pc[p] \in {"csv_pedir", "csv_devolver"}
  BY <1>3 DEF LibroCambiado
<1>5. p # Servidor => \A i : Adelanto(i)' = Adelanto(i)
  <2>1. p # Servidor => pc'[Servidor] = pc[Servidor] /\ orden'[Servidor] = orden[Servidor]
    BY <1>0, MarcoCSV DEF OtrosQuietos, PasoCSV
  <2> QED
    BY <2>1 DEF Adelanto
<1>6. p = Servidor => \A i : /\ Adelanto(i)' = 0
                             /\ Adelanto(i) = IF i # b THEN 0
                                              ELSE IF pc[p] = "csv_pedir" THEN 1 ELSE -1
  BY <1>0, <1>3, <1>4 DEF Prosigue, Sigue, Adelanto, ProcesoOK
<1>7. CASE pc[p] = "csv_pedir"
  <2>1. /\ DOMAIN librosCSV' = DOMAIN librosCSV
        /\ \A i \in DOMAIN librosCSV :
             librosCSV'[i].copias = IF i = b THEN librosCSV[i].copias - 1 ELSE librosCSV[i].copias
    BY <1>0, <1>3, <1>4, <1>7, CambioDeLibro DEF LibroCambiado
  <2>2. \A i \in DOMAIN librosBD :
          deriva'[i] = IF i = b /\ p # Servidor THEN deriva[i] + 1 ELSE deriva[i]
    <3>1. deriva \in [ISBNs -> Nat] /\ DOMAIN librosBD \subseteq ISBNs
      BY <1>0, TextoForma DEF TypeOK
    <3> QED
      BY <1>3, <1>7, <3>1
  <2>3. ASSUME NEW i \in DOMAIN librosBD
        PROVE  DesfaseDe(i)'
    <3>1. /\ librosBD[i].copias + Adelanto(i) <= librosCSV[i].copias + deriva[i]
          /\ librosBD[i].copias \in Int /\ librosCSV[i].copias \in Int /\ deriva[i] \in Nat
          /\ Adelanto(i) \in {-1, 0, 1}
      BY <1>2, NumerosDesfase DEF DesfaseDe
    <3>2. CASE p = Servidor
      BY <1>1, <1>2, <1>6, <1>7, <2>1, <2>2, <3>1, <3>2 DEF DesfaseDe
    <3>3. CASE p # Servidor
      BY <1>1, <1>2, <1>5, <2>1, <2>2, <3>1, <3>3 DEF DesfaseDe
    <3> QED
      BY <3>2, <3>3
  <2> QED
    BY <1>2, <2>1, <2>3
<1>8. CASE pc[p] = "csv_devolver"
  <2>1. /\ DOMAIN librosCSV' = DOMAIN librosCSV
        /\ \A i \in DOMAIN librosCSV :
             librosCSV'[i].copias = IF i = b THEN librosCSV[i].copias + 1 ELSE librosCSV[i].copias
    <3>1. librosCSV' = [librosCSV EXCEPT ![b] = SumarCSV(librosCSV[b])]
      BY <1>3, <1>8 DEF LibroCambiado
    <3>2. SumarCSV(librosCSV[b]) \notin {RestarSQL(librosCSV[b]), RestarCSV(librosCSV[b])}
      <4>1. librosCSV[b].copias \in Int
        BY <1>0, <1>4, TextoForma
      <4>2. /\ SumarCSV(librosCSV[b]).copias # RestarSQL(librosCSV[b]).copias
            /\ SumarCSV(librosCSV[b]).copias # RestarCSV(librosCSV[b]).copias
        BY <4>1 DEF SumarCSV, RestarSQL, RestarCSV
      <4> QED
        BY <4>2
    <3> QED
      BY <1>0, <1>4, <3>1, <3>2, CambioDeLibro
  <2>2. deriva' = deriva
    BY <1>3, <1>8
  <2>3. ASSUME NEW i \in DOMAIN librosBD
        PROVE  DesfaseDe(i)'
    <3>1. /\ librosBD[i].copias + Adelanto(i) <= librosCSV[i].copias + deriva[i]
          /\ librosBD[i].copias \in Int /\ librosCSV[i].copias \in Int /\ deriva[i] \in Nat
          /\ Adelanto(i) \in {-1, 0, 1}
      BY <1>2, NumerosDesfase DEF DesfaseDe
    <3>2. CASE p = Servidor
      BY <1>1, <1>2, <1>6, <1>8, <2>1, <2>2, <3>1, <3>2 DEF DesfaseDe
    <3>3. CASE p # Servidor
      BY <1>1, <1>2, <1>5, <2>1, <2>2, <3>1, <3>3 DEF DesfaseDe
    <3> QED
      BY <3>2, <3>3
  <2> QED
    BY <1>2, <2>1, <2>3
<1> QED
  BY <1>4, <1>7, <1>8

LEMMA DesfaseCSV ==
  ASSUME TypeOK, OrdenOK, Ordenados, Desfase, NEW p \in Procesos, PasoCSV(p)
  PROVE  Desfase'
<1>1. CASE Renombrar(p) /\ Fichero(p) = "libros"
  BY <1>1, DesfaseRenombrar
<1>2. CASE "libros" \in alterados'
  BY <1>2 DEF Desfase
<1>3. CASE "libros" \notin alterados' /\ ~ (Renombrar(p) /\ Fichero(p) = "libros")
  <2>2. librosCSV' = librosCSV
    BY <1>3 DEF PasoCSV, CsvPedir, CsvDevolver, CsvCierre, CsvPrestamo, CsvHistorial,
                Cerrar, Borrar, Renombrar, Instala, Quitar
  <2>3. deriva' = deriva
    BY <1>3 DEF PasoCSV, CsvPedir, CsvDevolver, CsvCierre, CsvPrestamo, CsvHistorial,
                Cerrar, Borrar, Renombrar, Fichero, Quitar, historia
  <2>4. librosBD' = librosBD
    BY MarcoCSV DEF bd
  <2>5. "libros" \in alterados => "libros" \in alterados'
    BY DEF PasoCSV, CsvPedir, CsvDevolver, CsvCierre, CsvPrestamo, CsvHistorial,
           AbreAmbos, Toca, Cerrar, Borrar, Renombrar, Quitar, historia
  <2> QED
    BY <1>3, <2>2, <2>3, <2>4, <2>5, AdelantoCSV, DesfaseNoPeor
<1> QED
  BY <1>1, <1>2, <1>3

LEMMA DesfaseInterrupcion ==
  ASSUME TypeOK, OrdenOK, Desfase, NEW p \in Procesos, Fallo(p) \/ FalloAlAbrir(p) \/ Caida(p)
  PROVE  Desfase'
<1>1. UNCHANGED <<librosBD, librosCSV>>
  BY MarcoFallo DEF Interrumpe, bd
<1>2. "libros" \in alterados => "libros" \in alterados'
  BY DEF Fallo, FalloAlAbrir, Caida, Abandona, AbreAmbos, Toca
<1> SUFFICES ASSUME "libros" \notin alterados
             PROVE  /\ DOMAIN librosBD = DOMAIN librosCSV
                    /\ \A i \in DOMAIN librosBD : DesfaseDe(i)'
  BY <1>1, <1>2 DEF Desfase
<1>3. DOMAIN librosBD = DOMAIN librosCSV /\ \A i \in DOMAIN librosBD : DesfaseDe(i)
  BY DEF Desfase
<1>4. ASSUME NEW i \in DOMAIN librosBD
      PROVE  DesfaseDe(i)'
  <2>0. /\ librosBD[i].copias + Adelanto(i) <= librosCSV[i].copias + deriva[i]
        /\ librosBD[i].copias \in Int /\ librosCSV[i].copias \in Int /\ deriva[i] \in Nat
        /\ Adelanto(i) \in {-1, 0, 1}
    BY <1>3, NumerosDesfase DEF DesfaseDe
  <2>1. deriva'[i] = deriva[i] \/ deriva'[i] = deriva[i] + 1
    <3>1. deriva \in [ISBNs -> Nat] /\ i \in ISBNs
      BY TextoForma DEF TypeOK
    <3> QED
      BY <3>1, MarcoFallo DEF Interrumpe
  <2>2. CASE p # Servidor
    <3>1. Adelanto(i)' = Adelanto(i)
      BY <2>2, InterrupcionBD DEF Adelanto
    <3> QED
      BY <1>1, <2>0, <2>1, <3>1 DEF DesfaseDe
  <2>3. CASE p = Servidor
    <3>1. Adelanto(i)' = 0
      BY <2>3, InterrupcionBD DEF Adelanto
    <3>2. Adelanto(i) = -1 => deriva'[i] = deriva[i] + 1
      <4>1. deriva \in [ISBNs -> Nat] /\ i \in ISBNs
        BY TextoForma DEF TypeOK
      <4> QED
        BY <2>3, <4>1, MarcoFallo DEF Interrumpe, Adelanto
    <3> QED
      BY <1>1, <2>0, <2>1, <3>1, <3>2 DEF DesfaseDe
  <2> QED
    BY <2>2, <2>3
<1> QED
  BY <1>3, <1>4

LEMMA DesfaseArrancar ==
  ASSUME TypeOK, NEW p \in Consolas, Arrancar(p)
  PROVE  Desfase'
<1> SUFFICES ASSUME "libros" \notin alterados'
             PROVE  /\ DOMAIN librosBD' = DOMAIN librosCSV'
                    /\ \A i \in DOMAIN librosBD' : DesfaseDe(i)'
  BY DEF Desfase
<1>1. librosBD' = librosCSV /\ librosCSV' = librosCSV
  BY DEF Arrancar, csv, Archivos
<1>2. pc'[Servidor] = pc[Servidor] /\ pc[Servidor] \notin PasosBD \cup PasosCSV
  BY ConstantesOK DEF Arrancar, TypeOK, EnCurso, Procesos
<1>3. ASSUME NEW i \in DOMAIN librosBD'
      PROVE  DesfaseDe(i)'
  <2>1. Adelanto(i)' = 0
    BY <1>2 DEF Adelanto, PasosBD, PasosCSV
  <2>2. i \in ISBNs /\ librosCSV[i].copias \in Int
    BY <1>1, TextoForma DEF TypeOK
  <2>3. deriva'[i] = 0
    BY <2>2 DEF Arrancar
  <2> QED
    BY <1>1, <2>1, <2>2, <2>3 DEF DesfaseDe
<1> QED
  BY <1>1, <1>3

LEMMA DesfasePaso ==
  ASSUME TypeOK, OrdenOK, FilasOK, Ordenados, Desfase, [Next]_vars
  PROVE  Desfase'
<1>1. ASSUME UNCHANGED <<librosBD, librosCSV, deriva, alterados>>,
             pc'[Servidor] = pc[Servidor], orden'[Servidor] = orden[Servidor]
      PROVE  Desfase'
  BY <1>1 DEF Desfase, DesfaseDe, Adelanto
<1>2. ASSUME NEW p \in Consolas, PasoConsola(p)
      PROVE  Desfase'
  <2>1. CASE Arrancar(p)
    BY <1>2, <2>1, DesfaseArrancar
  <2>2. CASE Salir(p) \/ \E u \in Usuarios, i \in Pedibles : MenuPrincipal(p, u, i)
    <3>1. pc'[Servidor] = pc[Servidor] /\ orden'[Servidor] = orden[Servidor]
      BY <2>2, ConstantesOK DEF Salir, MenuPrincipal, Empieza, TypeOK, Procesos
    <3>2. UNCHANGED <<librosBD, librosCSV, deriva, alterados>>
      BY <2>2 DEF Salir, MenuPrincipal, bd, csv, historia
    <3> QED
      BY <1>1, <3>1, <3>2
  <2> QED
    BY <1>2, <2>1, <2>2 DEF PasoConsola
<1>3. CASE PasaDia \/ UNCHANGED vars
  BY <1>1, <1>3 DEF PasaDia, vars, bd, csv, proceso, historia
<1> QED
  BY <1>2, <1>3, DesfaseServidor, DesfaseCSV, DesfaseInterrupcion DEF Next

(***************************************************************************)
(* Between two commands the database does not show more copies than        *)
(* libros.csv, but for console loans and returns cut between the stores,   *)
(* as long as one process at a time has worked on the file.                *)
(***************************************************************************)
THEOREM SinSuperarCSV == Spec => []BDNuncaSuperaCSV
<1>1. Init => Desfase
  <2> SUFFICES ASSUME Init, NEW i \in DOMAIN librosBD
               PROVE  DesfaseDe(i)
    BY DEF Desfase, Init
  <2>1. Adelanto(i) = 0
    BY DEF Init, Adelanto, Procesos
  <2>2. librosBD[i].copias \in Int /\ librosBD = librosCSV /\ deriva[i] = 0
    BY ConstantesOK DEF Init, LibroInicial
  <2> QED
    BY <2>1, <2>2 DEF DesfaseDe
<1>2. (TypeOK /\ OrdenOK /\ FilasOK) /\ Ordenados /\ Desfase /\ [Next]_vars => Desfase'
  BY DesfasePaso
<1>3. Desfase /\ TypeOK => BDNuncaSuperaCSV
  <2> SUFFICES ASSUME Desfase, TypeOK, pc[Servidor] = "esperando", "libros" \notin alterados,
                      NEW i \in DOMAIN librosBD
               PROVE  i \in DOMAIN librosCSV /\ librosBD[i].copias <= librosCSV[i].copias + deriva[i]
    BY DEF BDNuncaSuperaCSV
  <2>1. Adelanto(i) = 0
    BY DEF Adelanto
  <2> QED
    BY <2>1, NumerosDesfase DEF Desfase, DesfaseDe
<1> QED
  BY <1>1, <1>2, <1>3, FilasBienFormadas, CadaCopiaEsFiel, PTL DEF Spec

-----------------------------------------------------------------------------
(* Active loans can be returned *)

(***************************************************************************)
(* pedir_libro writes prestamos.csv before historial.csv, and prestamos.csv*)
(* loses no line: each line of the history has its loan, also in a copy of *)
(* it, old or new, and while the line is about to be written.              *)
(***************************************************************************)
ConLinea(u, i) == \E j \in DOMAIN prestamosCSV : De(prestamosCSV[j], u, i)

Respaldadas(t) == \A k \in DOMAIN t : ConLinea(t[k].usuario, t[k].isbn)

Respaldado ==
  /\ Respaldadas(historialCSV)
  /\ Respaldadas(tempHistorial)
  /\ \A p \in Procesos : Respaldadas(copiaHistorial[p])
  /\ \A p \in Procesos : pc[p] = "csv_historial" => ConLinea(orden[p].usuario, orden[p].isbn)

LEMMA LineasQuedan ==
  ASSUME TypeOK, [Next]_vars
  PROVE  \A u, i : ConLinea(u, i) => ConLinea(u, i)'
<1>1. prestamosCSV \in Seq(LineaPrestamo)
  BY DEF TypeOK
<1>2. CASE prestamosCSV' = prestamosCSV
  BY <1>2 DEF ConLinea
<1>3. ASSUME NEW p \in Procesos, CsvPrestamo(p)
      PROVE  \A u, i : ConLinea(u, i) => ConLinea(u, i)'
  <2>1. /\ DOMAIN prestamosCSV \subseteq DOMAIN prestamosCSV'
        /\ \A j \in DOMAIN prestamosCSV : prestamosCSV'[j] = prestamosCSV[j]
    BY <1>1, <1>3 DEF CsvPrestamo
  <2> QED
    BY <2>1 DEF ConLinea
<1> QED
  BY <1>2, <1>3, QuienEscribe

LEMMA CierraUnaVez ==
  ASSUME NEW r \in FilaHistorial, NEW u, NEW i
  PROVE  \/ Cerrada(r, u, i) = r
         \/ /\ r.estado = ACTIVO
            /\ \/ Cerrada(r, u, i) = [r EXCEPT !.estado = DEVUELTO]
               \/ Cerrada(r, u, i) = [r EXCEPT !.estado = ATRASADO]
<1>1. CASE SeCierra(r, u, i)
  <2>1. Cerrada(r, u, i) = [r EXCEPT !.estado = Veredicto(r.fecha)]
    BY <1>1 DEF Cerrada
  <2>2. Veredicto(r.fecha) = DEVUELTO \/ Veredicto(r.fecha) = ATRASADO
    BY DEF Veredicto
  <2> QED
    BY <1>1, <2>1, <2>2 DEF SeCierra
<1>2. CASE ~ SeCierra(r, u, i)
  BY <1>2 DEF Cerrada
<1> QED
  BY <1>1, <1>2

(***************************************************************************)
(* Who writes temp_hist.csv, and the copies.                               *)
(***************************************************************************)
LEMMA QuienCopia ==
  ASSUME [Next]_vars
  PROVE  /\ \/ tempHistorial' \in {tempHistorial, << >>}
            \/ \E p \in Procesos : tempHistorial' = SobreLineas(copiaHistorial[p], tempHistorial)
         /\ \/ copiaHistorial' = copiaHistorial
            \/ \E p \in Procesos :
                 \/ copiaHistorial' = [copiaHistorial EXCEPT ![p] = << >>]
                 \/ copiaHistorial' = [copiaHistorial EXCEPT ![p] =
                      [k \in DOMAIN historialCSV |->
                         Cerrada(historialCSV[k], orden[p].usuario, orden[p].isbn)]]
<1> DEFINE T == \/ tempHistorial' \in {tempHistorial, << >>}
                \/ \E p \in Procesos : tempHistorial' = SobreLineas(copiaHistorial[p], tempHistorial)
           C == \/ copiaHistorial' = copiaHistorial
                \/ \E p \in Procesos :
                     \/ copiaHistorial' = [copiaHistorial EXCEPT ![p] = << >>]
                     \/ copiaHistorial' = [copiaHistorial EXCEPT ![p] =
                          [k \in DOMAIN historialCSV |->
                             Cerrada(historialCSV[k], orden[p].usuario, orden[p].isbn)]]
<1> SUFFICES T /\ C
  OBVIOUS
<1>1. ASSUME PasoServidor \/ PasaDia \/ UNCHANGED vars
      PROVE  T /\ C
  BY <1>1 DEF PasoServidor, PedirRemoto, PedirRestar, PedirPrestamo, PedirHistorial,
              DevolverRemoto, DevolverBorrar, DevolverSumar, DevolverHistorial,
              PasaDia, vars, csv, copias
<1>2. ASSUME NEW p \in Consolas, PasoConsola(p)
      PROVE  T /\ C
  BY <1>2 DEF PasoConsola, Arrancar, Salir, MenuPrincipal, csv, copias
<1>3. ASSUME NEW p \in Procesos, Fallo(p) \/ FalloAlAbrir(p) \/ Caida(p)
      PROVE  T /\ C
  <2>1. tempHistorial' \in {tempHistorial, << >>}
    BY <1>3 DEF Fallo, FalloAlAbrir, Caida, AbreAmbos, Vaciar
  <2>2. copiaHistorial' = [copiaHistorial EXCEPT ![p] = << >>]
    BY <1>3 DEF Fallo, FalloAlAbrir, Caida, Interrumpe
  <2> QED
    BY <2>1, <2>2
<1>4. ASSUME NEW p \in Procesos, PasoCSV(p)
      PROVE  T /\ C
  <2>1. CASE CsvPedir(p) \/ CsvDevolver(p)
    BY <2>1 DEF CsvPedir, CsvDevolver, AbreAmbos, Vaciar, NoSeAbre, Copia, copias
  <2>2. CASE CsvCierre(p)
    <3>1. T
      BY <2>2 DEF CsvCierre, AbreAmbos, Vaciar
    <3>2. C
      BY <2>2 DEF CsvCierre, NoSeAbre
    <3> QED
      BY <3>1, <3>2
  <2>3. CASE Cerrar(p)
    <3>1. T
      BY <2>3 DEF Cerrar
    <3>2. C
      BY <2>3 DEF Cerrar
    <3> QED
      BY <3>1, <3>2
  <2>4. CASE CsvPrestamo(p) \/ CsvHistorial(p) \/ Borrar(p) \/ Renombrar(p) \/ Quitar(p)
    BY <2>4 DEF CsvPrestamo, CsvHistorial, Borrar, Renombrar, Instala, Quitar, copias
  <2> HIDE DEF T, C
  <2> QED
    BY <1>4, <2>1, <2>2, <2>3, <2>4 DEF PasoCSV
<1> HIDE DEF T, C
<1> QED
  BY <1>1, <1>2, <1>3, <1>4 DEF Next

LEMMA RespaldadasAlCerrar ==
  ASSUME NEW t \in Seq(FilaHistorial), Respaldadas(t), NEW u, NEW i
  PROVE  Respaldadas([k \in DOMAIN t |-> Cerrada(t[k], u, i)])
<1> SUFFICES ASSUME NEW k \in DOMAIN t
             PROVE  /\ Cerrada(t[k], u, i).usuario = t[k].usuario
                    /\ Cerrada(t[k], u, i).isbn = t[k].isbn
  BY DEF Respaldadas
<1>1. t[k] \in FilaHistorial
  OBVIOUS
<1> QED
  BY <1>1, CierraUnaVez DEF FilaHistorial

LEMMA RespaldadasAlCopiar ==
  ASSUME NEW a \in Seq(FilaHistorial), NEW b \in Seq(FilaHistorial),
         Respaldadas(a), Respaldadas(b)
  PROVE  Respaldadas(SobreLineas(a, b))
<1>1. ASSUME NEW k \in DOMAIN SobreLineas(a, b)
      PROVE  ConLinea(SobreLineas(a, b)[k].usuario, SobreLineas(a, b)[k].isbn)
  <2>1. \/ \E j \in DOMAIN a : SobreLineas(a, b)[k] = a[j]
        \/ \E j \in DOMAIN b : SobreLineas(a, b)[k] = b[j]
    BY LineasSobre
  <2> QED
    BY <2>1 DEF Respaldadas
<1> QED
  BY <1>1 DEF Respaldadas

(***************************************************************************)
(* A process comes to write its line of historial.csv only after that of   *)
(* prestamos.csv.                                                          *)
(***************************************************************************)
LEMMA AlAnotar ==
  ASSUME TypeOK, [Next]_vars, NEW q \in Procesos, pc'[q] = "csv_historial"
  PROVE  (pc[q] = "csv_historial" /\ orden'[q] = orden[q]) \/ CsvPrestamo(q)
<1> DEFINE Bien == (pc[q] = "csv_historial" /\ orden'[q] = orden[q]) \/ CsvPrestamo(q)
<1> SUFFICES Bien
  OBVIOUS
<1>0. ProcesoOK /\ Servidor \in Procesos /\ Consolas \subseteq Procesos
  BY DEF TypeOK, ProcesoOK, Procesos
<1>1. CASE PasoServidor
  BY <1>0, <1>1 DEF PasoServidor, PedirRemoto, PedirRestar, PedirPrestamo, PedirHistorial,
                    DevolverRemoto, DevolverBorrar, DevolverSumar, DevolverHistorial,
                    Empieza, Sigue, Termina, ProcesoOK
<1>2. ASSUME NEW p \in Consolas, PasoConsola(p)
      PROVE  Bien
  BY <1>0, <1>2 DEF PasoConsola, Arrancar, Salir, MenuPrincipal, Empieza, ProcesoOK
<1>3. ASSUME NEW p \in Procesos, Fallo(p) \/ FalloAlAbrir(p) \/ Caida(p)
      PROVE  Bien
  BY <1>3, MarcoFallo DEF OtrosQuietos
<1>4. ASSUME NEW p \in Procesos, PasoCSV(p)
      PROVE  Bien
  <2>1. CASE q # p
    BY <1>4, <2>1, MarcoCSV DEF OtrosQuietos
  <2>2. CASE q = p /\ CsvPrestamo(p)
    BY <2>2
  <2>3. CASE q = p /\ ~ CsvPrestamo(p)
    <3>1. pc[p] # "csv_historial" => FALSE
      BY <1>0, <1>4, <2>3
         DEF PasoCSV, CsvPedir, CsvHistorial, CsvDevolver, CsvCierre, Cerrar, Borrar, Renombrar,
             Prosigue, Quitar, NoSeAbre, Copia, Sigue, Avanza, Termina, Reposo, ProcesoOK
    <3>2. pc[p] = "csv_historial" => orden'[p] = orden[p]
      BY <1>0, <1>4, <2>3
         DEF PasoCSV, CsvPedir, CsvHistorial, CsvDevolver, CsvCierre, Cerrar, Borrar, Renombrar,
             Prosigue, Quitar, NoSeAbre, Copia, Sigue, Avanza, Termina, Reposo, ProcesoOK
    <3> QED
      BY <2>3, <3>1, <3>2
  <2> QED
    BY <2>1, <2>2, <2>3
<1>5. CASE PasaDia \/ UNCHANGED vars
  BY <1>5 DEF PasaDia, vars, proceso
<1> QED
  BY <1>1, <1>2, <1>3, <1>4, <1>5 DEF Next

LEMMA RespaldadoPaso ==
  ASSUME TypeOK, OrdenOK, Respaldado, [Next]_vars
  PROVE  Respaldado'
<1>0. /\ ProcesoOK
      /\ historialCSV \in Seq(FilaHistorial)
      /\ tempHistorial \in Seq(FilaHistorial)
      /\ copiaHistorial \in [Procesos -> Seq(FilaHistorial)]
  BY DEF TypeOK, ProcesoOK
<1>v. Respaldadas(<< >>)
  BY DEF Respaldadas
<1>m. ASSUME NEW t, Respaldadas(t)
      PROVE  \A k \in DOMAIN t : ConLinea(t[k].usuario, t[k].isbn)'
  BY <1>m, LineasQuedan DEF Respaldadas
<1>1. Respaldadas(historialCSV')
  <2>1. ASSUME NEW p \in Procesos, CsvHistorial(p)
        PROVE  Respaldadas(historialCSV')
    <3>1. PICK t \in Seq(FilaHistorial) :
            /\ t \in {historialCSV, << >>}
            /\ historialCSV' =
                 Append(t, [usuario |-> orden[p].usuario, isbn |-> orden[p].isbn,
                            fecha |-> orden[p].fecha, estado |-> ACTIVO])
      <4>1. << >> \in Seq(FilaHistorial)
        OBVIOUS
      <4>2. PICK t \in {historialCSV, << >>} :
              historialCSV' =
                 Append(t, [usuario |-> orden[p].usuario, isbn |-> orden[p].isbn,
                            fecha |-> orden[p].fecha, estado |-> ACTIVO])
        BY <2>1 DEF CsvHistorial
      <4>3. t \in Seq(FilaHistorial)
        BY <1>0, <4>1, <4>2
      <4> QED
        BY <4>2, <4>3
    <3> DEFINE linea == [usuario |-> orden[p].usuario, isbn |-> orden[p].isbn,
                         fecha |-> orden[p].fecha, estado |-> ACTIVO]
    <3>2. ConLinea(linea.usuario, linea.isbn)
      BY <2>1 DEF CsvHistorial, Respaldado
    <3>3. Respaldadas(t)
      BY <1>v, <3>1 DEF Respaldado
    <3> HIDE DEF linea
    <3>4. historialCSV' = Append(t, linea)
      BY <3>1 DEF linea
    <3>5. \A k \in DOMAIN historialCSV' :
            \/ k \in DOMAIN t /\ historialCSV'[k] = t[k]
            \/ historialCSV'[k] = linea
      BY <3>4
    <3> QED
      BY <3>2, <3>3, <3>5 DEF Respaldadas
  <2>2. ASSUME NEW p \in Procesos, Renombrar(p)
        PROVE  Respaldadas(historialCSV')
    BY <2>2 DEF Renombrar, Instala, Respaldado
  <2> QED
    BY <2>1, <2>2, QuienEscribe DEF Respaldado
<1>2. Respaldadas(tempHistorial')
  <2>1. ASSUME NEW p \in Procesos, tempHistorial' = SobreLineas(copiaHistorial[p], tempHistorial)
        PROVE  Respaldadas(tempHistorial')
    <3>1. copiaHistorial[p] \in Seq(FilaHistorial) /\ Respaldadas(copiaHistorial[p])
      BY <1>0 DEF Respaldado
    <3> QED
      BY <1>0, <2>1, <3>1, RespaldadasAlCopiar DEF Respaldado
  <2> QED
    BY <1>v, <2>1, QuienCopia DEF Respaldado
<1>3. ASSUME NEW q \in Procesos
      PROVE  Respaldadas(copiaHistorial'[q])
  <2>1. Respaldadas(copiaHistorial[q])
    BY DEF Respaldado
  <2>2. ASSUME NEW p \in Procesos, NEW t,
               copiaHistorial' = [copiaHistorial EXCEPT ![p] = t], Respaldadas(t)
        PROVE  Respaldadas(copiaHistorial'[q])
    <3>1. copiaHistorial'[q] = IF q = p THEN t ELSE copiaHistorial[q]
      BY <1>0, <2>2
    <3> QED
      BY <2>1, <2>2, <3>1
  <2>3. ASSUME NEW p \in Procesos
        PROVE  Respaldadas([k \in DOMAIN historialCSV |->
                              Cerrada(historialCSV[k], orden[p].usuario, orden[p].isbn)])
    BY <1>0, RespaldadasAlCerrar DEF Respaldado
  <2> QED
    BY <1>v, <2>1, <2>2, <2>3, QuienCopia
<1>4. ASSUME NEW q \in Procesos, pc'[q] = "csv_historial"
      PROVE  ConLinea(orden[q].usuario, orden[q].isbn)'
  <2>1. CASE pc[q] = "csv_historial" /\ orden'[q] = orden[q]
    <3>1. ConLinea(orden[q].usuario, orden[q].isbn)
      BY <2>1 DEF Respaldado
    <3>2. orden[q].usuario = orden'[q].usuario /\ orden[q].isbn = orden'[q].isbn
      BY <2>1
    <3> QED
      BY <3>1, <3>2, LineasQuedan DEF ConLinea
  <2>2. CASE CsvPrestamo(q)
    <3>1. /\ prestamosCSV \in Seq(LineaPrestamo)
          /\ orden'[q].usuario = orden[q].usuario
          /\ orden'[q].isbn = orden[q].isbn
      BY <1>0, <2>2 DEF CsvPrestamo, ProcesoOK, Orden, TypeOK
    <3>2. /\ Len(prestamosCSV) + 1 \in DOMAIN prestamosCSV'
          /\ prestamosCSV'[Len(prestamosCSV) + 1] =
               [usuario |-> orden[q].usuario, isbn |-> orden[q].isbn]
      BY <2>2, <3>1 DEF CsvPrestamo
    <3> QED
      BY <3>1, <3>2 DEF ConLinea, De
  <2>3. (pc[q] = "csv_historial" /\ orden'[q] = orden[q]) \/ CsvPrestamo(q)
    BY <1>4, AlAnotar
  <2> QED
    BY <2>1, <2>2, <2>3
<1>5. Respaldadas(historialCSV)' /\ Respaldadas(tempHistorial)'
  BY <1>1, <1>2, <1>m DEF Respaldadas
<1>6. ASSUME NEW q \in Procesos
      PROVE  Respaldadas(copiaHistorial[q])'
  BY <1>3, <1>m DEF Respaldadas
<1>7. \A q \in Procesos : pc'[q] = "csv_historial" => ConLinea(orden[q].usuario, orden[q].isbn)'
  BY <1>4
<1> QED
  BY <1>5, <1>6, <1>7 DEF Respaldado

Devolvible(u, i) ==
  \/ \E r \in prestamosBD : De(r, u, i)
  \/ Devolviendo(u, i)
  \/ <<u, i>> \in cortadas

(***************************************************************************)
(* ActivoDevolvible, and the row that step 5 of a loan relies on.          *)
(***************************************************************************)
ActivosOK ==
  /\ ActivoDevolvible
  /\ pc[Servidor] = "pedir_historial" =>
       \E r \in prestamosBD : De(r, orden[Servidor].usuario, orden[Servidor].isbn)

LEMMA ActivosSiNadaSePierde ==
  ASSUME ActivosOK,
         \A h \in historialBD' : h.estado = ACTIVO => h \in historialBD,
         \A u, i : Devolvible(u, i) => Devolvible(u, i)',
         pc'[Servidor] = "pedir_historial" =>
           \E r \in prestamosBD' : De(r, orden'[Servidor].usuario, orden'[Servidor].isbn)
  PROVE  ActivosOK'
BY DEF ActivosOK, ActivoDevolvible, Devolvible

LEMMA ActivosServidor ==
  ASSUME TypeOK, OrdenOK, FilasOK, ActivosOK, PasoServidor
  PROVE  ActivosOK'
<1>0. ProcesoOK /\ Servidor \in Procesos
  BY DEF TypeOK, ProcesoOK, Procesos
<1>1. cortadas' = cortadas
  BY DEF PasoServidor, PedirRemoto, PedirRestar, PedirPrestamo, PedirHistorial,
         DevolverRemoto, DevolverBorrar, DevolverSumar, DevolverHistorial, historia
<1>2. ASSUME NEW u \in Usuarios, NEW i \in Pedibles, PedirRemoto(u, i) \/ DevolverRemoto(u, i)
      PROVE  ActivosOK'
  <2>1. pc[Servidor] = "esperando" /\ pc'[Servidor] # "pedir_historial"
    BY <1>0, <1>2 DEF PedirRemoto, DevolverRemoto, Empieza, Termina, ProcesoOK
  <2>2. UNCHANGED <<prestamosBD, historialBD>>
    BY <1>2 DEF PedirRemoto, DevolverRemoto, bd
  <2>3. \A v, j : Devolvible(v, j) => Devolvible(v, j)'
    BY <1>1, <2>1, <2>2 DEF Devolvible, Devolviendo
  <2> QED
    BY <2>1, <2>2, <2>3, ActivosSiNadaSePierde
<1>3. CASE PedirRestar
  <2>1. pc[Servidor] = "pedir_restar" /\ pc'[Servidor] = "pedir_prestamo"
    BY <1>0, <1>3 DEF PedirRestar, Sigue, ProcesoOK
  <2>2. UNCHANGED <<prestamosBD, historialBD>>
    BY <1>3 DEF PedirRestar
  <2>3. \A v, j : Devolvible(v, j) => Devolvible(v, j)'
    BY <1>1, <2>1, <2>2 DEF Devolvible, Devolviendo
  <2> QED
    BY <2>1, <2>2, <2>3, ActivosSiNadaSePierde
<1>4. CASE PedirPrestamo
  <2> DEFINE fila == [id |-> siguienteID, usuario |-> orden[Servidor].usuario,
                      isbn |-> orden[Servidor].isbn]
  <2>1. pc[Servidor] = "pedir_prestamo" /\ orden' = orden
    BY <1>4 DEF PedirPrestamo, Sigue
  <2>2. prestamosBD' = prestamosBD \cup {fila} /\ historialBD' = historialBD
    BY <1>4 DEF PedirPrestamo
  <2>3. De(fila, orden'[Servidor].usuario, orden'[Servidor].isbn)
    BY <2>1 DEF De
  <2>4. \A v, j : Devolvible(v, j) => Devolvible(v, j)'
    BY <1>1, <2>1, <2>2 DEF Devolvible, Devolviendo
  <2> QED
    BY <2>2, <2>3, <2>4, ActivosSiNadaSePierde
<1>5. CASE PedirHistorial
  <2> DEFINE u == orden[Servidor].usuario
             i == orden[Servidor].isbn
             fila == [usuario |-> u, isbn |-> i, fecha |-> hoy, estado |-> ACTIVO]
  <2>1. /\ pc[Servidor] = "pedir_historial"
        /\ pc'[Servidor] \notin {"pedir_historial", "devolver_sumar", "devolver_historial"}
    BY <1>0, <1>5 DEF PedirHistorial, Sigue, Termina, ProcesoOK
  <2>2. prestamosBD' = prestamosBD /\ historialBD' \subseteq historialBD \cup {fila}
    BY <1>5 DEF PedirHistorial
  <2>3. PICK r \in prestamosBD : De(r, u, i)
    BY <2>1 DEF ActivosOK
  <2>4. \A v, j : Devolvible(v, j) => Devolvible(v, j)'
    BY <1>1, <2>1, <2>2 DEF Devolvible, Devolviendo
  <2>5. ASSUME NEW h \in historialBD', h.estado = ACTIVO
        PROVE  Devolvible(h.usuario, h.isbn)'
    <3>1. CASE h \in historialBD
      BY <2>4, <2>5, <3>1 DEF ActivosOK, ActivoDevolvible, Devolvible
    <3>2. CASE h = fila
      BY <2>2, <2>3, <3>2 DEF Devolvible, De
    <3> QED
      BY <2>2, <2>5, <3>1, <3>2
  <2> QED
    BY <2>1, <2>5 DEF ActivosOK, ActivoDevolvible, Devolvible
<1>6. CASE DevolverBorrar
  <2> DEFINE u == orden[Servidor].usuario
             i == orden[Servidor].isbn
  <2>1. pc[Servidor] = "devolver_borrar" /\ pc'[Servidor] = "devolver_sumar" /\ orden' = orden
    BY <1>0, <1>6 DEF DevolverBorrar, Sigue, ProcesoOK
  <2>2. PICK fila \in prestamosBD : fila.id = orden[Servidor].fila /\ De(fila, u, i)
    BY <2>1 DEF FilasOK
  <2>3. prestamosBD' = prestamosBD \ {fila} /\ historialBD' = historialBD
    BY <1>6, <2>2 DEF DevolverBorrar, FilasOK
  <2>4. Devolviendo(u, i)'
    BY <2>1 DEF Devolviendo, De
  <2>5. \A v, j : Devolvible(v, j) => Devolvible(v, j)'
    BY <1>1, <2>1, <2>2, <2>3, <2>4 DEF Devolvible, Devolviendo, De
  <2> QED
    BY <2>1, <2>3, <2>5, ActivosSiNadaSePierde
<1>7. CASE DevolverSumar
  <2>1. pc[Servidor] = "devolver_sumar" /\ pc'[Servidor] = "devolver_historial" /\ orden' = orden
    BY <1>0, <1>7 DEF DevolverSumar, Sigue, ProcesoOK
  <2>2. UNCHANGED <<prestamosBD, historialBD>>
    BY <1>7 DEF DevolverSumar
  <2>3. \A v, j : Devolvible(v, j) => Devolvible(v, j)'
    BY <1>1, <2>1, <2>2 DEF Devolvible, Devolviendo
  <2> QED
    BY <2>1, <2>2, <2>3, ActivosSiNadaSePierde
<1>8. CASE DevolverHistorial
  <2> DEFINE u == orden[Servidor].usuario
             i == orden[Servidor].isbn
  <2>1. pc[Servidor] = "devolver_historial" /\ pc'[Servidor] = "csv_devolver" /\ orden' = orden
    BY <1>0, <1>8 DEF DevolverHistorial, Sigue, ProcesoOK
  <2>2. prestamosBD' = prestamosBD /\ historialBD' = {Cerrada(r, u, i) : r \in historialBD}
    BY <1>8 DEF DevolverHistorial
  <2>3. ASSUME NEW h \in historialBD', h.estado = ACTIVO
        PROVE  h \in historialBD /\ ~ De(h, u, i)
    <3>1. PICK r \in historialBD : h = Cerrada(r, u, i)
      BY <2>2, <2>3
    <3>2. r \in FilaHistorial
      BY DEF TypeOK
    <3>3. CASE SeCierra(r, u, i)
      <4>1. h = [r EXCEPT !.estado = Veredicto(r.fecha)]
        BY <3>1, <3>3 DEF Cerrada
      <4>2. h.estado \in {DEVUELTO, ATRASADO}
        BY <3>2, <4>1 DEF FilaHistorial, Veredicto
      <4> QED
        BY <2>3, <4>2 DEF ACTIVO, DEVUELTO, ATRASADO
    <3>4. CASE ~ SeCierra(r, u, i)
      BY <2>3, <3>1, <3>4 DEF Cerrada, SeCierra
    <3> QED
      BY <3>3, <3>4
  <2>4. ASSUME NEW h \in historialBD', h.estado = ACTIVO
        PROVE  Devolvible(h.usuario, h.isbn)'
    <3>1. Devolvible(h.usuario, h.isbn)
      BY <2>3, <2>4 DEF ActivosOK, ActivoDevolvible, Devolvible
    <3>2. ~ Devolviendo(h.usuario, h.isbn)
      BY <2>3, <2>4 DEF Devolviendo, De
    <3> QED
      BY <1>1, <2>2, <3>1, <3>2 DEF Devolvible
  <2> QED
    BY <2>1, <2>4 DEF ActivosOK, ActivoDevolvible, Devolvible
<1> QED
  BY <1>2, <1>3, <1>4, <1>5, <1>6, <1>7, <1>8 DEF PasoServidor

LEMMA ActivosArrancar ==
  ASSUME TypeOK, Respaldado, NEW p \in Procesos, p # Servidor, Arrancar(p)
  PROVE  ActivosOK'
<1>1. pc'[Servidor] # "pedir_historial"
  <2>1. pc'[Servidor] = pc[Servidor]
    BY DEF Arrancar, TypeOK
  <2> QED
    BY <2>1 DEF Arrancar, EnCurso, PasosBD
<1>2. ASSUME NEW h \in historialBD'
      PROVE  \E r \in prestamosBD' : De(r, h.usuario, h.isbn)
  <2>1. PICK k \in DOMAIN historialCSV : h = historialCSV[k]
    BY <1>2 DEF Arrancar
  <2>2. PICK j \in DOMAIN prestamosCSV : De(prestamosCSV[j], h.usuario, h.isbn)
    BY <2>1 DEF Respaldado, Respaldadas, ConLinea
  <2> DEFINE fila == [id |-> j, usuario |-> prestamosCSV[j].usuario,
                      isbn |-> prestamosCSV[j].isbn]
  <2>3. fila \in prestamosBD'
    BY DEF Arrancar
  <2>4. De(fila, h.usuario, h.isbn)
    BY <2>2 DEF De
  <2> QED
    BY <2>3, <2>4
<1> QED
  BY <1>1, <1>2 DEF ActivosOK, ActivoDevolvible

LEMMA ActivosInterrupcion ==
  ASSUME TypeOK, OrdenOK, ActivosOK, NEW p \in Procesos,
         Fallo(p) \/ FalloAlAbrir(p) \/ Caida(p)
  PROVE  ActivosOK'
<1>1. UNCHANGED <<prestamosBD, historialBD>> /\ cortadas \subseteq cortadas'
  BY MarcoFallo DEF Interrumpe, bd
<1>2. CASE p # Servidor
  <2>1. pc'[Servidor] = pc[Servidor] /\ orden'[Servidor] = orden[Servidor]
    BY <1>2, InterrupcionBD
  <2>2. \A v, j : Devolvible(v, j) => Devolvible(v, j)'
    BY <1>1, <2>1 DEF Devolvible, Devolviendo
  <2> QED
    BY <1>1, <2>1, <2>2, ActivosSiNadaSePierde DEF ActivosOK
<1>3. CASE p = Servidor
  <2>1. pc'[Servidor] = "esperando"
    BY <1>3, InterrupcionBD
  <2>2. ASSUME NEW v, NEW j, Devolviendo(v, j)
        PROVE  <<v, j>> \in cortadas'
    <3>1. cortadas' = cortadas \cup {<<orden[Servidor].usuario, orden[Servidor].isbn>>}
      BY <1>3, <2>2, MarcoFallo DEF Interrumpe, Devolviendo
    <3> QED
      BY <2>2, <3>1 DEF Devolviendo, De
  <2>3. \A v, j : Devolvible(v, j) => Devolvible(v, j)'
    BY <1>1, <2>2 DEF Devolvible
  <2> QED
    BY <1>1, <2>1, <2>3, ActivosSiNadaSePierde
<1> QED
  BY <1>2, <1>3

(***************************************************************************)
(* An active loan can be returned, unless a return of it is under way or   *)
(* was cut short.                                                          *)
(***************************************************************************)
THEOREM ActivosDevolvibles == Spec => []ActivoDevolvible
<1>1. Init => Respaldado /\ ActivosOK
  BY DEF Init, Respaldado, Respaldadas, ActivosOK, ActivoDevolvible, Procesos
<1>2. TypeOK /\ OrdenOK /\ FilasOK /\ Respaldado /\ ActivosOK /\ [Next]_vars
        => (Respaldado /\ ActivosOK)'
  <2> SUFFICES ASSUME TypeOK, OrdenOK, FilasOK, Respaldado, ActivosOK, [Next]_vars
               PROVE  Respaldado' /\ ActivosOK'
    OBVIOUS
  <2>1. Respaldado'
    BY RespaldadoPaso
  <2>2. ASSUME NEW p \in Procesos,
               \/ PasoCSV(p)
               \/ p \in Consolas /\ Salir(p)
               \/ p \in Consolas /\ \E u \in Usuarios, i \in Pedibles : MenuPrincipal(p, u, i)
               \/ PasaDia
               \/ UNCHANGED vars
        PROVE  ActivosOK'
    <3>1. /\ BDQuieta
          /\ pc'[Servidor] \notin PasosBD => pc[Servidor] \notin PasosBD
      BY <2>2, FueraDeBD
    <3>2. UNCHANGED <<historialBD, cortadas>>
      BY <2>2, MarcoCSV DEF Salir, MenuPrincipal, PasaDia, vars, bd, historia
    <3>3. \A v, j : Devolvible(v, j) => Devolvible(v, j)'
      BY <3>1, <3>2 DEF BDQuieta, Devolvible, Devolviendo, PasosBD
    <3> QED
      BY <3>1, <3>2, <3>3, ActivosSiNadaSePierde DEF BDQuieta, ActivosOK, PasosBD
  <2>3. ASSUME NEW p \in Consolas, PasoConsola(p)
        PROVE  ActivosOK'
    <3>1. p \in Procesos /\ p # Servidor
      BY ConstantesOK DEF Procesos
    <3> QED
      BY <2>2, <2>3, <3>1, ActivosArrancar DEF PasoConsola
  <2>4. ASSUME PasaDia \/ UNCHANGED vars
        PROVE  ActivosOK'
    <3>1. Servidor \in Procesos
      BY DEF Procesos
    <3> QED
      BY <2>2, <2>4, <3>1
  <2>5. ASSUME NEW p \in Procesos, PasoCSV(p) \/ Fallo(p) \/ FalloAlAbrir(p) \/ Caida(p)
        PROVE  ActivosOK'
    BY <2>2, <2>5, ActivosInterrupcion
  <2> QED
    BY <2>1, <2>3, <2>4, <2>5, ActivosServidor DEF Next
<1>3. ActivosOK => ActivoDevolvible
  BY DEF ActivosOK
<1> QED
  BY <1>1, <1>2, <1>3, FilasBienFormadas, PTL DEF Spec

-----------------------------------------------------------------------------
(* What the server has done before it goes to the files *)

ConFila(u, i)   == \E r \in prestamosBD : De(r, u, i)
ConActivo(u, i) == \E h \in historialBD : Activo(h, u, i)

\* While the server works on a loan, or on a return, of the book by that user.
Encaminado(u, i) ==
  /\ pc[Servidor] \in {"pedir_historial", "csv_pedir", "csv_prestamo", "csv_historial"} =>
       ConFila(u, i)
  /\ pc[Servidor] \in {"csv_pedir", "csv_prestamo", "csv_historial"} => ConActivo(u, i)
  /\ pc[Servidor] \in {"csv_devolver", "csv_cierre"} => ~ ConActivo(u, i)

EnCamino == Encaminado(orden[Servidor].usuario, orden[Servidor].isbn)

LEMMA CaminoAjeno ==
  ASSUME pc'[Servidor] \notin {"pedir_historial", "csv_pedir", "csv_prestamo", "csv_historial",
                               "csv_devolver", "csv_cierre"}
  PROVE  EnCamino'
BY DEF EnCamino, Encaminado

LEMMA CaminoQuieto ==
  ASSUME EnCamino, UNCHANGED <<prestamosBD, historialBD>>,
         orden'[Servidor].usuario = orden[Servidor].usuario,
         orden'[Servidor].isbn = orden[Servidor].isbn,
         \/ pc'[Servidor] = pc[Servidor]
         \/ {pc[Servidor], pc'[Servidor]} \subseteq {"csv_pedir", "csv_prestamo", "csv_historial"}
         \/ {pc[Servidor], pc'[Servidor]} \subseteq {"csv_devolver", "csv_cierre"}
  PROVE  EnCamino'
<1> DEFINE u == orden[Servidor].usuario
           i == orden[Servidor].isbn
<1>1. Encaminado(u, i)
  BY DEF EnCamino
<1>2. (EnCamino)' <=> (\A v, j : v = u /\ j = i => (Encaminado(v, j))')
  BY DEF EnCamino, Encaminado, ConFila, ConActivo
<1> HIDE DEF u, i
<1>3. ASSUME NEW v, NEW j, v = u, j = i
      PROVE  (Encaminado(v, j))'
  BY <1>1, <1>3 DEF Encaminado, ConFila, ConActivo
<1> QED
  BY <1>2, <1>3

\* A return closes every active loan of the book by that user, and only those.
LEMMA SoloCierra ==
  ASSUME hoy \in Nat, NEW r \in FilaHistorial, NEW u, NEW i
  PROVE  /\ Cerrada(r, u, i).estado = ACTIVO <=> r.estado = ACTIVO /\ ~ De(r, u, i)
         /\ Cerrada(r, u, i).usuario = r.usuario /\ Cerrada(r, u, i).isbn = r.isbn
         /\ Cerrada(r, u, i).fecha = r.fecha
         /\ ~ De(r, u, i) => Cerrada(r, u, i) = r
<1>1. CASE SeCierra(r, u, i)
  <2>1. Cerrada(r, u, i) = [r EXCEPT !.estado = Veredicto(r.fecha)]
    BY <1>1 DEF Cerrada
  <2>2. Veredicto(r.fecha) # ACTIVO
    BY DEF Veredicto, ACTIVO, DEVUELTO, ATRASADO
  <2> QED
    BY <1>1, <2>1, <2>2 DEF SeCierra, FilaHistorial
<1>2. CASE ~ SeCierra(r, u, i)
  BY <1>2 DEF Cerrada, SeCierra
<1> QED
  BY <1>1, <1>2

\* So does one on some day.
LEMMA LineasCerradas ==
  ASSUME NEW r \in FilaHistorial, NEW u, NEW i, NEW c \in Cerradas(r, u, i)
  PROVE  /\ c.estado = ACTIVO => r.estado = ACTIVO /\ ~ De(r, u, i) /\ c = r
         /\ c.usuario = r.usuario /\ c.isbn = r.isbn /\ c.fecha = r.fecha
         /\ De(r, u, i) => ~ (De(c, u, i) /\ c.estado = ACTIVO)
BY DEF Cerradas, SeCierra, FilaHistorial, ACTIVO, DEVUELTO, ATRASADO

LEMMA CaminoServidor ==
  ASSUME TypeOK, OrdenOK, EnCamino, PasoServidor
  PROVE  EnCamino'
<1> DEFINE u == orden[Servidor].usuario
           i == orden[Servidor].isbn
<1>0. ProcesoOK /\ Servidor \in Procesos
  BY DEF TypeOK, ProcesoOK, Procesos
<1>1. ASSUME NEW v \in Usuarios, NEW j \in Pedibles, PedirRemoto(v, j) \/ DevolverRemoto(v, j)
      PROVE  EnCamino'
  <2>1. pc'[Servidor] \in {"pedir_restar", "devolver_borrar", "esperando"}
    BY <1>0, <1>1 DEF PedirRemoto, DevolverRemoto, Empieza, Termina, ProcesoOK
  <2> QED
    BY <2>1, CaminoAjeno
<1>2. CASE PedirRestar \/ DevolverBorrar \/ DevolverSumar
  <2>1. pc'[Servidor] \in {"pedir_prestamo", "devolver_sumar", "devolver_historial"}
    BY <1>0, <1>2 DEF PedirRestar, DevolverBorrar, DevolverSumar, Sigue, ProcesoOK
  <2> QED
    BY <2>1, CaminoAjeno
<1>3. CASE PedirPrestamo
  <2>1. pc'[Servidor] = "pedir_historial" /\ orden' = orden
    BY <1>0, <1>3 DEF PedirPrestamo, Sigue, ProcesoOK
  <2>2. [id |-> siguienteID, usuario |-> u, isbn |-> i] \in prestamosBD'
    BY <1>3 DEF PedirPrestamo
  <2>3. De([id |-> siguienteID, usuario |-> u, isbn |-> i], u, i)
    BY DEF De
  <2> QED
    BY <2>1, <2>2, <2>3 DEF EnCamino, Encaminado, ConFila
<1>4. CASE PedirHistorial
  <2> DEFINE fila == [usuario |-> u, isbn |-> i, fecha |-> hoy, estado |-> ACTIVO]
  <2>1. CASE ~ ClaveOcupada(fila) /\ historialBD' = historialBD \cup {fila} /\ Sigue(Servidor, "csv_pedir")
    <3>1. pc'[Servidor] = "csv_pedir" /\ orden' = orden /\ pc[Servidor] = "pedir_historial"
          /\ prestamosBD' = prestamosBD
      BY <1>0, <1>4, <2>1 DEF PedirHistorial, Sigue, ProcesoOK
    <3>2. Activo(fila, u, i) /\ fila \in historialBD'
      BY <2>1 DEF Activo, De
    <3>3. ConFila(u, i)
      BY <3>1 DEF EnCamino, Encaminado
    <3> QED
      BY <3>1, <3>2, <3>3 DEF EnCamino, Encaminado, ConFila, ConActivo
  <2>2. CASE Termina(Servidor, "esperando", "error")
    <3>1. pc'[Servidor] = "esperando"
      BY <1>0, <2>2 DEF Termina, ProcesoOK
    <3> QED
      BY <3>1, CaminoAjeno
  <2> QED
    BY <1>4, <2>1, <2>2 DEF PedirHistorial
<1>5. CASE DevolverHistorial
  <2>1. /\ pc'[Servidor] = "csv_devolver" /\ orden' = orden
        /\ historialBD' = {Cerrada(r, u, i) : r \in historialBD}
    BY <1>0, <1>5 DEF DevolverHistorial, Sigue, ProcesoOK
  <2>2. ASSUME NEW h \in historialBD'
        PROVE  ~ Activo(h, u, i)
    <3>1. PICK r \in historialBD : h = Cerrada(r, u, i)
      BY <2>1
    <3>2. r \in FilaHistorial /\ hoy \in Nat
      BY DEF TypeOK
    <3> HIDE DEF u, i
    <3> QED
      BY <3>1, <3>2, SoloCierra DEF Activo, De
  <2> QED
    BY <2>1, <2>2 DEF EnCamino, Encaminado, ConActivo
<1> QED
  BY <1>1, <1>2, <1>3, <1>4, <1>5 DEF PasoServidor

LEMMA CaminoCSV ==
  ASSUME TypeOK, OrdenOK, EnCamino, NEW p \in Procesos, PasoCSV(p)
  PROVE  EnCamino'
<1>0. ProcesoOK /\ Servidor \in Procesos
  BY DEF TypeOK, ProcesoOK, Procesos
<1>1. UNCHANGED <<prestamosBD, historialBD>>
  BY MarcoCSV DEF bd
<1>2. CASE p # Servidor
  <2>1. pc'[Servidor] = pc[Servidor] /\ orden'[Servidor] = orden[Servidor]
    BY <1>0, <1>2, MarcoCSV DEF OtrosQuietos
  <2> QED
    BY <1>1, <2>1, CaminoQuieto
<1>3. CASE p = Servidor
  <2>1. CASE pc'[Servidor] = "esperando"
    BY <2>1, CaminoAjeno
  <2>2. CASE pc'[Servidor] # "esperando"
    <3>1. /\ \/ pc'[Servidor] = pc[Servidor]
             \/ pc[Servidor] = "csv_pedir" /\ pc'[Servidor] = "csv_prestamo"
             \/ pc[Servidor] = "csv_prestamo" /\ pc'[Servidor] = "csv_historial"
             \/ pc[Servidor] = "csv_devolver" /\ pc'[Servidor] = "csv_cierre"
          /\ orden' = orden \/ orden' = [orden EXCEPT ![Servidor].fecha = hoy]
      BY <1>0, <1>3, <2>2
         DEF PasoCSV, CsvPedir, CsvPrestamo, CsvHistorial, CsvDevolver, CsvCierre,
             Cerrar, Borrar, Renombrar, Prosigue, Quitar, NoSeAbre, Copia,
             Sigue, Avanza, Termina, Reposo, ProcesoOK
    <3>2. /\ orden'[Servidor].usuario = orden[Servidor].usuario
          /\ orden'[Servidor].isbn = orden[Servidor].isbn
      BY <1>0, <3>1 DEF ProcesoOK, Orden
    <3> QED
      BY <1>1, <3>1, <3>2, CaminoQuieto
  <2> QED
    BY <2>1, <2>2
<1> QED
  BY <1>2, <1>3

LEMMA CaminoPaso ==
  ASSUME TypeOK, OrdenOK, EnCamino, [Next]_vars
  PROVE  EnCamino'
<1>0. ProcesoOK /\ Servidor \in Procesos /\ Servidor \notin Consolas /\ Consolas \subseteq Procesos
  BY ConstantesOK DEF TypeOK, ProcesoOK, Procesos
<1>1. CASE PasoServidor
  BY <1>1, CaminoServidor
<1>2. ASSUME NEW p \in Procesos, PasoCSV(p)
      PROVE  EnCamino'
  BY <1>2, CaminoCSV
<1>3. ASSUME NEW p \in Procesos, Fallo(p) \/ FalloAlAbrir(p) \/ Caida(p)
      PROVE  EnCamino'
  <2>1. UNCHANGED <<prestamosBD, historialBD>>
    BY <1>3, MarcoFallo DEF Interrumpe, bd
  <2>2. CASE p = Servidor
    BY <1>3, <2>2, InterrupcionBD, CaminoAjeno
  <2>3. CASE p # Servidor
    BY <1>3, <2>1, <2>3, InterrupcionBD, CaminoQuieto
  <2> QED
    BY <2>2, <2>3
<1>4. ASSUME NEW p \in Consolas, PasoConsola(p)
      PROVE  EnCamino'
  <2>1. CASE Arrancar(p)
    <3>1. pc'[Servidor] = pc[Servidor] /\ ~ EnCurso(Servidor)
      BY <1>0, <2>1 DEF Arrancar, ProcesoOK
    <3> QED
      BY <3>1, CaminoAjeno DEF EnCurso, PasosBD, PasosCSV
  <2>2. CASE Salir(p) \/ \E u \in Usuarios, i \in Pedibles : MenuPrincipal(p, u, i)
    <3>1. /\ pc'[Servidor] = pc[Servidor] /\ orden'[Servidor] = orden[Servidor]
          /\ UNCHANGED <<prestamosBD, historialBD>>
      BY <1>0, <2>2 DEF Salir, MenuPrincipal, Empieza, ProcesoOK, bd
    <3> QED
      BY <3>1, CaminoQuieto
  <2> QED
    BY <1>4, <2>1, <2>2 DEF PasoConsola
<1>5. CASE PasaDia \/ UNCHANGED vars
  BY <1>5, CaminoQuieto DEF PasaDia, vars, bd, proceso
<1> QED
  BY <1>1, <1>2, <1>3, <1>4, <1>5 DEF Next

(***************************************************************************)
(* When the server answers yes to a loan, the four places have it; to a    *)
(* return, neither history has it active, that of the file unless another  *)
(* process has worked on it (RespuestaVeraz).                              *)
(***************************************************************************)
THEOREM RespuestasVeraces == Spec => RespuestaVeraz
<1>1. ASSUME TypeOK, OrdenOK, Ordenados, Respaldado, EnCamino, [Next]_vars,
             resultado'[Servidor] = "ok", resultado[Servidor] # "ok"
      PROVE  \/ pc[Servidor] = "csv_historial" /\ EnLosCuatro(orden[Servidor].usuario, orden[Servidor].isbn)
             \/ pc[Servidor] = "csv_cierre" /\ Cerrado(orden[Servidor].usuario, orden[Servidor].isbn)
  <2> DEFINE u == orden[Servidor].usuario
             i == orden[Servidor].isbn
  <2>0. /\ ProcesoOK /\ Servidor \in Procesos /\ Servidor \notin Consolas /\ Consolas \subseteq Procesos
        /\ historialCSV \in Seq(FilaHistorial) /\ hoy \in Nat
    BY <1>1, ConstantesOK DEF TypeOK, ProcesoOK, Procesos
  <2>1. \/ CsvHistorial(Servidor)
        \/ Renombrar(Servidor) /\ pc[Servidor] = "csv_cierre"
    <3>1. CASE PasoServidor
      BY <1>1, <2>0, <3>1 DEF PasoServidor, PedirRemoto, PedirRestar, PedirPrestamo, PedirHistorial,
             DevolverRemoto, DevolverBorrar, DevolverSumar, DevolverHistorial, Empieza, Sigue, Termina,
             ProcesoOK
    <3>2. ASSUME NEW p \in Procesos, PasoCSV(p)
          PROVE  \/ CsvHistorial(Servidor)
                 \/ Renombrar(Servidor) /\ pc[Servidor] = "csv_cierre"
      <4>1. p = Servidor
        BY <1>1, <2>0, <3>2, MarcoCSV DEF OtrosQuietos
      <4>2. ~ (\/ CsvPedir(p) \/ CsvPrestamo(p) \/ CsvDevolver(p) \/ CsvCierre(p)
               \/ Cerrar(p) \/ Borrar(p) \/ Quitar(p))
        BY <1>1, <2>0, <4>1
           DEF CsvPedir, CsvPrestamo, CsvDevolver, CsvCierre, Cerrar, Borrar, Quitar,
               NoSeAbre, Copia, Avanza, Termina, ProcesoOK
      <4>3. Renombrar(p) => pc[p] = "csv_cierre"
        BY <1>1, <2>0, <4>1 DEF Renombrar, Prosigue, Sigue, Termina, ProcesoOK
      <4> QED
        BY <3>2, <4>1, <4>2, <4>3 DEF PasoCSV
    <3>3. ASSUME NEW p \in Procesos, Fallo(p) \/ FalloAlAbrir(p) \/ Caida(p)
          PROVE  FALSE
      BY <1>1, <2>0, <3>3, MarcoFallo DEF OtrosQuietos
    <3>4. ASSUME NEW p \in Consolas, PasoConsola(p)
          PROVE  FALSE
      BY <1>1, <2>0, <3>4 DEF PasoConsola, Arrancar, Salir, MenuPrincipal, Empieza, ProcesoOK
    <3>5. ~ (PasaDia \/ UNCHANGED vars)
      BY <1>1 DEF PasaDia, vars, proceso
    <3> QED
      BY <1>1, <3>1, <3>2, <3>3, <3>4, <3>5 DEF Next
  <2>2. CASE CsvHistorial(Servidor)
    <3> DEFINE linea == [usuario |-> u, isbn |-> i, fecha |-> orden[Servidor].fecha, estado |-> ACTIVO]
    <3>1. /\ pc[Servidor] = "csv_historial"
          /\ UNCHANGED <<prestamosBD, historialBD, prestamosCSV>>
      BY <2>2 DEF CsvHistorial, bd
    <3>2. ConFila(u, i) /\ ConActivo(u, i)
      BY <1>1, <3>1 DEF EnCamino, Encaminado
    <3>3. ConLinea(u, i)
      BY <1>1, <2>0, <3>1 DEF Respaldado
    <3>4. PICK t \in {historialCSV, << >>} : historialCSV' = Append(t, linea)
      BY <2>2 DEF CsvHistorial
    <3>5. Activo(linea, u, i)
      BY DEF Activo, De
    <3>6. \E k \in DOMAIN historialCSV' : Activo(historialCSV'[k], u, i)
      <4>1. << >> \in Seq(FilaHistorial)
        OBVIOUS
      <4>2. t \in Seq(FilaHistorial)
        BY <2>0, <3>4, <4>1
      <4> HIDE DEF linea
      <4>3. Len(t) + 1 \in DOMAIN historialCSV' /\ historialCSV'[Len(t) + 1] = linea
        BY <3>4, <4>2
      <4> QED
        BY <3>5, <4>3
    <3>7. /\ \E r \in prestamosBD' : De(r, u, i)
          /\ \E h \in historialBD' : Activo(h, u, i)
          /\ \E k \in DOMAIN prestamosCSV' : De(prestamosCSV'[k], u, i)
      BY <3>1, <3>2, <3>3 DEF ConFila, ConActivo, ConLinea
    <3> QED
      BY <3>1, <3>6, <3>7 DEF EnLosCuatro
  <2>3. CASE Renombrar(Servidor) /\ pc[Servidor] = "csv_cierre"
    <3>1. /\ pc[Servidor] = "csv_cierre" /\ UNCHANGED historialBD
          /\ "historial" \notin alterados =>
               EsCierre(historialCSV', orden[Servidor].usuario, orden[Servidor].isbn)
      <4>1. Fichero(Servidor) = "historial" /\ "historial" \in Archivos
        BY <2>3 DEF Fichero, Archivos
      <4> QED
        BY <1>1, <2>0, <2>3, <4>1, SolaLoInstala DEF Renombrar, bd
    <3>2. ~ ConActivo(u, i)
      BY <1>1, <3>1 DEF EnCamino, Encaminado
    <3> HIDE DEF u, i
    <3>3. ASSUME "historial" \notin alterados, NEW k \in DOMAIN historialCSV'
          PROVE  ~ Activo(historialCSV'[k], u, i)
      <4>1. /\ k \in DOMAIN historialCSV
            /\ historialCSV'[k] \in Cerradas(historialCSV[k], u, i)
        <5>1. historialCSV' \in Seq(FilaHistorial)
          BY <1>1, TiposPaso DEF TypeOK
        <5>2. EsCierre(historialCSV', u, i)
          BY <3>1, <3>3 DEF u, i
        <5>3. DOMAIN historialCSV' = DOMAIN historialCSV
          BY <2>0, <5>1, <5>2 DEF EsCierre
        <5> QED
          BY <3>3, <5>2, <5>3 DEF EsCierre
      <4>2. historialCSV[k] \in FilaHistorial
        BY <2>0, <4>1
      <4> QED
        BY <4>1, <4>2, LineasCerradas DEF Activo
    <3>4. Cerrado(u, i)
      BY <3>1, <3>2, <3>3 DEF Cerrado, ConActivo
    <3> QED
      BY <3>1, <3>4 DEF u, i
  <2> QED
    BY <2>1, <2>2, <2>3
<1>2. TypeOK /\ OrdenOK /\ Ordenados /\ Respaldado /\ EnCamino /\ [Next]_vars =>
        [LET u == orden[Servidor].usuario
             i == orden[Servidor].isbn
         IN  resultado'[Servidor] = "ok" /\ resultado[Servidor] # "ok" =>
               \/ pc[Servidor] = "csv_historial" /\ EnLosCuatro(u, i)
               \/ pc[Servidor] = "csv_cierre" /\ Cerrado(u, i)]_vars
  BY <1>1
<1>3. Init => Respaldado /\ EnCamino
  <2>1. Init => Respaldado
    BY DEF Init, Respaldado, Respaldadas, Procesos
  <2>2. Init => EnCamino
    BY DEF Init, EnCamino, Encaminado, Procesos
  <2> QED
    BY <2>1, <2>2
<1>4. TypeOK /\ OrdenOK /\ Respaldado /\ EnCamino /\ [Next]_vars => Respaldado' /\ EnCamino'
  BY RespaldadoPaso, CaminoPaso
<1> QED
  BY <1>2, <1>3, <1>4, Tipos, CadaCopiaEsFiel, PTL DEF Spec, RespuestaVeraz

-----------------------------------------------------------------------------
(* The two histories tell the same *)

\* The server has closed the loans in the database and not yet in the file.
PorCerrar(u, i) ==
  /\ pc[Servidor] \in {"csv_devolver", "csv_cierre"}
  /\ De(orden[Servidor], u, i)

(***************************************************************************)
(* HistorialesConcuerdan in every state, and what a loan at a console has  *)
(* left by the time its line is written.                                   *)
(***************************************************************************)
EnLosDos(k) ==
  \/ ConActivo(historialCSV[k].usuario, historialCSV[k].isbn)
  \/ deriva[historialCSV[k].isbn] > 0
  \/ ~ PrimeraDeSuClave(k)
  \/ historialCSV[k].isbn \notin DOMAIN librosCSV
  \/ PorCerrar(historialCSV[k].usuario, historialCSV[k].isbn)

DeLaConsola ==
  \A p \in Consolas : pc[p] \in {"csv_prestamo", "csv_historial"} => deriva[orden[p].isbn] > 0

Concuerdan ==
  fallos = 0 /\ alterados = {} =>
    /\ \A k \in DOMAIN historialCSV : historialCSV[k].estado = ACTIVO => EnLosDos(k)
    /\ DeLaConsola

\* Nothing between the database, the file and the server has changed for the worse.
LEMMA ConcuerdanSiguen ==
  ASSUME Concuerdan, fallos' = fallos, alterados \subseteq alterados',
         DOMAIN librosCSV' = DOMAIN librosCSV,
         DOMAIN historialCSV' = DOMAIN historialCSV,
         DOMAIN historialCSV = 1 .. Len(historialCSV), Len(historialCSV) \in Nat,
         \A k \in DOMAIN historialCSV :
           /\ historialCSV'[k].usuario = historialCSV[k].usuario
           /\ historialCSV'[k].isbn = historialCSV[k].isbn
           /\ historialCSV'[k].fecha = historialCSV[k].fecha
           /\ historialCSV'[k].estado = ACTIVO => historialCSV[k].estado = ACTIVO,
         \A k \in DOMAIN historialCSV :
           deriva[historialCSV[k].isbn] > 0 => deriva'[historialCSV[k].isbn] > 0,
         \A k \in DOMAIN historialCSV : historialCSV'[k].estado = ACTIVO =>
           \A u, i : /\ u = historialCSV[k].usuario
                     /\ i = historialCSV[k].isbn
                     /\ ConActivo(u, i) \/ PorCerrar(u, i)
                     => \/ (ConActivo(u, i))' \/ (PorCerrar(u, i))'
                        \/ i \notin DOMAIN librosCSV,
         DeLaConsola => DeLaConsola'
  PROVE  Concuerdan'
<1>1. \A k \in DOMAIN historialCSV : (PrimeraDeSuClave(k))' <=> PrimeraDeSuClave(k)
  <2>1. ASSUME NEW k \in DOMAIN historialCSV
        PROVE  (PrimeraDeSuClave(k))' <=> PrimeraDeSuClave(k)
    <3>1. 1 .. k - 1 \subseteq DOMAIN historialCSV
      OBVIOUS
    <3> QED
      BY <3>1 DEF PrimeraDeSuClave, MismaClave, De
  <2> QED
    BY <2>1
<1>a. alterados' = {} => alterados = {}
  OBVIOUS
<1>2. ASSUME fallos = 0, alterados' = {}, NEW k \in DOMAIN historialCSV, historialCSV'[k].estado = ACTIVO
      PROVE  (EnLosDos(k))'
  <2>1. PICK u, i : u = historialCSV[k].usuario /\ i = historialCSV[k].isbn
    OBVIOUS
  <2>2. \/ ConActivo(u, i) \/ deriva[i] > 0 \/ ~ PrimeraDeSuClave(k) \/ PorCerrar(u, i)
        \/ i \notin DOMAIN librosCSV
    BY <1>2, <1>a, <2>1 DEF Concuerdan, EnLosDos
  <2>3. \/ (ConActivo(u, i))' \/ deriva'[i] > 0 \/ ~ (PrimeraDeSuClave(k))' \/ (PorCerrar(u, i))'
        \/ i \notin DOMAIN librosCSV'
    BY <1>1, <1>2, <2>1, <2>2 DEF ConActivo, PorCerrar
  <2> QED
    BY <2>1, <2>3 DEF EnLosDos, ConActivo, PorCerrar
<1> QED
  BY <1>2, <1>a DEF Concuerdan

LEMMA LaHistoria ==
  ASSUME TypeOK
  PROVE  /\ historialCSV \in Seq(FilaHistorial) /\ Len(historialCSV) \in Nat
         /\ DOMAIN historialCSV = 1 .. Len(historialCSV)
         /\ \A k \in DOMAIN historialCSV : historialCSV[k] \in FilaHistorial
BY DEF TypeOK

LEMMA ConcuerdanServidor ==
  ASSUME TypeOK, OrdenOK, Concuerdan, PasoServidor
  PROVE  Concuerdan'
<1> DEFINE u == orden[Servidor].usuario
           i == orden[Servidor].isbn
<1>0. /\ ProcesoOK /\ Servidor \in Procesos /\ Servidor \notin Consolas /\ Consolas \subseteq Procesos
      /\ hoy \in Nat
  BY ConstantesOK DEF TypeOK, ProcesoOK, Procesos
<1>1. UNCHANGED <<historialCSV, librosCSV, deriva, alterados, fallos>>
  BY DEF PasoServidor, PedirRemoto, PedirRestar, PedirPrestamo, PedirHistorial, DevolverRemoto,
         DevolverBorrar, DevolverSumar, DevolverHistorial, csv, historia, cotas, Pide
<1>2. \A p \in Consolas : pc'[p] = pc[p] /\ orden'[p] = orden[p]
  BY <1>0 DEF PasoServidor, PedirRemoto, PedirRestar, PedirPrestamo, PedirHistorial, DevolverRemoto,
         DevolverBorrar, DevolverSumar, DevolverHistorial, Empieza, Sigue, Termina, ProcesoOK
<1>3. DeLaConsola => DeLaConsola'
  BY <1>1, <1>2 DEF DeLaConsola
<1>4. pc[Servidor] \notin {"csv_devolver", "csv_cierre"}
  BY DEF PasoServidor, PedirRemoto, PedirRestar, PedirPrestamo, PedirHistorial, DevolverRemoto,
         DevolverBorrar, DevolverSumar, DevolverHistorial
<1>5. ASSUME NEW v, NEW j, ConActivo(v, j)
      PROVE  (ConActivo(v, j))' \/ (PorCerrar(v, j))'
  <2>1. PICK h \in historialBD : Activo(h, v, j)
    BY <1>5 DEF ConActivo
  <2>2. CASE DevolverHistorial
    <3>1. /\ pc'[Servidor] = "csv_devolver" /\ orden' = orden
          /\ Cerrada(h, u, i) \in historialBD'
      BY <1>0, <2>2 DEF DevolverHistorial, Sigue, ProcesoOK
    <3>2. CASE De(h, u, i)
      BY <2>1, <3>1, <3>2 DEF PorCerrar, Activo, De
    <3>3. CASE ~ De(h, u, i)
      <4>1. h \in FilaHistorial
        BY DEF TypeOK
      <4>2. Cerrada(h, u, i) = h
        BY <1>0, <3>3, <4>1, SoloCierra
      <4> QED
        BY <2>1, <3>1, <4>2 DEF ConActivo
    <3> QED
      BY <3>2, <3>3
  <2>3. CASE ~ DevolverHistorial
    <3>1. historialBD \subseteq historialBD'
      BY <2>3 DEF PasoServidor, PedirRemoto, PedirRestar, PedirPrestamo, PedirHistorial, DevolverRemoto,
             DevolverBorrar, DevolverSumar, bd
    <3> QED
      BY <2>1, <3>1 DEF ConActivo
  <2> QED
    BY <2>2, <2>3
<1>6. \A v, j : ConActivo(v, j) \/ PorCerrar(v, j) => (ConActivo(v, j))' \/ (PorCerrar(v, j))'
  BY <1>4, <1>5 DEF PorCerrar
<1> QED
  BY <1>1, <1>3, <1>6, LaHistoria, ConcuerdanSiguen

(***************************************************************************)
(* A line that is added: the database has it active if the server adds it, *)
(* and a loan at a console has been counted.                               *)
(***************************************************************************)
LEMMA ConcuerdanHistorial ==
  ASSUME TypeOK, OrdenOK, Ordenados, EnCamino, Concuerdan,
         NEW p \in Procesos, CsvHistorial(p)
  PROVE  Concuerdan'
<1> SUFFICES ASSUME alterados' = {}
             PROVE  Concuerdan'
  BY DEF Concuerdan
<1>a. alterados = {}
  BY DEF CsvHistorial, Toca
<1> DEFINE linea == [usuario |-> orden[p].usuario, isbn |-> orden[p].isbn,
                     fecha |-> orden[p].fecha, estado |-> ACTIVO]
<1>0. /\ ProcesoOK /\ Servidor \in Procesos /\ Servidor \notin Consolas /\ Consolas \subseteq Procesos
      /\ Procesos = {Servidor} \cup Consolas
  BY ConstantesOK DEF TypeOK, ProcesoOK, Procesos
<1>1. /\ pc[p] = "csv_historial" /\ historialCSV' = Append(historialCSV, linea)
      /\ UNCHANGED <<historialBD, librosCSV, deriva, fallos>>
  BY AnexoEntero DEF CsvHistorial, bd, cotas
<1>2. /\ pc'[p] = Reposo(p) /\ \A q \in Procesos \ {p} : pc'[q] = pc[q] /\ orden'[q] = orden[q]
  BY <1>0 DEF CsvHistorial, Termina, ProcesoOK
<1>3. /\ DOMAIN historialCSV' = 1 .. Len(historialCSV) + 1
      /\ \A k \in 1 .. Len(historialCSV) : historialCSV'[k] = historialCSV[k]
      /\ historialCSV'[Len(historialCSV) + 1] = linea
      /\ \A k \in 1 .. Len(historialCSV) + 1 : k \in 1 .. Len(historialCSV) \/ k = Len(historialCSV) + 1
  BY <1>1, LaHistoria
<1>4. \A v, j : (ConActivo(v, j))' <=> ConActivo(v, j)
  BY <1>1 DEF ConActivo
<1>5. \A v, j : PorCerrar(v, j) => (PorCerrar(v, j))'
  BY <1>0, <1>1, <1>2 DEF PorCerrar
<1>6. \A k \in 1 .. Len(historialCSV) : (PrimeraDeSuClave(k))' <=> PrimeraDeSuClave(k)
  <2>1. ASSUME NEW k \in 1 .. Len(historialCSV)
        PROVE  (PrimeraDeSuClave(k))' <=> PrimeraDeSuClave(k)
    <3>1. 1 .. k - 1 \subseteq 1 .. Len(historialCSV)
      BY LaHistoria
    <3> QED
      BY <1>3, <3>1 DEF PrimeraDeSuClave, MismaClave, De
  <2> QED
    BY <2>1
<1>7. (DeLaConsola)' \/ fallos # 0
  <2>1. ASSUME fallos = 0, NEW q \in Consolas, pc'[q] \in {"csv_prestamo", "csv_historial"}
        PROVE  deriva'[orden'[q].isbn] > 0
    <3>1. q # p
      BY <1>2, <2>1 DEF Reposo
    <3> QED
      BY <1>0, <1>1, <1>2, <1>a, <2>1, <3>1 DEF Concuerdan, DeLaConsola
  <2> QED
    BY <2>1 DEF DeLaConsola
<1>8. ASSUME fallos = 0, NEW k \in DOMAIN historialCSV', historialCSV'[k].estado = ACTIVO
      PROVE  (EnLosDos(k))'
  <2>1. CASE k \in 1 .. Len(historialCSV)
    <3>1. EnLosDos(k) /\ historialCSV'[k] = historialCSV[k]
      BY <1>3, <1>8, <1>a, <2>1, LaHistoria DEF Concuerdan
    <3>2. PICK v, j : v = historialCSV[k].usuario /\ j = historialCSV[k].isbn
      OBVIOUS
    <3>3. \/ (ConActivo(v, j))' \/ deriva'[j] > 0 \/ ~ (PrimeraDeSuClave(k))'
          \/ (PorCerrar(v, j))' \/ j \notin DOMAIN librosCSV'
      BY <1>1, <1>4, <1>5, <1>6, <2>1, <3>1, <3>2 DEF EnLosDos
    <3> QED
      BY <3>1, <3>2, <3>3 DEF EnLosDos, ConActivo, PorCerrar
  <2>2. CASE k = Len(historialCSV) + 1
    <3>1. historialCSV'[k] = linea
      BY <1>3, <2>2
    <3>2. CASE p = Servidor
      <4>1. ConActivo(linea.usuario, linea.isbn)
        BY <1>1, <3>2 DEF EnCamino, Encaminado
      <4> QED
        BY <1>1, <3>1, <4>1 DEF EnLosDos, ConActivo
    <3>3. CASE p # Servidor
      <4>1. p \in Consolas
        BY <1>0, <3>3
      <4>2. deriva'[linea.isbn] > 0
        BY <1>1, <1>8, <1>a, <4>1 DEF Concuerdan, DeLaConsola
      <4> QED
        BY <3>1, <4>2 DEF EnLosDos
    <3> QED
      BY <3>2, <3>3
  <2> QED
    BY <1>3, <1>8, <2>1, <2>2
<1> QED
  BY <1>1, <1>7, <1>8 DEF Concuerdan

(***************************************************************************)
(* A return of the server goes on to its end while nobody else works on    *)
(* the files, unless the book is not in libros.csv.                        *)
(***************************************************************************)
LEMMA LaDevolucionSigue ==
  ASSUME TypeOK, OrdenOK, Ordenados, alterados' = {}, NEW p \in Procesos,
         pc[p] \in {"csv_devolver", "csv_cierre"},
         \/ CsvPedir(p) \/ CsvPrestamo(p) \/ CsvDevolver(p) \/ CsvCierre(p)
         \/ Cerrar(p) \/ Borrar(p) \/ Quitar(p)
  PROVE  \/ pc'[p] = pc[p] /\ orden'[p] = orden[p]
         \/ orden[p].isbn \notin DOMAIN librosCSV
<1> DEFINE Bien == \/ pc'[p] = pc[p] /\ orden'[p] = orden[p]
                   \/ orden[p].isbn \notin DOMAIN librosCSV
<1> SUFFICES Bien
  OBVIOUS
<1>0. ProcesoOK
  BY DEF TypeOK, ProcesoOK
<1>1. ASSUME NEW f \in Archivos, Toca(p, f), tramo[p] = "abrir"
      PROVE  f \in existe
  <2>1. f \notin alterados /\ \A q \in Procesos : ~ Reescribe(q, f)
    BY <1>1 DEF Toca, Reescribe
  <2> QED
    BY <2>1 DEF Ordenados, Ordenado, SinReescribir
<1>2. (\E t : Avanza(p, t)) => Bien
  BY <1>0 DEF Avanza
<1> HIDE DEF Bien
<1>3. CASE CsvDevolver(p)
  <2>1. "libros" \in existe
    BY <1>1, <1>3 DEF CsvDevolver, AbreAmbos, Archivos
  <2> QED
    BY <1>2, <1>3, <2>1 DEF CsvDevolver, NoSeAbre, Copia
<1>4. CASE CsvCierre(p)
  <2>1. "historial" \in existe
    BY <1>1, <1>4 DEF CsvCierre, AbreAmbos, Archivos
  <2> QED
    BY <1>2, <1>4, <2>1 DEF CsvCierre, NoSeAbre
<1>5. CASE Cerrar(p)
  BY <1>2, <1>5 DEF Cerrar
<1>6. CASE Borrar(p)
  <2>1. Fichero(p) \in Archivos \ alterados
    BY <1>6 DEF Borrar, historia, Fichero, Archivos
  <2> QED
    BY <1>2, <1>6, <2>1, SolaLoBorra
<1>7. CASE Quitar(p)
  <2>1. PICK f \in Archivos : f = Fichero(p)
    BY DEF Fichero, Archivos
  <2>2. Reescribe(p, f) /\ f \notin alterados
    BY <1>7, <2>1 DEF Quitar, Reescribe, historia
  <2>3. EnRegla(p)
    BY <2>2, SoloElla DEF Ordenados
  <2> QED
    BY <1>7, <2>3 DEF Quitar, EnRegla, OrdenOK, Bien
<1> QED
  BY <1>3, <1>4, <1>5, <1>6, <1>7 DEF CsvPedir, CsvPrestamo

LEMMA ConcuerdanCSV ==
  ASSUME TypeOK, OrdenOK, Ordenados, EnCamino, Concuerdan, NEW p \in Procesos, PasoCSV(p)
  PROVE  Concuerdan'
<1> SUFFICES ASSUME alterados' = {}
             PROVE  Concuerdan'
  BY DEF Concuerdan
<1>0. /\ ProcesoOK /\ Servidor \in Procesos /\ Servidor \notin Consolas /\ Consolas \subseteq Procesos
      /\ Procesos = {Servidor} \cup Consolas /\ hoy \in Nat /\ deriva \in [ISBNs -> Nat]
  BY ConstantesOK DEF TypeOK, ProcesoOK, Procesos
<1>a. alterados = {}
  BY DEF PasoCSV, CsvPedir, CsvPrestamo, CsvHistorial, CsvDevolver, CsvCierre,
         Cerrar, Borrar, Renombrar, Quitar, AbreAmbos, Toca, historia
<1>b. UNCHANGED <<historialBD, fallos>> /\ OtrosQuietos(p)
  BY MarcoCSV DEF bd, cotas
<1>c. \A v, j : (ConActivo(v, j))' <=> ConActivo(v, j)
  BY <1>b DEF ConActivo
<1>1. CASE CsvHistorial(p)
  BY <1>1, ConcuerdanHistorial
<1>2. CASE Renombrar(p) /\ Fichero(p) = "historial"
  <2> DEFINE u == orden[p].usuario
             i == orden[p].isbn
  <2>1. EsCierre(historialCSV', u, i) /\ Prosigue(p) /\ Instala("historial")
    BY <1>2, <1>a, SolaLoInstala DEF Archivos
  <2>2. pc[p] = "csv_cierre" /\ pc'[p] = Reposo(p)
    BY <1>0, <1>2, <2>1 DEF Fichero, Renombrar, Prosigue, Termina, OrdenOK, Reescrituras, ProcesoOK
  <2>3. UNCHANGED <<deriva, librosCSV>>
    BY <1>2, <2>1, <2>2 DEF Renombrar, Instala
  <2>4. DeLaConsola => DeLaConsola'
    BY <1>0, <1>b, <2>2, <2>3 DEF DeLaConsola, Reposo, OtrosQuietos
  <2>5. DOMAIN historialCSV' = DOMAIN historialCSV
    <3>1. historialCSV' \in Seq(FilaHistorial)
      BY <1>2, TiposPaso DEF TypeOK, Next, PasoCSV
    <3> QED
      BY <2>1, <3>1, LaHistoria DEF EsCierre
  <2> HIDE DEF u, i
  <2>6. ASSUME NEW k \in DOMAIN historialCSV
        PROVE  /\ historialCSV'[k].usuario = historialCSV[k].usuario
               /\ historialCSV'[k].isbn = historialCSV[k].isbn
               /\ historialCSV'[k].fecha = historialCSV[k].fecha
               /\ historialCSV'[k].estado = ACTIVO =>
                    historialCSV[k].estado = ACTIVO /\ ~ De(historialCSV[k], u, i)
    <3>1. historialCSV[k] \in FilaHistorial /\ historialCSV'[k] \in Cerradas(historialCSV[k], u, i)
      BY <2>1, <2>6, LaHistoria DEF EsCierre
    <3> QED
      BY <3>1, LineasCerradas
  <2>7. ASSUME NEW k \in DOMAIN historialCSV, historialCSV'[k].estado = ACTIVO,
               NEW v, NEW j, v = historialCSV[k].usuario, j = historialCSV[k].isbn,
               ConActivo(v, j) \/ PorCerrar(v, j)
        PROVE  (ConActivo(v, j))' \/ (PorCerrar(v, j))'
    <3>1. CASE PorCerrar(v, j) /\ p # Servidor
      BY <1>0, <1>b, <3>1 DEF PorCerrar, OtrosQuietos
    <3>2. CASE PorCerrar(v, j) /\ p = Servidor
      BY <2>6, <2>7, <3>2 DEF PorCerrar, De, u, i
    <3> QED
      BY <1>c, <2>7, <3>1, <3>2
  <2>8. \A k \in DOMAIN historialCSV : historialCSV'[k].estado = ACTIVO =>
           \A v, j : /\ v = historialCSV[k].usuario
                     /\ j = historialCSV[k].isbn
                     /\ ConActivo(v, j) \/ PorCerrar(v, j)
                     => \/ (ConActivo(v, j))' \/ (PorCerrar(v, j))'
                        \/ j \notin DOMAIN librosCSV
    BY <2>7
  <2> QED
    BY <1>a, <1>b, <2>3, <2>4, <2>5, <2>6, <2>8, LaHistoria, ConcuerdanSiguen
<1>3. CASE \/ CsvPedir(p) \/ CsvPrestamo(p) \/ CsvDevolver(p) \/ CsvCierre(p)
           \/ Cerrar(p) \/ Borrar(p) \/ Quitar(p)
  <2>1. UNCHANGED <<librosCSV, historialCSV, deriva>>
    BY <1>3 DEF CsvPedir, CsvPrestamo, CsvDevolver, CsvCierre, Cerrar, Borrar, Quitar, historia
  <2>2. ASSUME NEW v, NEW j, PorCerrar(v, j)
        PROVE  (PorCerrar(v, j))' \/ j \notin DOMAIN librosCSV
    <3>1. CASE p # Servidor
      BY <1>0, <1>b, <2>2, <3>1 DEF PorCerrar, OtrosQuietos
    <3>2. CASE p = Servidor
      <4>1. \/ pc'[p] = pc[p] /\ orden'[p] = orden[p]
            \/ orden[p].isbn \notin DOMAIN librosCSV
        BY <1>3, <2>2, <3>2, LaDevolucionSigue DEF PorCerrar
      <4> QED
        BY <2>2, <3>2, <4>1 DEF PorCerrar, De
    <3> QED
      BY <3>1, <3>2
  <2>3. ASSUME DeLaConsola, NEW q \in Consolas, pc'[q] \in {"csv_prestamo", "csv_historial"}
        PROVE  deriva'[orden'[q].isbn] > 0
    <3>1. CASE q # p
      BY <1>0, <1>b, <2>1, <2>3, <3>1 DEF DeLaConsola, OtrosQuietos
    <3>2. CASE q = p
      <4>1. pc[p] \in {"csv_prestamo", "csv_historial"} /\ orden'[p].isbn = orden[p].isbn
        <5>1. CASE CsvPrestamo(p)
          BY <1>0, <5>1 DEF CsvPrestamo, ProcesoOK, Orden
        <5>2. CASE ~ CsvPrestamo(p)
          BY <1>0, <1>3, <2>3, <3>2, <5>2
             DEF CsvPedir, CsvDevolver, CsvCierre, Cerrar, Borrar, Quitar, NoSeAbre, Copia,
                 Avanza, Termina, Reposo, ProcesoOK
        <5> QED
          BY <5>1, <5>2
      <4> QED
        BY <2>1, <2>3, <3>2, <4>1 DEF DeLaConsola
    <3> QED
      BY <3>1, <3>2
  <2>4. DeLaConsola => DeLaConsola'
    BY <2>3 DEF DeLaConsola
  <2> QED
    BY <1>a, <1>b, <1>c, <2>1, <2>2, <2>4, LaHistoria, ConcuerdanSiguen
<1>4. CASE Renombrar(p) /\ Fichero(p) = "libros"
  <2> DEFINE i == orden[p].isbn
  <2>1. /\ LibroCambiado(librosCSV', p) /\ Prosigue(p) /\ Instala("libros")
        /\ deriva' = IF pc[p] = "csv_pedir" /\ p # Servidor
                     THEN [deriva EXCEPT ![i] = deriva[i] + 1] ELSE deriva
    BY <1>4, <1>a, SolaLoInstala DEF Archivos
  <2>2. historialCSV' = historialCSV /\ DOMAIN librosCSV' = DOMAIN librosCSV
    BY <2>1 DEF Instala, LibroCambiado
  <2>3. i \in ISBNs
    BY <1>4 DEF Renombrar, OrdenOK
  <2>4. \A j \in ISBNs : deriva[j] > 0 => deriva'[j] > 0
    BY <1>0, <2>1, <2>3
  <2>5. \/ pc[p] = "csv_pedir" /\ pc'[p] = "csv_prestamo" /\ orden' = orden
        \/ pc[p] = "csv_devolver" /\ pc'[p] = "csv_cierre" /\ orden' = orden
    BY <1>0, <1>4, <2>1 DEF Prosigue, Sigue, Fichero, ProcesoOK
  <2>6. \A v, j : PorCerrar(v, j) => (PorCerrar(v, j))'
    BY <1>0, <1>b, <2>5 DEF PorCerrar, OtrosQuietos
  <2>7. ASSUME DeLaConsola, NEW q \in Consolas, pc'[q] \in {"csv_prestamo", "csv_historial"}
        PROVE  deriva'[orden'[q].isbn] > 0
    <3>1. CASE q # p
      <4>1. pc'[q] = pc[q] /\ orden'[q] = orden[q] /\ deriva[orden[q].isbn] > 0
        BY <1>0, <1>b, <2>7, <3>1 DEF DeLaConsola, OtrosQuietos
      <4>2. orden[q].isbn \in ISBNs
        BY <1>0, <2>7, <4>1 DEF OrdenOK, EnCurso, PasosCSV
      <4> QED
        BY <2>4, <4>1, <4>2
    <3>2. CASE q = p
      <4>1. pc[p] = "csv_pedir" /\ p # Servidor /\ orden' = orden
        BY <1>0, <2>5, <2>7, <3>2
      <4>2. deriva'[i] = deriva[i] + 1 /\ deriva[i] \in Nat
        BY <1>0, <2>1, <2>3, <4>1
      <4> QED
        BY <3>2, <4>1, <4>2
    <3> QED
      BY <3>1, <3>2
  <2>8. DeLaConsola => DeLaConsola'
    BY <2>7 DEF DeLaConsola
  <2> HIDE DEF i
  <2>9. \A k \in DOMAIN historialCSV :
          deriva[historialCSV[k].isbn] > 0 => deriva'[historialCSV[k].isbn] > 0
    BY <2>4, LaHistoria DEF FilaHistorial
  <2> QED
    BY <1>a, <1>b, <1>c, <2>2, <2>6, <2>8, <2>9, LaHistoria, ConcuerdanSiguen
<1>5. Fichero(p) \in {"libros", "historial"}
  BY DEF Fichero
<1> QED
  BY <1>1, <1>2, <1>3, <1>4, <1>5 DEF PasoCSV

\* A rebuild takes the active lines of the file, the first of each key.
LEMMA ConcuerdanArrancar ==
  ASSUME TypeOK, OrdenOK, NEW p \in Consolas, Arrancar(p)
  PROVE  Concuerdan'
<1> SUFFICES ASSUME alterados' = {}
             PROVE  Concuerdan'
  BY DEF Concuerdan
<1>0. "historial" \in existe
  BY DEF Arrancar, Archivos
<1>1. /\ historialCSV' = historialCSV /\ \A q \in Consolas : pc'[q] \in {"cerrado", "menu"}
      /\ historialBD' = {historialCSV[k] : k \in {j \in DOMAIN historialCSV : PrimeraDeSuClave(j)}}
  BY <1>0 DEF Arrancar, csv, TypeOK, Procesos
<1>2. ASSUME NEW k \in DOMAIN historialCSV, historialCSV[k].estado = ACTIVO, PrimeraDeSuClave(k)
      PROVE  \E h \in historialBD' : Activo(h, historialCSV[k].usuario, historialCSV[k].isbn)
  <2>1. historialCSV[k] \in historialBD'
    BY <1>1, <1>2
  <2>2. Activo(historialCSV[k], historialCSV[k].usuario, historialCSV[k].isbn)
    BY <1>2 DEF Activo, De
  <2> QED
    BY <2>1, <2>2
<1>3. \A k : (PrimeraDeSuClave(k))' <=> PrimeraDeSuClave(k)
  BY <1>1 DEF PrimeraDeSuClave
<1>4. \A k \in DOMAIN historialCSV : historialCSV[k].estado = ACTIVO => (EnLosDos(k))'
  BY <1>1, <1>2, <1>3 DEF EnLosDos, ConActivo
<1> QED
  BY <1>1, <1>4 DEF Concuerdan, DeLaConsola

LEMMA ConcuerdanPaso ==
  ASSUME TypeOK, OrdenOK, Ordenados, EnCamino, Concuerdan, [Next]_vars
  PROVE  Concuerdan'
<1>0. ProcesoOK /\ Servidor \in Procesos /\ Servidor \notin Consolas /\ Consolas \subseteq Procesos
  BY ConstantesOK DEF TypeOK, ProcesoOK, Procesos
<1>1. CASE PasoServidor
  BY <1>1, ConcuerdanServidor
<1>2. ASSUME NEW p \in Procesos, PasoCSV(p)
      PROVE  Concuerdan'
  BY <1>2, ConcuerdanCSV
<1>3. ASSUME NEW p \in Procesos, Fallo(p) \/ FalloAlAbrir(p) \/ Caida(p)
      PROVE  Concuerdan'
  <2>1. fallos' = fallos + 1 /\ fallos \in Nat
    BY <1>3, MarcoFallo DEF Interrumpe, TypeOK
  <2> QED
    BY <2>1 DEF Concuerdan
<1>4. ASSUME NEW p \in Consolas, Arrancar(p)
      PROVE  Concuerdan'
  BY <1>4, ConcuerdanArrancar
<1>5. ASSUME \/ \E p \in Consolas : Salir(p) \/ \E u \in Usuarios, i \in Pedibles : MenuPrincipal(p, u, i)
             \/ PasaDia \/ UNCHANGED vars
      PROVE  Concuerdan'
  <2>1. UNCHANGED <<historialBD, historialCSV, librosCSV, deriva, alterados, fallos>>
    BY <1>5 DEF Salir, MenuPrincipal, Pide, PasaDia, vars, bd, csv, historia, cotas
  <2>2. /\ pc'[Servidor] = pc[Servidor] /\ orden'[Servidor] = orden[Servidor]
        /\ \A q \in Consolas : pc'[q] \in {"csv_prestamo", "csv_historial"} =>
             pc[q] = pc'[q] /\ orden'[q] = orden[q]
    BY <1>0, <1>5 DEF Salir, MenuPrincipal, Empieza, PasaDia, vars, proceso, ProcesoOK
  <2>3. DeLaConsola => DeLaConsola'
    BY <2>1, <2>2 DEF DeLaConsola
  <2>4. \A v, j : ConActivo(v, j) \/ PorCerrar(v, j) => (ConActivo(v, j))' \/ (PorCerrar(v, j))'
    BY <2>1, <2>2 DEF ConActivo, PorCerrar
  <2> QED
    BY <2>1, <2>3, <2>4, LaHistoria, ConcuerdanSiguen
<1> QED
  BY <1>1, <1>2, <1>3, <1>4, <1>5 DEF Next, PasoConsola

(***************************************************************************)
(* Between two commands, without interruptions and without overlaps on a   *)
(* file, a loan that is active in historial.csv is active in the database  *)
(* (HistorialesConcuerdan).                                                *)
(***************************************************************************)
THEOREM LosHistorialesConcuerdan == Spec => []HistorialesConcuerdan
<1>1. Init => EnCamino /\ Concuerdan
  <2>1. Init => EnCamino
    BY DEF Init, EnCamino, Encaminado, Procesos
  <2>2. Init => Concuerdan
    BY DEF Init, Concuerdan, DeLaConsola, Procesos
  <2> QED
    BY <2>1, <2>2
<1>2. TypeOK /\ OrdenOK /\ Ordenados /\ EnCamino /\ Concuerdan /\ [Next]_vars => EnCamino' /\ Concuerdan'
  BY CaminoPaso, ConcuerdanPaso
<1>3. Concuerdan => HistorialesConcuerdan
  BY DEF Concuerdan, EnLosDos, ConActivo, PorCerrar, HistorialesConcuerdan
<1> QED
  BY <1>1, <1>2, <1>3, Tipos, CadaCopiaEsFiel, PTL DEF Spec
=============================================================================
