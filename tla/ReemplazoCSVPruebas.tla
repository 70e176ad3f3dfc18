------------------------ MODULE ReemplazoCSVPruebas ------------------------
(***************************************************************************)
(* Proofs about ReemplazoCSV, for any number of processes, operations and  *)
(* failures.                                                               *)
(***************************************************************************)
EXTENDS ReemplazoCSV, TLAPS

-----------------------------------------------------------------------------
(* The inductive invariant *)

(***************************************************************************)
(* A file that somebody has open is there: remove needs it closed.         *)
(***************************************************************************)
AbiertosOK == \A p \in Procesos : Abre(p, en[p]) => archivo[en[p]] # Ausente

(***************************************************************************)
(* Without a warning, whoever replaces a file is alone with it.            *)
(***************************************************************************)
Unico ==
  \A f \in Archivos : avisos[f] = {} =>
    \A p, q \in Procesos : p # q /\ Reemplaza(p, f) => ~ Reemplaza(q, f) /\ ~ Anade(q, f)

\* Only historial.csv is added to.
Anexos == \A p \in Procesos : pc[p] \in {"anexar", "escribir"} => en[p] = "historial"

(***************************************************************************)
(* The text t of f has what f had at first and the operations that have    *)
(* been counted in f: those that returned 0 and, in libros.csv, those that *)
(* have gone on to historial.csv.                                          *)
(***************************************************************************)
Trabaja(p) == pc[p] \notin {"menu", "importar"}

Completo(f, t) ==
  /\ 0 \in t
  /\ hechas \subseteq t
  /\ f = "libros" => \A q \in Procesos : en[q] = "historial" /\ Trabaja(q) => num[q] \in t

(***************************************************************************)
(* The text of a file is complete, and what the process that replaces it   *)
(* has read or written is that text and its own line.                      *)
(***************************************************************************)
Copia(p, f) ==
  /\ pc[p] \in {"cerrar", "volcar"} => leido[p] = archivo[f]
  /\ pc[p] = "borrar" => temp[f] = archivo[f] \cup {num[p]}
  /\ pc[p] = "renombrar" => archivo[f] = Ausente /\ num[p] \in temp[f]

Guardado ==
  \A f \in Archivos : avisos[f] = {} =>
    /\ Completo(f, Vigente(f))
    /\ \A p \in Procesos : en[p] = f => Copia(p, f)
    /\ archivo[f] = Ausente => \E p \in Procesos : en[p] = f /\ pc[p] = "renombrar"

(***************************************************************************)
(* The numbers of the operations under way are their own, and no file has  *)
(* the number of one that has not replaced libros.csv yet.                 *)
(***************************************************************************)
Numeros ==
  /\ hechas \cup rechazadas \subseteq 0 .. operaciones
  /\ \A p \in Procesos : Trabaja(p) =>
       /\ num[p] \in 1 .. operaciones
       /\ num[p] \notin rechazadas
       /\ \A q \in Procesos \ {p} : Trabaja(q) => num[p] # num[q]
  /\ 0 \notin rechazadas

Ajeno(f) ==
  /\ Vigente(f) \subseteq 0 .. operaciones
  /\ Vigente(f) \cap rechazadas = {}
  /\ \A p \in Procesos : en[p] = "libros" /\ Trabaja(p) =>
       num[p] \notin Vigente(f) \/ (f = "libros" /\ pc[p] = "renombrar")

Limpio == \A f \in Archivos : avisos[f] = {} => Ajeno(f)

IInv ==
  /\ TypeOK /\ AbiertosOK
  /\ Anexos
  /\ Unico
  /\ Guardado
  /\ Numeros /\ Limpio
  /\ HistorialTrasLibros

-----------------------------------------------------------------------------
(* Types *)

LEMMA TiposIniciales == Init => TypeOK /\ AbiertosOK
BY ConstantesOK DEF Init, TypeOK, AbiertosOK, Archivos, Ausente, Pasos, Reemplazando, Abre,
                    Leyendo

(***************************************************************************)
(* What Sigue leaves alone.                                                *)
(***************************************************************************)
LEMMA SigueTipo ==
  ASSUME TypeOK, NEW p \in Procesos, NEW paso \in Pasos, Sigue(p, paso)
  PROVE  /\ pc' \in [Procesos -> Pasos]
         /\ clase' \in [Procesos -> {"pedir", "devolver"}]
         /\ num' \in [Procesos -> Nat]
         /\ en' \in [Procesos -> Archivos]
BY DEF TypeOK, Sigue

LEMMA FracasaTipo ==
  ASSUME TypeOK, NEW p \in Procesos, Fracasa(p)
  PROVE  Sigue(p, "menu") /\ hechas' \subseteq Nat /\ rechazadas' \subseteq Nat
BY DEF TypeOK, Fracasa

LEMMA AvisaTipo ==
  ASSUME TypeOK, NEW f \in Archivos, NEW que \in SUBSET {"solape", "corte", "nuevo"},
         Avisa(f, que)
  PROVE  avisos' \in [Archivos -> SUBSET {"solape", "corte", "nuevo"}]
BY DEF TypeOK, Avisa

LEMMA TiposMenu ==
  ASSUME TypeOK, NEW p \in Procesos,
         \/ \E c \in {"pedir", "devolver"} : Empezar(p, c)
         \/ \E f \in Archivos : AbrirImportar(p, f)
         \/ CerrarImportado(p)
  PROVE  TypeOK'
<1>1. CASE \E c \in {"pedir", "devolver"} : Empezar(p, c)
  BY <1>1 DEF TypeOK, Empezar, ficheros, historia, Archivos, Pasos
<1>2. CASE \E f \in Archivos : AbrirImportar(p, f)
  BY <1>2 DEF TypeOK, AbrirImportar, ficheros, historia, Pasos
<1>3. CASE CerrarImportado(p)
  BY <1>3 DEF TypeOK, CerrarImportado, Sigue, ficheros, historia, cotas, Pasos
<1> QED  BY <1>1, <1>2, <1>3

LEMMA ExceptBooleano ==
  ASSUME NEW S, NEW g \in [S -> BOOLEAN], NEW x \in S, NEW b \in BOOLEAN
  PROVE  [g EXCEPT ![x] = b] \in [S -> BOOLEAN]
BY Zenon

LEMMA TiposReemplazo ==
  ASSUME TypeOK, AbiertosOK, NEW p \in Procesos,
         \/ Abrir(p) \/ AbrirTemp(p) \/ Leer(p) \/ Rechazar(p) \/ Quitar(p)
         \/ Cerrar(p) \/ Volcar(p)
  PROVE  TypeOK'
<1>1. CASE Abrir(p)
  <2>1. AvisoAbrir(p) \in SUBSET {"solape", "corte", "nuevo"} /\ en[p] \in Archivos
    BY DEF AvisoAbrir, TypeOK
  <2>2. avisos' \in [Archivos -> SUBSET {"solape", "corte", "nuevo"}]
    BY <1>1, <2>1, AvisaTipo DEF Abrir
  <2>3. abierto' \in [Procesos -> BOOLEAN]
    BY <1>1, ExceptBooleano DEF TypeOK, Abrir
  <2>5. fallos' \in Nat
    BY <1>1 DEF TypeOK, Abrir, Falla
  <2>4. /\ pc' \in [Procesos -> Pasos]
        /\ clase' \in [Procesos -> {"pedir", "devolver"}]
        /\ num' \in [Procesos -> Nat]
        /\ en' \in [Procesos -> Archivos]
    BY <1>1, SigueTipo DEF Abrir, Pasos, Reemplazando
  <2> QED
    BY <1>1, <2>2, <2>3, <2>4, <2>5 DEF TypeOK, Abrir, ficheros
<1>2. CASE AbrirTemp(p)
  <2>1. hechas' \subseteq Nat /\ rechazadas' \subseteq Nat
    BY <1>2, FracasaTipo DEF AbrirTemp, TypeOK
  <2>2. Sigue(p, "leer") \/ Sigue(p, "menu")
    BY <1>2 DEF AbrirTemp, Fracasa
  <2> QED
    BY <1>2, <2>1, <2>2, SigueTipo DEF TypeOK, AbrirTemp, Falla, Pasos, Reemplazando, Ausente
<1>3. CASE Leer(p)
  <2>1. archivo[en[p]] \in SUBSET Nat
    BY <1>3 DEF Leer, TypeOK, AbiertosOK, Abre, Leyendo
  <2>2. Sigue(p, "cerrar") \/ Sigue(p, "rechazar")
    BY <1>3 DEF Leer
  <2> QED
    BY <1>3, <2>1, <2>2, SigueTipo
       DEF TypeOK, Leer, ficheros, historia, cotas, Pasos, Reemplazando
<1>4. CASE Rechazar(p)
  <2>1. temp' \in [Archivos -> (SUBSET Nat) \cup {Ausente}]
    BY <1>4 DEF Rechazar, TypeOK
  <2> QED
    BY <1>4, <2>1, SigueTipo DEF TypeOK, Rechazar, historia, cotas, Pasos, Reemplazando
<1>5. CASE Quitar(p)
  BY <1>5, FracasaTipo, SigueTipo DEF TypeOK, Quitar, cotas, Pasos
<1>6. CASE Cerrar(p)
  BY <1>6, SigueTipo DEF TypeOK, Cerrar, ficheros, historia, cotas, Pasos, Reemplazando
<1>7. CASE Volcar(p)
  <2>1. Sigue(p, "borrar") \/ Sigue(p, "quitar")
    BY <1>7 DEF Volcar, Vuelca
  <2>2. /\ pc' \in [Procesos -> Pasos]
        /\ clase' \in [Procesos -> {"pedir", "devolver"}]
        /\ num' \in [Procesos -> Nat]
        /\ en' \in [Procesos -> Archivos]
    BY <2>1, SigueTipo DEF Pasos, Reemplazando
  <2>3. temp' \in [Archivos -> (SUBSET Nat) \cup {Ausente}]
    <3>1. leido[p] \cup {num[p]} \in SUBSET Nat /\ leido[p] \in SUBSET Nat
      BY DEF TypeOK
    <3> QED  BY <1>7, <3>1 DEF TypeOK, Volcar, Vuelca
  <2> QED  BY <1>7, <2>2, <2>3 DEF TypeOK, Volcar, Vuelca, historia, cotas
<1> QED  BY <1>1, <1>2, <1>3, <1>4, <1>5, <1>6, <1>7

LEMMA TiposFinal ==
  ASSUME TypeOK, AbiertosOK, NEW p \in Procesos,
         Borrar(p) \/ Renombrar(p) \/ Anexar(p) \/ Escribir(p) \/ Caida(p)
  PROVE  TypeOK'
<1>1. CASE Borrar(p)
  <2>1. hechas' \subseteq Nat /\ rechazadas' \subseteq Nat
    BY <1>1, FracasaTipo DEF Borrar, TypeOK
  <2>2. Sigue(p, "renombrar") \/ Sigue(p, "menu")
    BY <1>1 DEF Borrar, Fracasa
  <2> QED
    BY <1>1, <2>1, <2>2, SigueTipo DEF TypeOK, Borrar, Falla, Pasos, Reemplazando
<1>2. CASE Renombrar(p)
  <2>1. ASSUME Continua(p)
        PROVE  /\ pc' \in [Procesos -> Pasos]
               /\ clase' \in [Procesos -> {"pedir", "devolver"}]
               /\ num' \in [Procesos -> Nat]
               /\ en' \in [Procesos -> Archivos]
               /\ hechas' \subseteq Nat
    <3>1. CASE en[p] = "libros"
      BY <2>1, <3>1 DEF TypeOK, Continua, Pasos, Archivos
    <3>2. CASE en[p] = "historial"
      BY <2>1, <3>2, SigueTipo DEF TypeOK, Continua, Pasos
    <3> QED  BY <2>1, <3>1, <3>2 DEF Continua
  <2>2. avisos' \in [Archivos -> SUBSET {"solape", "corte", "nuevo"}]
    BY <1>2, AvisaTipo DEF Renombrar, historia, TypeOK
  <2>3. /\ pc' \in [Procesos -> Pasos]
        /\ clase' \in [Procesos -> {"pedir", "devolver"}]
        /\ num' \in [Procesos -> Nat]
        /\ en' \in [Procesos -> Archivos]
    BY <1>2, <2>1, SigueTipo DEF Renombrar, Pasos
  <2>4. hechas' \subseteq Nat /\ rechazadas' \subseteq Nat /\ fallos' \in Nat
    <3>1. CASE Continua(p) /\ UNCHANGED <<rechazadas, fallos>>
      BY <2>1, <3>1 DEF TypeOK
    <3>2. CASE UNCHANGED <<hechas, rechazadas>> /\ (UNCHANGED fallos \/ Falla)
      BY <3>2 DEF TypeOK, Falla
    <3> QED  BY <1>2, <3>1, <3>2 DEF Renombrar, historia
  <2>5. /\ archivo' \in [Archivos -> (SUBSET Nat) \cup {Ausente}]
        /\ temp' \in [Archivos -> (SUBSET Nat) \cup {Ausente}]
    BY <1>2 DEF TypeOK, Renombrar, ficheros
  <2> QED
    BY <1>2, <2>2, <2>3, <2>4, <2>5 DEF TypeOK, Renombrar
<1>3. CASE Anexar(p)
  <2>1. AvisoAnexar(p) \in SUBSET {"solape", "corte", "nuevo"} /\ en[p] \in Archivos
    BY DEF AvisoAnexar, TypeOK
  <2>2. avisos' \in [Archivos -> SUBSET {"solape", "corte", "nuevo"}]
    BY <1>3, <2>1, AvisaTipo DEF Anexar, TypeOK
  <2>3. Sigue(p, "escribir") \/ Sigue(p, "menu")
    BY <1>3 DEF Anexar
  <2> QED
    BY <1>3, <2>2, <2>3, SigueTipo DEF TypeOK, Anexar, Falla, Pasos
<1>4. CASE Escribir(p)
  <2>1. archivo[en[p]] \in SUBSET Nat
    BY <1>4 DEF Escribir, TypeOK, AbiertosOK, Abre
  <2> QED
    BY <1>4, <2>1, SigueTipo DEF TypeOK, Escribir, cotas, Pasos
<1>5. CASE Caida(p)
  <2>1. avisos' \in [Archivos -> SUBSET {"solape", "corte", "nuevo"}]
    BY <1>5, AvisaTipo DEF Caida, TypeOK
  <2> QED
    BY <1>5, <2>1, SigueTipo DEF TypeOK, Caida, ficheros, Falla, Pasos
<1> QED  BY <1>1, <1>2, <1>3, <1>4, <1>5

(***************************************************************************)
(* A step of p says nothing of the other processes.                        *)
(***************************************************************************)
LEMMA Otros ==
  ASSUME TypeOK, NEW p \in Procesos, Paso(p), NEW q \in Procesos \ {p}
  PROVE  /\ pc'[q] = pc[q]
         /\ en'[q] = en[q]
         /\ num'[q] = num[q]
         /\ clase'[q] = clase[q]
         /\ abierto'[q] = abierto[q]
         /\ leido'[q] = leido[q]
BY DEF TypeOK, Paso, Empezar, AbrirImportar, CerrarImportado, Abrir, AbrirTemp, Leer, Rechazar,
       Quitar, Cerrar, Volcar, Vuelca, Borrar, Renombrar, Continua, Anexar, Escribir, Caida,
       Fracasa, Sigue, ficheros, historia, cotas

(***************************************************************************)
(* Only remove makes a file disappear, and only one that nobody has open.  *)
(***************************************************************************)
LEMMA SoloBorrar ==
  ASSUME TypeOK, AbiertosOK, NEW p \in Procesos, Paso(p), NEW f \in Archivos,
         archivo[f] # Ausente, archivo'[f] = Ausente
  PROVE  Borrar(p) /\ Libre(f) /\ en[p] = f /\ pc'[p] = "renombrar"
<1>1. CASE Borrar(p)
  BY <1>1 DEF TypeOK, Borrar, Sigue, Pasos
<1>2. CASE Renombrar(p)
  BY <1>2 DEF TypeOK, Renombrar, Renombrable, ficheros
<1>3. CASE Anexar(p)
  BY <1>3 DEF TypeOK, Anexar, Ausente
<1>4. CASE Escribir(p)
  <2>1. archivo[en[p]] \in SUBSET Nat /\ num[p] \in Nat
    BY <1>4 DEF Escribir, TypeOK, AbiertosOK, Abre
  <2> QED  BY <1>4, <2>1 DEF TypeOK, Escribir, Ausente
<1>5. CASE archivo' = archivo
  BY <1>5
<1> QED
  BY <1>1, <1>2, <1>3, <1>4, <1>5
     DEF Paso, Empezar, AbrirImportar, CerrarImportado, Abrir, AbrirTemp, Leer, Rechazar,
         Quitar, Cerrar, Volcar, Vuelca, Caida, ficheros

LEMMA AbiertosPaso ==
  ASSUME TypeOK, AbiertosOK, NEW p \in Procesos, Paso(p)
  PROVE  AbiertosOK'
<1> SUFFICES ASSUME NEW q \in Procesos, Abre(q, en[q])'
             PROVE  archivo'[en'[q]] # Ausente
  BY DEF AbiertosOK
<1>1. CASE q # p
  <2>1. Abre(q, en[q]) /\ en'[q] = en[q]
    BY <1>1, Otros DEF Abre
  <2>2. archivo[en[q]] # Ausente /\ en[q] \in Archivos
    BY <2>1 DEF AbiertosOK, TypeOK
  <2>3. ~ Libre(en[q])
    BY <2>1 DEF Libre
  <2> QED  BY <2>1, <2>2, <2>3, SoloBorrar
<1>2. CASE q = p
  <2>1. CASE pc[p] \in {"menu", "importar", "abrir", "anexar"}
    BY <1>2, <2>1 DEF TypeOK, Paso, Empezar, AbrirImportar, CerrarImportado, Abrir, AbrirTemp,
                      Leer, Rechazar, Quitar, Cerrar, Volcar, Vuelca, Borrar, Renombrar, Anexar,
                      Escribir, Caida, Fracasa, Sigue, ficheros, historia, cotas, Abre, Leyendo,
                      Ausente
  <2>2. CASE pc[p] \notin {"menu", "importar", "abrir", "anexar"}
    <3>1. en'[p] = en[p] /\ archivo'[en[p]] = archivo[en[p]] /\ Abre(p, en[p])
      BY <1>2, <2>2 DEF TypeOK, Paso, Empezar, AbrirImportar, CerrarImportado, Abrir, AbrirTemp,
                        Leer, Rechazar, Quitar, Cerrar, Volcar, Vuelca, Borrar, Renombrar,
                        Continua, Anexar, Escribir, Caida, Fracasa, Sigue, ficheros, historia,
                        cotas, Abre, Leyendo, Pasos, Reemplazando
    <3> QED  BY <1>2, <3>1 DEF AbiertosOK
  <2> QED  BY <2>1, <2>2
<1> QED  BY <1>1, <1>2

LEMMA TiposPaso == TypeOK /\ AbiertosOK /\ [Next]_vars => TypeOK' /\ AbiertosOK'
<1> SUFFICES ASSUME TypeOK, AbiertosOK, [Next]_vars
             PROVE  TypeOK' /\ AbiertosOK'
  OBVIOUS
<1>1. ASSUME NEW p \in Procesos, Paso(p)
      PROVE  TypeOK' /\ AbiertosOK'
  BY <1>1, TiposMenu, TiposReemplazo, TiposFinal, AbiertosPaso DEF Paso
<1>2. CASE UNCHANGED vars
  BY <1>2 DEF vars, ficheros, proceso, historia, cotas, TypeOK, AbiertosOK, Abre
<1> QED  BY <1>1, <1>2 DEF Next

(***************************************************************************)
(* Every variable keeps its shape: what is read from a file is its text.   *)
(***************************************************************************)
THEOREM Tipos == Spec => [](TypeOK /\ AbiertosOK)
BY TiposIniciales, TiposPaso, PTL DEF Spec
-----------------------------------------------------------------------------
(* Who works on a file *)

(***************************************************************************)
(* Warnings are never taken back.                                          *)
(***************************************************************************)
LEMMA AvisosQuedan ==
  ASSUME TypeOK, NEW p \in Procesos, Paso(p), NEW f \in Archivos, avisos'[f] = {}
  PROVE  avisos[f] = {}
BY DEF TypeOK, Paso, Empezar, AbrirImportar, CerrarImportado, Abrir, AbrirTemp, Leer, Rechazar,
       Quitar, Cerrar, Volcar, Vuelca, Borrar, Renombrar, Anexar, Escribir, Caida, Avisa, historia

(***************************************************************************)
(* A replacement begins with Abrir, a line with Anexar.                    *)
(***************************************************************************)
LEMMA Empiezan ==
  ASSUME TypeOK, NEW p \in Procesos, Paso(p), NEW f \in Archivos
  PROVE  /\ Reemplaza(p, f)' => Reemplaza(p, f) \/ (Abrir(p) /\ en[p] = f)
         /\ Anade(p, f)' => Anexar(p) /\ en[p] = f /\ Avisa(f, AvisoAnexar(p))
BY DEF TypeOK, Paso, Empezar, AbrirImportar, CerrarImportado, Abrir, AbrirTemp, Leer, Rechazar,
       Quitar, Cerrar, Volcar, Vuelca, Borrar, Renombrar, Continua, Anexar, Escribir, Caida,
       Fracasa, Sigue, Reemplaza, Anade, Reemplazando, Pasos

LEMMA UnicoPaso ==
  ASSUME TypeOK, Unico, NEW p \in Procesos, Paso(p)
  PROVE  Unico'
<1> SUFFICES ASSUME NEW f \in Archivos, avisos'[f] = {},
                    NEW q \in Procesos, NEW r \in Procesos, q # r,
                    Reemplaza(q, f)', Reemplaza(r, f)' \/ Anade(r, f)'
             PROVE  FALSE
  BY DEF Unico
<1>1. avisos[f] = {}
  BY AvisosQuedan
<1>2. \A s \in Procesos \ {p} : /\ Reemplaza(s, f)' => Reemplaza(s, f)
                                /\ Anade(s, f)' => Anade(s, f)
  BY Otros DEF Reemplaza, Anade
<1>3. ASSUME NEW s \in Procesos \ {p}, Abrir(p), en[p] = f
      PROVE  ~ Reemplaza(s, f) /\ ~ Anade(s, f)
  BY <1>3 DEF Abrir, Avisa, AvisoAbrir, TypeOK
<1>4. ASSUME NEW s \in Procesos \ {p}, Avisa(f, AvisoAnexar(p)), en[p] = f
      PROVE  ~ Reemplaza(s, f)
  BY <1>4 DEF Avisa, AvisoAnexar, TypeOK
<1>5. CASE q = p
  <2>1. Reemplaza(r, f) \/ Anade(r, f)
    BY <1>2, <1>5
  <2> QED  BY <1>1, <1>3, <1>5, <2>1, Empiezan DEF Unico
<1>6. CASE r = p
  <2>1. Reemplaza(q, f)
    BY <1>2, <1>6
  <2>2. CASE Reemplaza(p, f)'
    BY <1>1, <1>3, <1>6, <2>1, <2>2, Empiezan DEF Unico
  <2>3. CASE Anade(p, f)'
    BY <1>4, <1>6, <2>1, <2>3, Empiezan
  <2> QED  BY <1>6, <2>2, <2>3
<1>7. CASE q # p /\ r # p
  BY <1>1, <1>2, <1>7 DEF Unico
<1> QED  BY <1>5, <1>6, <1>7

LEMMA AnexosPaso ==
  ASSUME TypeOK, Anexos, NEW p \in Procesos, Paso(p)
  PROVE  Anexos'
<1> SUFFICES ASSUME NEW q \in Procesos, pc'[q] \in {"anexar", "escribir"}
             PROVE  en'[q] = "historial"
  BY DEF Anexos
<1>1. CASE q # p
  BY <1>1, Otros DEF Anexos
<1>2. CASE q = p
  BY <1>2
     DEF Anexos, TypeOK, Paso, Empezar, AbrirImportar, CerrarImportado, Abrir, AbrirTemp, Leer,
         Rechazar, Quitar, Cerrar, Volcar, Vuelca, Borrar, Renombrar, Continua, Anexar, Escribir,
         Caida, Fracasa, Sigue, Pasos
<1> QED  BY <1>1, <1>2

-----------------------------------------------------------------------------
(* What a step does to a file and to its temporary one *)

CambiaTemp(p, f) ==
  /\ pc[p] \in {"abrir_temp", "rechazar", "quitar", "volcar"}
  /\ en[p] = f
  /\ archivo'[f] = archivo[f]

Retira(p, f) ==
  /\ pc[p] = "borrar" /\ pc'[p] = "renombrar"
  /\ en[p] = f /\ en'[p] = f
  /\ archivo[f] # Ausente /\ archivo'[f] = Ausente
  /\ temp'[f] = temp[f]
  /\ UNCHANGED <<hechas, rechazadas, operaciones>>

Coloca(p, f) ==
  /\ pc[p] = "renombrar"
  /\ en[p] = f
  /\ archivo[f] = Ausente /\ archivo'[f] # Ausente
  /\ archivo'[f] = temp[f]

Crea(p, f) == pc[p] = "anexar" /\ archivo[f] = Ausente /\ "nuevo" \in avisos'[f]

AnadeLinea(p, f) ==
  /\ pc[p] = "escribir" /\ pc'[p] = "menu"
  /\ en[p] = f
  /\ archivo[f] # Ausente /\ archivo'[f] # Ausente
  /\ archivo'[f] = archivo[f] \cup {num[p]}
  /\ temp'[f] = temp[f]
  /\ UNCHANGED <<rechazadas, operaciones>>

LEMMA Efecto ==
  ASSUME TypeOK, AbiertosOK, NEW p \in Procesos, Paso(p), NEW f \in Archivos
  PROVE  \/ archivo'[f] = archivo[f] /\ temp'[f] = temp[f]
         \/ CambiaTemp(p, f) \/ Retira(p, f) \/ Coloca(p, f) \/ Crea(p, f) \/ AnadeLinea(p, f)
<1>1. CASE AbrirTemp(p) \/ Rechazar(p) \/ Quitar(p) \/ Volcar(p)
  BY <1>1 DEF TypeOK, AbrirTemp, Rechazar, Quitar, Volcar, Vuelca, CambiaTemp
<1>2. CASE Borrar(p)
  BY <1>2 DEF TypeOK, Borrar, Sigue, Retira
<1>3. CASE Renombrar(p)
  BY <1>3 DEF TypeOK, Renombrar, Renombrable, Coloca, ficheros
<1>4. CASE Anexar(p)
  BY <1>4 DEF TypeOK, Anexar, AvisoAnexar, Avisa, Crea
<1>5. CASE Escribir(p)
  <2>1. archivo[en[p]] \in SUBSET Nat /\ num[p] \in Nat
    BY <1>5 DEF Escribir, TypeOK, AbiertosOK, Abre
  <2>2. archivo[en[p]] \cup {num[p]} # Ausente
    BY <2>1 DEF Ausente
  <2> QED
    BY <1>5, <2>1, <2>2 DEF TypeOK, AbiertosOK, Abre, Escribir, Sigue, AnadeLinea, cotas
<1>6. CASE UNCHANGED ficheros
  BY <1>6 DEF ficheros
<1> QED
  BY <1>1, <1>2, <1>3, <1>4, <1>5, <1>6
     DEF Paso, Empezar, AbrirImportar, CerrarImportado, Abrir, Leer, Cerrar, Caida
-----------------------------------------------------------------------------
(* Nothing is lost *)

(***************************************************************************)
(* Who replaces f without a warning is the only one that works on it.      *)
(***************************************************************************)
LEMMA Solo ==
  ASSUME Unico, NEW p \in Procesos, NEW q \in Procesos, p # q, NEW f \in Archivos,
         avisos[f] = {}, Reemplaza(p, f)
  PROVE  ~ Reemplaza(q, f) /\ ~ Anade(q, f)
BY DEF Unico

(***************************************************************************)
(* The text that counts only ever gains the line of the process that takes *)
(* the step.                                                               *)
(***************************************************************************)
LEMMA VigentePaso ==
  ASSUME TypeOK, AbiertosOK, Unico, Guardado, NEW p \in Procesos, Paso(p),
         NEW f \in Archivos, avisos'[f] = {}
  PROVE  \/ Vigente(f)' = Vigente(f)
         \/ /\ Retira(p, f) \/ AnadeLinea(p, f)
            /\ Vigente(f)' = Vigente(f) \cup {num[p]}
<1>1. avisos[f] = {}
  BY AvisosQuedan
<1>2. CASE archivo'[f] = archivo[f] /\ temp'[f] = temp[f]
  BY <1>2 DEF Vigente
<1>3. CASE CambiaTemp(p, f)
  <2>1. archivo[f] # Ausente
    <3>1. SUFFICES ASSUME archivo[f] = Ausente PROVE FALSE
      OBVIOUS
    <3>2. PICK q \in Procesos : en[q] = f /\ pc[q] = "renombrar"
      BY <1>1, <3>1 DEF Guardado
    <3>3. Reemplaza(q, f) /\ Reemplaza(p, f) /\ p # q
      BY <1>3, <3>2 DEF Reemplaza, Reemplazando, CambiaTemp
    <3> QED  BY <1>1, <3>3, Solo
  <2> QED  BY <1>3, <2>1 DEF Vigente, CambiaTemp
<1>4. CASE Retira(p, f)
  <2>1. temp[f] = archivo[f] \cup {num[p]}
    BY <1>1, <1>4 DEF Guardado, Copia, Retira
  <2> QED  BY <1>4, <2>1 DEF Vigente, Retira
<1>5. CASE Coloca(p, f)
  BY <1>5 DEF Vigente, Coloca
<1>6. CASE Crea(p, f)
  BY <1>6 DEF Crea
<1>7. CASE AnadeLinea(p, f)
  BY <1>7 DEF Vigente, AnadeLinea
<1> QED  BY <1>2, <1>3, <1>4, <1>5, <1>6, <1>7, Efecto

(***************************************************************************)
(* A number is counted as done by the step that ends work on historial.csv.*)
(***************************************************************************)
LEMMA HechasPaso ==
  ASSUME TypeOK, Anexos, NEW p \in Procesos, Paso(p)
  PROVE  \/ hechas' = hechas
         \/ /\ hechas' = hechas \cup {num[p]}
            /\ en[p] = "historial"
            /\ \/ Escribir(p)
               \/ pc[p] = "renombrar" /\ archivo' = [archivo EXCEPT ![en[p]] = temp[en[p]]]
BY DEF Anexos, Paso, Empezar, AbrirImportar, CerrarImportado, Abrir, AbrirTemp, Leer, Rechazar,
       Quitar, Cerrar, Volcar, Vuelca, Borrar, Renombrar, Continua, Anexar, Escribir, Caida,
       Fracasa, historia

(***************************************************************************)
(* A process goes on to historial.csv when it has put libros.csv in place. *)
(***************************************************************************)
LEMMA PasaAlHistorial ==
  ASSUME TypeOK, NEW p \in Procesos, Paso(p), en'[p] = "historial", Trabaja(p)'
  PROVE  /\ num'[p] = num[p]
         /\ Trabaja(p)
         /\ en[p] = "historial" \/ (en[p] = "libros" /\ pc[p] = "renombrar")
BY DEF TypeOK, Paso, Empezar, AbrirImportar, CerrarImportado, Abrir, AbrirTemp, Leer, Rechazar,
       Quitar, Cerrar, Volcar, Vuelca, Borrar, Renombrar, Continua, Anexar, Escribir, Caida,
       Fracasa, Sigue, Trabaja, Pasos

LEMMA CompletoPaso ==
  ASSUME TypeOK, AbiertosOK, Anexos, Unico, Guardado, NEW p \in Procesos, Paso(p),
         NEW f \in Archivos, avisos'[f] = {}
  PROVE  Completo(f, Vigente(f))'
<1>1. avisos[f] = {} /\ Completo(f, Vigente(f)) /\ Vigente(f) \subseteq Vigente(f)'
  BY AvisosQuedan, VigentePaso DEF Guardado
<1>2. 0 \in Vigente(f)'
  BY <1>1 DEF Completo
<1>3. ASSUME en[p] = f, pc[p] = "renombrar"
      PROVE  num[p] \in Vigente(f)
  BY <1>1, <1>3 DEF Guardado, Copia, Vigente
<1>4. ASSUME f = "libros", NEW q \in Procesos, en[q] = "historial", Trabaja(q)
      PROVE  num[q] \in Vigente(f)
  BY <1>1, <1>4 DEF Completo
<1>5. hechas' \subseteq Vigente(f)'
  <2>1. CASE hechas' = hechas
    BY <1>1, <2>1 DEF Completo
  <2>2. CASE /\ hechas' = hechas \cup {num[p]}
             /\ en[p] = "historial"
             /\ Escribir(p) \/ pc[p] = "renombrar"
    <3>1. Trabaja(p)
      BY <2>2 DEF Trabaja, Escribir
    <3>2. CASE f = "libros"
      BY <1>1, <1>4, <2>2, <3>1, <3>2 DEF Completo
    <3>3. CASE f = "historial" /\ pc[p] = "renombrar"
      BY <1>1, <1>3, <2>2, <3>3 DEF Completo
    <3>4. CASE f = "historial" /\ Escribir(p)
      <4>1. archivo'[f] = archivo[f] \cup {num[p]}
        BY <2>2, <3>4 DEF Escribir, TypeOK
      <4>2. archivo'[f] # Ausente
        <5>1. num[p] \in Nat
          BY DEF TypeOK
        <5> QED  BY <4>1, <5>1 DEF Ausente
      <4>3. num[p] \in Vigente(f)'
        BY <4>1, <4>2 DEF Vigente
      <4> QED  BY <1>1, <2>2, <4>3 DEF Completo
    <3> QED  BY <2>2, <3>2, <3>3, <3>4 DEF Archivos
  <2> QED  BY <2>1, <2>2, HechasPaso
<1>6. ASSUME f = "libros", NEW q \in Procesos, en'[q] = "historial", Trabaja(q)'
      PROVE  num'[q] \in Vigente(f)'
  <2>1. CASE q = p
    <3>1. num'[p] = num[p] /\ num[p] \in Vigente(f)
      BY <1>3, <1>4, <1>6, <2>1, PasaAlHistorial
    <3> QED  BY <1>1, <2>1, <3>1
  <2>2. CASE q # p
    <3>1. num'[q] = num[q] /\ en[q] = "historial" /\ Trabaja(q)
      BY <1>6, <2>2, Otros DEF Trabaja
    <3> QED  BY <1>1, <1>4, <1>6, <3>1
  <2> QED  BY <2>1, <2>2
<1> QED  BY <1>2, <1>5, <1>6 DEF Completo

LEMMA CopiaPaso ==
  ASSUME TypeOK, AbiertosOK, Anexos, Unico, Guardado, NEW p \in Procesos, Paso(p),
         NEW f \in Archivos, avisos'[f] = {}, NEW q \in Procesos, en'[q] = f
  PROVE  Copia(q, f)'
<1>1. avisos[f] = {} /\ f \in Archivos
  BY AvisosQuedan
<1>2. CASE q # p
  <2>1. pc'[q] = pc[q] /\ en[q] = f /\ num'[q] = num[q] /\ leido'[q] = leido[q] /\ Copia(q, f)
    BY <1>1, <1>2, Otros DEF Guardado
  <2>2. CASE Reemplaza(q, f)
    <3>1. archivo'[f] = archivo[f] /\ temp'[f] = temp[f]
      <4>1. ~ Reemplaza(p, f) /\ ~ Anade(p, f)
        BY <1>1, <1>2, <2>2, Solo
      <4>2. /\ ~ CambiaTemp(p, f) /\ ~ Retira(p, f) /\ ~ Coloca(p, f)
            /\ ~ AnadeLinea(p, f) /\ ~ Crea(p, f)
        BY <4>1 DEF Reemplaza, Reemplazando, Anade, CambiaTemp, Retira, Coloca, Crea, AnadeLinea
      <4> QED  BY <4>2, Efecto
    <3> QED  BY <2>1, <3>1 DEF Copia
  <2>3. CASE ~ Reemplaza(q, f)
    BY <2>1, <2>3 DEF Reemplaza, Reemplazando, Copia
  <2> QED  BY <2>2, <2>3
<1>3. CASE q = p
  <2>1. CASE Leer(p)
    BY <1>3, <2>1 DEF Leer, Sigue, TypeOK, Copia, ficheros
  <2>2. CASE Cerrar(p)
    <3>1. en[p] = f /\ leido[p] = archivo[f]
      BY <1>1, <1>3, <2>2 DEF Cerrar, Sigue, Guardado, Copia
    <3> QED  BY <1>3, <2>2, <3>1 DEF Cerrar, Sigue, TypeOK, Copia, ficheros
  <2>3. CASE Volcar(p)
    <3>1. en[p] = f /\ leido[p] = archivo[f]
      BY <1>1, <1>3, <2>3 DEF Volcar, Vuelca, Sigue, Guardado, Copia
    <3> QED  BY <1>3, <2>3, <3>1 DEF Volcar, Vuelca, Sigue, TypeOK, Copia
  <2>4. CASE Borrar(p)
    <3>1. en[p] = f /\ temp[f] = archivo[f] \cup {num[p]}
      BY <1>1, <1>3, <2>4 DEF Borrar, Sigue, Fracasa, Guardado, Copia
    <3> QED  BY <1>3, <2>4, <3>1 DEF Borrar, Sigue, Fracasa, TypeOK, Copia
  <2>5. CASE pc'[p] \notin {"cerrar", "volcar", "borrar", "renombrar"}
    BY <1>3, <2>5 DEF Copia
  <2> QED
    BY <1>3, <2>1, <2>2, <2>3, <2>4, <2>5
       DEF TypeOK, Paso, Empezar, AbrirImportar, CerrarImportado, Abrir, AbrirTemp, Rechazar,
           Quitar, Renombrar, Continua, Anexar, Escribir, Caida, Fracasa, Sigue, Pasos
<1> QED  BY <1>2, <1>3

LEMMA GuardadoPaso ==
  ASSUME TypeOK, AbiertosOK, Anexos, Unico, Guardado, NEW p \in Procesos, Paso(p)
  PROVE  Guardado'
<1> SUFFICES ASSUME NEW f \in Archivos, avisos'[f] = {}, archivo'[f] = Ausente
             PROVE  \E q \in Procesos : en'[q] = f /\ pc'[q] = "renombrar"
  BY CompletoPaso, CopiaPaso DEF Guardado
<1>1. avisos[f] = {}
  BY AvisosQuedan
<1>2. CASE archivo[f] # Ausente
  BY <1>2, Efecto DEF CambiaTemp, Retira, Coloca, Crea, AnadeLinea
<1>3. CASE archivo[f] = Ausente
  <2>1. PICK q \in Procesos : en[q] = f /\ pc[q] = "renombrar"
    BY <1>1, <1>3 DEF Guardado
  <2>2. CASE q # p
    BY <2>1, <2>2, Otros
  <2>3. CASE q = p
    <3>1. Renombrable(f)
      <4>1. num[p] \in temp[f] /\ num[p] \in Nat
        BY <1>1, <2>1, <2>3 DEF Guardado, Copia, TypeOK
      <4>2. temp[f] # Ausente
        BY <4>1 DEF Ausente
      <4>3. Reemplaza(p, f)
        BY <2>1, <2>3 DEF Reemplaza, Reemplazando
      <4>4. TempLibre(f)
        <5> SUFFICES ASSUME NEW r \in Procesos, AbreTemp(r, f)
                     PROVE  FALSE
          BY DEF TempLibre
        <5>1. Reemplaza(r, f) /\ r # p
          BY <2>1, <2>3 DEF AbreTemp, Volcando, Reemplaza, Reemplazando
        <5> QED  BY <1>1, <4>3, <5>1, Solo
      <4> QED  BY <1>3, <4>2, <4>4 DEF Renombrable
    <3>2. ~ Caida(p)
      BY <2>1, <2>3 DEF Caida, Avisa, TypeOK
    <3>3. Renombrar(p)
      BY <2>1, <2>3, <3>2
         DEF Paso, Empezar, AbrirImportar, CerrarImportado, Abrir, AbrirTemp, Leer, Rechazar,
             Quitar, Cerrar, Volcar, Vuelca, Borrar, Anexar, Escribir
    <3>4. archivo'[f] = temp[f]
      <4>1. ASSUME Avisa(f, {"corte"}) PROVE FALSE
        <5>1. "corte" \in avisos'[f]
          BY <4>1 DEF Avisa, TypeOK
        <5> QED  BY <5>1
      <4>2. archivo' = [archivo EXCEPT ![f] = temp[f]]
        BY <2>1, <2>3, <3>1, <3>3, <4>1 DEF Renombrar
      <4> QED  BY <4>2 DEF TypeOK
    <3> QED  BY <3>1, <3>4 DEF Renombrable
  <2> QED  BY <2>2, <2>3
<1> QED  BY <1>2, <1>3
-----------------------------------------------------------------------------
(* No trace of what was refused *)

LEMMA NumerosPaso ==
  ASSUME TypeOK, Numeros, NEW p \in Procesos, Paso(p)
  PROVE  Numeros'
<1>1. operaciones \in Nat /\ (operaciones' = operaciones \/ operaciones' = operaciones + 1)
  BY DEF TypeOK, Paso, Empezar, AbrirImportar, CerrarImportado, Abrir, AbrirTemp, Leer, Rechazar,
         Quitar, Cerrar, Volcar, Vuelca, Borrar, Renombrar, Anexar, Escribir, Caida, cotas
<1>2. /\ hechas' \subseteq hechas \cup {num[p]}
      /\ rechazadas' \subseteq rechazadas \cup {num[p]}
      /\ (hechas' # hechas \/ rechazadas' # rechazadas) => Trabaja(p)
      /\ rechazadas' # rechazadas => ~ Trabaja(p)'
  BY DEF TypeOK, Paso, Empezar, AbrirImportar, CerrarImportado, Abrir, AbrirTemp, Leer, Rechazar,
         Quitar, Cerrar, Volcar, Vuelca, Borrar, Renombrar, Continua, Anexar, Escribir, Caida,
         Fracasa, Sigue, historia, Trabaja
<1>3. Trabaja(p)' => \/ Trabaja(p) /\ num'[p] = num[p]
                     \/ num'[p] = operaciones' /\ operaciones' = operaciones + 1 /\ ~ Trabaja(p)
  BY DEF TypeOK, Paso, Empezar, AbrirImportar, CerrarImportado, Abrir, AbrirTemp, Leer, Rechazar,
         Quitar, Cerrar, Volcar, Vuelca, Borrar, Renombrar, Continua, Anexar, Escribir, Caida,
         Fracasa, Sigue, Trabaja, Pasos
<1>4. \A q \in Procesos \ {p} : num'[q] = num[q] /\ (Trabaja(q)' <=> Trabaja(q))
  BY Otros DEF Trabaja
<1>5. Trabaja(p) => num[p] \in 1 .. operaciones
  BY DEF Numeros
<1>6. hechas' \cup rechazadas' \subseteq 0 .. operaciones'
  BY <1>1, <1>2, <1>5 DEF Numeros
<1>7. 0 \notin rechazadas'
  BY <1>2, <1>5 DEF Numeros
<1>8. ASSUME NEW q \in Procesos, Trabaja(q)'
      PROVE  num'[q] \in 1 .. operaciones' /\ num'[q] \notin rechazadas'
  <2>1. CASE q = p
    <3>1. CASE Trabaja(p) /\ num'[p] = num[p]
      BY <1>1, <1>2, <1>5, <1>8, <2>1, <3>1 DEF Numeros
    <3>2. CASE num'[p] = operaciones' /\ operaciones' = operaciones + 1
      <4>1. rechazadas' = rechazadas
        BY <1>2, <1>8, <2>1
      <4> QED  BY <1>1, <2>1, <3>2, <4>1 DEF Numeros
    <3> QED  BY <1>3, <1>8, <2>1, <3>1, <3>2
  <2>2. CASE q # p
    <3>1. Trabaja(q) /\ num'[q] = num[q]
      BY <1>4, <1>8, <2>2
    <3>2. num[q] \in 1 .. operaciones /\ num[q] \notin rechazadas
      BY <3>1 DEF Numeros
    <3>3. Trabaja(p) => num[q] # num[p]
      BY <2>2, <3>1 DEF Numeros
    <3> QED  BY <1>1, <1>2, <3>1, <3>2, <3>3
  <2> QED  BY <2>1, <2>2
<1>9. ASSUME NEW q \in Procesos, Trabaja(q)', NEW r \in Procesos \ {q}, Trabaja(r)'
      PROVE  num'[q] # num'[r]
  <2>1. CASE q # p /\ r # p
    BY <1>4, <1>9, <2>1 DEF Numeros
  <2>2. ASSUME NEW s \in Procesos \ {p}, Trabaja(s)', Trabaja(p)'
        PROVE  num'[s] # num'[p]
    <3>1. Trabaja(s) /\ num'[s] = num[s] /\ num[s] \in 1 .. operaciones
      BY <1>4, <2>2 DEF Numeros
    <3>2. CASE Trabaja(p) /\ num'[p] = num[p]
      BY <3>1, <3>2 DEF Numeros
    <3>3. CASE num'[p] = operaciones + 1
      BY <1>1, <3>1, <3>3
    <3> QED  BY <1>3, <2>2, <3>2, <3>3
  <2> QED  BY <1>9, <2>1, <2>2
<1> QED  BY <1>6, <1>7, <1>8, <1>9 DEF Numeros

(***************************************************************************)
(* A number is refused by a step of a routine that has not replaced        *)
(* libros.csv, and that step puts nothing in a file.                       *)
(***************************************************************************)
LEMMA RechazadasPaso ==
  ASSUME TypeOK, NEW p \in Procesos, Paso(p), rechazadas' # rechazadas
  PROVE  /\ rechazadas' = rechazadas \cup {num[p]}
         /\ en[p] = "libros" /\ Trabaja(p) /\ pc[p] # "renombrar"
BY DEF TypeOK, Paso, Empezar, AbrirImportar, CerrarImportado, Abrir, AbrirTemp, Leer, Rechazar,
       Quitar, Cerrar, Volcar, Vuelca, Borrar, Renombrar, Continua, Anexar, Escribir, Caida,
       Fracasa, historia, Trabaja

(***************************************************************************)
(* An operation still at libros.csv comes from there or has just begun.    *)
(***************************************************************************)
LEMMA EnLibros ==
  ASSUME TypeOK, NEW p \in Procesos, Paso(p), en'[p] = "libros", Trabaja(p)'
  PROVE  \/ /\ en[p] = "libros" /\ Trabaja(p) /\ num'[p] = num[p]
            /\ pc[p] # "renombrar"
         \/ num'[p] = operaciones + 1 /\ UNCHANGED ficheros
BY DEF TypeOK, Paso, Empezar, AbrirImportar, CerrarImportado, Abrir, AbrirTemp, Leer, Rechazar,
       Quitar, Cerrar, Volcar, Vuelca, Borrar, Renombrar, Continua, Anexar, Escribir, Caida,
       Fracasa, Sigue, Trabaja, Pasos

LEMMA LimpioPaso ==
  ASSUME TypeOK, AbiertosOK, Anexos, Unico, Guardado, Numeros, Limpio, NEW p \in Procesos, Paso(p)
  PROVE  Limpio'
<1> SUFFICES ASSUME NEW f \in Archivos, avisos'[f] = {}
             PROVE  Ajeno(f)'
  BY DEF Limpio
<1>1. Ajeno(f)
  BY AvisosQuedan DEF Limpio
<1>2. Numeros' /\ operaciones \in Nat
  BY NumerosPaso DEF TypeOK
<1>3. operaciones' = operaciones \/ operaciones' = operaciones + 1
  BY DEF Paso, Empezar, AbrirImportar, CerrarImportado, Abrir, AbrirTemp, Leer, Rechazar,
         Quitar, Cerrar, Volcar, Vuelca, Borrar, Renombrar, Anexar, Escribir, Caida, cotas
<1>4. CASE Vigente(f)' = Vigente(f)
  <2>1. Vigente(f)' \subseteq 0 .. operaciones'
    BY <1>1, <1>2, <1>3, <1>4 DEF Ajeno
  <2>2. Vigente(f)' \cap rechazadas' = {}
    <3>1. CASE rechazadas' = rechazadas
      BY <1>1, <1>4, <3>1 DEF Ajeno
    <3>2. CASE rechazadas' # rechazadas
      BY <1>1, <1>4, <3>2, RechazadasPaso DEF Ajeno
    <3> QED  BY <3>1, <3>2
  <2>3. ASSUME NEW q \in Procesos, en'[q] = "libros", Trabaja(q)'
        PROVE  num'[q] \notin Vigente(f)' \/ (f = "libros" /\ pc'[q] = "renombrar")
    <3>1. CASE q # p
      BY <1>1, <1>4, <2>3, <3>1, Otros DEF Ajeno, Trabaja
    <3>2. CASE q = p
      <4>1. CASE en[p] = "libros" /\ Trabaja(p) /\ num'[p] = num[p] /\ pc[p] # "renombrar"
        BY <1>1, <1>4, <3>2, <4>1 DEF Ajeno
      <4>2. CASE num'[p] = operaciones + 1
        <5>1. operaciones + 1 \notin Vigente(f)
          BY <1>1, <1>2 DEF Ajeno
        <5> QED  BY <1>4, <3>2, <4>2, <5>1
      <4> QED  BY <2>3, <3>2, <4>1, <4>2, EnLibros
    <3> QED  BY <3>1, <3>2
  <2> QED  BY <2>1, <2>2, <2>3 DEF Ajeno
<1>5. CASE /\ Retira(p, f) \/ AnadeLinea(p, f)
           /\ Vigente(f)' = Vigente(f) \cup {num[p]}
  <2>1. /\ rechazadas' = rechazadas /\ operaciones' = operaciones
        /\ Trabaja(p)
    BY <1>5 DEF Retira, AnadeLinea, Trabaja
  <2>2. num[p] \in 1 .. operaciones /\ num[p] \notin rechazadas
    BY <2>1 DEF Numeros
  <2>3. Vigente(f)' \subseteq 0 .. operaciones'
    BY <1>1, <1>2, <1>5, <2>1, <2>2 DEF Ajeno
  <2>4. Vigente(f)' \cap rechazadas' = {}
    BY <1>1, <1>5, <2>1, <2>2 DEF Ajeno
  <2>5. ASSUME NEW q \in Procesos, en'[q] = "libros", Trabaja(q)'
        PROVE  num'[q] \notin Vigente(f)' \/ (f = "libros" /\ pc'[q] = "renombrar")
    <3>1. CASE q # p
      <4>1. en[q] = "libros" /\ Trabaja(q) /\ num'[q] = num[q] /\ pc'[q] = pc[q]
        BY <2>5, <3>1, Otros DEF Trabaja
      <4>2. num[q] # num[p]
        BY <2>1, <3>1, <4>1 DEF Numeros
      <4> QED  BY <1>1, <1>5, <4>1, <4>2 DEF Ajeno
    <3>2. CASE q = p /\ Retira(p, f)
      BY <2>5, <3>2 DEF Retira
    <3>3. CASE q = p /\ AnadeLinea(p, f)
      BY <2>5, <3>3 DEF AnadeLinea, Trabaja
    <3> QED  BY <1>5, <3>1, <3>2, <3>3
  <2> QED  BY <2>3, <2>4, <2>5 DEF Ajeno
<1> QED  BY <1>4, <1>5, VigentePaso

-----------------------------------------------------------------------------
(* historial.csv after libros.csv *)

LEMMA HistorialPaso ==
  ASSUME TypeOK, AbiertosOK, Anexos, Unico, Guardado, HistorialTrasLibros,
         NEW p \in Procesos, Paso(p)
  PROVE  HistorialTrasLibros'
<1> SUFFICES ASSUME avisos'["libros"] = {}, avisos'["historial"] = {}
             PROVE  Vigente("historial")' \subseteq Vigente("libros")'
  BY DEF HistorialTrasLibros
<1>1. avisos["libros"] = {} /\ avisos["historial"] = {}
  BY AvisosQuedan DEF Archivos
<1>2. Vigente("historial") \subseteq Vigente("libros")
  BY <1>1 DEF HistorialTrasLibros
<1>3. Vigente("libros") \subseteq Vigente("libros")'
  BY VigentePaso DEF Archivos
<1>4. CASE Vigente("historial")' = Vigente("historial")
  BY <1>2, <1>3, <1>4
<1>5. CASE /\ Retira(p, "historial") \/ AnadeLinea(p, "historial")
           /\ Vigente("historial")' = Vigente("historial") \cup {num[p]}
  <2>1. en[p] = "historial" /\ Trabaja(p)
    BY <1>5 DEF Retira, AnadeLinea, Trabaja
  <2>2. num[p] \in Vigente("libros")
    BY <1>1, <2>1 DEF Guardado, Completo, Archivos
  <2> QED  BY <1>2, <1>3, <1>5, <2>2
<1> QED  BY <1>4, <1>5, VigentePaso DEF Archivos

-----------------------------------------------------------------------------
(* The theorems *)

LEMMA Iniciales == Init => IInv
<1> SUFFICES ASSUME Init PROVE IInv
  OBVIOUS
<1>1. TypeOK /\ AbiertosOK
  BY TiposIniciales
<1>2. \A f \in Archivos : Vigente(f) = {0}
  BY DEF Init, Vigente, Ausente
<1>3. Anexos /\ Unico /\ Numeros
  BY DEF Init, Anexos, Unico, Reemplaza, Reemplazando, Numeros, Trabaja
<1>4. Guardado
  <2>1. \A f \in Archivos : archivo[f] # Ausente
    BY DEF Init, Ausente
  <2> QED  BY <1>2, <2>1 DEF Init, Guardado, Completo, Copia, Trabaja
<1>5. Limpio
  BY <1>2 DEF Init, Limpio, Ajeno, Trabaja
<1>6. HistorialTrasLibros
  BY <1>2 DEF HistorialTrasLibros, Archivos
<1> QED  BY <1>1, <1>3, <1>4, <1>5, <1>6 DEF IInv

LEMMA Quietos == IInv /\ UNCHANGED vars => IInv'
<1> SUFFICES ASSUME IInv, UNCHANGED vars PROVE IInv'
  OBVIOUS
<1>1. TypeOK' /\ AbiertosOK'
  BY TiposPaso DEF IInv
<1>2. Anexos' /\ Unico' /\ Numeros'
  BY DEF IInv, vars, ficheros, proceso, historia, cotas, Anexos, Unico, Reemplaza, Anade,
         Numeros, Trabaja
<1>3. \A f \in Archivos : Vigente(f)' = Vigente(f)
  BY DEF vars, ficheros, Vigente
<1>4. Guardado'
  BY <1>3 DEF IInv, vars, ficheros, proceso, historia, cotas, Guardado, Completo, Copia, Trabaja
<1>5. Limpio'
  BY <1>3 DEF IInv, vars, ficheros, proceso, historia, cotas, Limpio, Ajeno, Trabaja
<1>6. HistorialTrasLibros'
  BY <1>3 DEF IInv, vars, historia, HistorialTrasLibros, Archivos
<1> QED  BY <1>1, <1>2, <1>4, <1>5, <1>6 DEF IInv

LEMMA Inductivo == IInv /\ [Next]_vars => IInv'
<1> SUFFICES ASSUME IInv, [Next]_vars PROVE IInv'
  OBVIOUS
<1>1. ASSUME NEW p \in Procesos, Paso(p) PROVE IInv'
  <2>1. [Next]_vars
    BY <1>1 DEF Next
  <2> QED
    BY <1>1, <2>1, TiposPaso, AnexosPaso, UnicoPaso, GuardadoPaso, NumerosPaso, LimpioPaso,
       HistorialPaso DEF IInv
<1> QED  BY <1>1, Quietos DEF Next

THEOREM Invariante == Spec => []IInv
BY Iniciales, Inductivo, PTL DEF Spec

(***************************************************************************)
(* What returned 0 stays in the file, if nobody else replaced it or added  *)
(* to it meanwhile and no process was cut between remove and rename.       *)
(***************************************************************************)
THEOREM NoSePierde == Spec => []NadaSePierde
<1>1. IInv => NadaSePierde
  <2> SUFFICES ASSUME IInv, NEW f \in Archivos, avisos[f] = {}
               PROVE  Vigente(f) # Ausente /\ {0} \cup hechas \subseteq Vigente(f)
    BY DEF NadaSePierde
  <2>1. Completo(f, Vigente(f))
    BY DEF IInv, Guardado
  <2> QED  BY <2>1 DEF Completo, Ausente
<1> QED  BY <1>1, Invariante, PTL

(***************************************************************************)
(* What was refused, or stopped before its first replacement, is in no file.*)
(***************************************************************************)
THEOREM NoDejaRastro == Spec => []SinRastro
<1>1. IInv => SinRastro
  BY DEF IInv, Limpio, Ajeno, SinRastro
<1> QED  BY <1>1, Invariante, PTL

(***************************************************************************)
(* What historial.csv shows has been counted in libros.csv.                *)
(***************************************************************************)
THEOREM PrimeroLibros == Spec => []HistorialTrasLibros
<1>1. IInv => HistorialTrasLibros
  BY DEF IInv
<1> QED  BY <1>1, Invariante, PTL
-----------------------------------------------------------------------------
(* What is left after a cut *)

(***************************************************************************)
(* A file that was cut stays away, and nobody has more than found that out;*)
(* its temporary file is complete until the next of them empties it.       *)
(***************************************************************************)
Cortado ==
  \A f \in Archivos : avisos[f] = {"corte"} =>
    /\ archivo[f] = Ausente
    /\ temp[f] = {} \/ Completo(f, temp[f])
    /\ \A p \in Procesos : Reemplaza(p, f) => pc[p] = "abrir_temp" /\ ~ abierto[p]

\* A cut is a step of the process that was alone between remove and rename.
LEMMA SeCorta ==
  ASSUME TypeOK, NEW p \in Procesos, Paso(p), NEW f \in Archivos,
         avisos'[f] = {"corte"}, avisos[f] # {"corte"}
  PROVE  /\ avisos[f] = {}
         /\ en[p] = f /\ pc[p] = "renombrar" /\ pc'[p] = "menu"
         /\ UNCHANGED <<ficheros, hechas>>
<1>1. CASE Abrir(p)
  BY <1>1 DEF TypeOK, Abrir, Avisa, AvisoAbrir
<1>2. CASE Anexar(p)
  BY <1>2 DEF TypeOK, Anexar, Avisa, AvisoAnexar
<1>3. CASE Renombrar(p)
  BY <1>3 DEF TypeOK, Renombrar, Avisa, Sigue, historia
<1>4. CASE Caida(p)
  BY <1>4 DEF TypeOK, Caida, Avisa, Sigue
<1>5. CASE avisos' = avisos
  BY <1>5
<1> QED
  BY <1>1, <1>2, <1>3, <1>4, <1>5
     DEF Paso, Empezar, AbrirImportar, CerrarImportado, AbrirTemp, Leer, Rechazar, Quitar, Cerrar,
         Volcar, Vuelca, Borrar, Escribir, historia

\* While f is cut, what is counted in f is what was in it.
LEMMA CompletoTrasCorte ==
  ASSUME TypeOK, AbiertosOK, Anexos, NEW p \in Procesos, Paso(p), NEW f \in Archivos, NEW t,
         archivo[f] = Ausente, ~ (en[p] = f /\ pc[p] = "renombrar"), Completo(f, t)
  PROVE  Completo(f, t)'
<1>1. hechas' \subseteq t
  <2>1. CASE hechas' = hechas
    BY <2>1 DEF Completo
  <2>2. CASE hechas' = hechas \cup {num[p]} /\ en[p] = "historial" /\ Trabaja(p) /\ f = "libros"
    BY <2>2 DEF Completo
  <2>3. CASE Escribir(p) /\ f = "historial"
    BY <2>3 DEF Escribir, Anexos, AbiertosOK, Abre
  <2> QED
    BY <2>1, <2>2, <2>3, HechasPaso DEF Trabaja, Escribir, Archivos
<1>2. ASSUME f = "libros", NEW q \in Procesos, en'[q] = "historial", Trabaja(q)'
      PROVE  num'[q] \in t
  <2>1. en[q] = "historial" /\ Trabaja(q) /\ num'[q] = num[q]
    <3>1. CASE q # p
      BY <1>2, <3>1, Otros DEF Trabaja
    <3>2. CASE q = p
      BY <1>2, <3>2, PasaAlHistorial
    <3> QED
      BY <3>1, <3>2
  <2> QED
    BY <1>2, <2>1 DEF Completo
<1> QED
  BY <1>1, <1>2 DEF Completo

LEMMA CortadoPaso ==
  ASSUME TypeOK, AbiertosOK, Anexos, Unico, Guardado, Cortado, NEW p \in Procesos, Paso(p)
  PROVE  Cortado'
<1> SUFFICES ASSUME NEW f \in Archivos, avisos'[f] = {"corte"}
             PROVE  /\ archivo'[f] = Ausente
                    /\ temp'[f] = {} \/ Completo(f, temp[f])'
                    /\ \A q \in Procesos :
                         Reemplaza(q, f)' => pc'[q] = "abrir_temp" /\ ~ abierto'[q]
  BY DEF Cortado
<1>1. CASE avisos[f] = {"corte"}
  <2>1. /\ archivo[f] = Ausente
        /\ temp[f] = {} \/ Completo(f, temp[f])
        /\ \A q \in Procesos : Reemplaza(q, f) => pc[q] = "abrir_temp" /\ ~ abierto[q]
    BY <1>1 DEF Cortado
  <2>2. ~ (en[p] = f /\ pc[p] = "renombrar")
    BY <2>1 DEF Reemplaza, Reemplazando
  <2>3. ASSUME Reemplaza(p, f)
        PROVE  pc'[p] = "menu" /\ (temp'[f] = {} \/ UNCHANGED temp)
    BY <2>1, <2>3
       DEF TypeOK, Reemplaza, Paso, Empezar, AbrirImportar, CerrarImportado, Abrir, AbrirTemp,
           Leer, Rechazar, Quitar, Cerrar, Volcar, Vuelca, Borrar, Renombrar, Anexar, Escribir,
           Caida, Fracasa, Sigue, ficheros
  <2>4. archivo'[f] = Ausente /\ (temp'[f] = temp[f] \/ temp'[f] = {})
    <3>1. CASE archivo'[f] = archivo[f] /\ temp'[f] = temp[f]
      BY <2>1, <3>1
    <3>2. CASE CambiaTemp(p, f)
      BY <2>1, <2>3, <3>2 DEF CambiaTemp, Reemplaza, Reemplazando
    <3> QED
      BY <1>1, <2>1, <2>2, <3>1, <3>2, Efecto DEF Retira, Coloca, Crea, AnadeLinea
  <2>5. ASSUME temp'[f] = temp[f], Completo(f, temp[f])
        PROVE  Completo(f, temp[f])'
    <3>1. PICK t : t = temp[f]
      OBVIOUS
    <3>2. Completo(f, t)'
      BY <2>1, <2>2, <2>5, <3>1, CompletoTrasCorte
    <3> QED
      BY <2>5, <3>1, <3>2 DEF Completo
  <2>6. ASSUME NEW q \in Procesos, Reemplaza(q, f)'
        PROVE  pc'[q] = "abrir_temp" /\ ~ abierto'[q]
    <3>1. CASE q # p
      BY <2>1, <2>6, <3>1, Otros DEF Reemplaza
    <3>2. CASE q = p
      <4>1. ~ Reemplaza(p, f)
        BY <2>3, <2>6, <3>2 DEF Reemplaza, Reemplazando
      <4>2. Abrir(p) /\ en[p] = f
        BY <2>6, <3>2, <4>1, Empiezan
      <4> QED
        BY <2>1, <3>2, <4>2 DEF TypeOK, Abrir, Sigue
    <3> QED
      BY <3>1, <3>2
  <2> QED
    BY <2>1, <2>4, <2>5, <2>6 DEF Completo
<1>2. CASE avisos[f] # {"corte"}
  <2>1. /\ avisos[f] = {} /\ en[p] = f /\ pc[p] = "renombrar" /\ pc'[p] = "menu"
        /\ archivo' = archivo /\ temp' = temp /\ hechas' = hechas
    BY <1>2, SeCorta DEF ficheros
  <2>2. archivo[f] = Ausente /\ Completo(f, temp[f])
    BY <2>1 DEF Guardado, Copia, Vigente
  <2>3. Completo(f, temp[f])'
    BY <2>1, <2>2, Otros DEF Completo, Trabaja
  <2>4. ASSUME NEW q \in Procesos, Reemplaza(q, f)'
        PROVE  FALSE
    <3>1. q # p /\ Reemplaza(q, f) /\ Reemplaza(p, f)
      BY <2>1, <2>4, Otros DEF Reemplaza, Reemplazando
    <3> QED
      BY <2>1, <3>1, Solo
  <2> QED
    BY <2>1, <2>2, <2>3, <2>4
<1> QED
  BY <1>1, <1>2

(***************************************************************************)
(* After a cut the temporary file has everything, until the next operation *)
(* empties it (Recuperable).                                               *)
(***************************************************************************)
THEOREM SeRecupera == Spec => []Recuperable
<1>1. Init => Cortado
  BY DEF Init, Cortado
<1>2. IInv /\ Cortado /\ [Next]_vars => Cortado'
  <2>1. IInv /\ Cortado /\ UNCHANGED vars => Cortado'
    BY DEF Cortado, Completo, Trabaja, Reemplaza, vars, ficheros, proceso, historia
  <2> QED
    BY <2>1, CortadoPaso DEF IInv, Next
<1>3. IInv /\ Cortado => Recuperable
  BY DEF Cortado, Completo, Recuperable
<1> QED
  BY <1>1, <1>2, <1>3, Invariante, PTL DEF Spec
=============================================================================
