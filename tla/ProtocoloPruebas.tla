-------------------------- MODULE ProtocoloPruebas --------------------------
(***************************************************************************)
(* What is proved about Protocolo, for any clients, catalogue, backlog,    *)
(* kinds of text and bounds.                                               *)
(***************************************************************************)
EXTENDS Protocolo, Numeros, SequenceTheorems, TLAPS

-----------------------------------------------------------------------------
(* Where the reader of a stream is *)

Marcas ==
  [textos : 0 .. 5, toca : {"len", "texto", "id", "exceso", "perdida"},
   ordenes : Nat, orden : Ordenes \cup {"ninguna"}]

Marca(n, q, i, o) == [textos |-> n, toca |-> q, ordenes |-> i, orden |-> o]

(***************************************************************************)
(* At m, the piece x is read and leaves the reader at n.  After a text     *)
(* that is too long the reader is lost.                                    *)
(***************************************************************************)
Lectura(m, x, n) ==
  \/ /\ m.toca = "len" /\ m.textos = 0 /\ x \in ConDatos
     /\ n = Marca(Textos(x), "len", m.ordenes + 1, x)
  \/ /\ m.toca = "len" /\ m.textos = 0 /\ x \in ConISBN
     /\ n = Marca(1, "id", m.ordenes + 1, x)
  \/ /\ m.toca = "len" /\ m.textos = 0 /\ x = "listar"
     /\ n = Marca(0, "len", m.ordenes + 1, x)
  \/ m.toca = "id" /\ x = "id" /\ n = [m EXCEPT !.toca = "len"]
  \/ /\ m.toca = "len" /\ m.textos > 0 /\ x = "len"
     /\ n = Marca(m.textos - 1, "texto", m.ordenes, m.orden)
  \/ m.toca = "texto" /\ x = "texto" /\ n = [m EXCEPT !.toca = "len"]
  \/ /\ m.toca = "len" /\ m.textos > 0 /\ x = "len_cero"
     /\ n = [m EXCEPT !.textos = @ - 1]
  \/ /\ m.toca = "len" /\ m.textos > 0 /\ x = "len_exceso"
     /\ n = [m EXCEPT !.toca = "exceso"]
  \/ m.toca = "exceso" /\ x = "texto" /\ n = [m EXCEPT !.toca = "perdida"]
  \/ m.toca = "perdida" /\ n = m

\* The stream s takes the reader from m to n.
Recorrido(s, m, n) ==
  \E r \in [1 .. Len(s) + 1 -> Marcas] :
    /\ r[1] = m
    /\ r[Len(s) + 1] = n
    /\ \A k \in 1 .. Len(s) : Lectura(r[k], s[k], r[k + 1])

LEMMA RecorridoVacio ==
  ASSUME NEW m \in Marcas
  PROVE  Recorrido(<< >>, m, m)
<1> DEFINE r == [k \in 1 .. Len(<< >>) + 1 |-> m]
<1>1. Len(<< >>) = 0
  OBVIOUS
<1>2. r \in [1 .. Len(<< >>) + 1 -> Marcas] /\ r[1] = m /\ r[Len(<< >>) + 1] = m
  BY <1>1
<1>3. \A k \in 1 .. Len(<< >>) : FALSE
  BY <1>1
<1> HIDE DEF r
<1>4. QED
  BY <1>2, <1>3 DEF Recorrido

LEMMA RecorridoDeNada ==
  ASSUME NEW m, NEW n, Recorrido(<< >>, m, n)
  PROVE  m = n
<1>1. Len(<< >>) = 0
  OBVIOUS
<1>2. QED
  BY <1>1 DEF Recorrido

LEMMA RecorridoUno ==
  ASSUME NEW m \in Marcas, NEW n \in Marcas, NEW x, Lectura(m, x, n)
  PROVE  Recorrido(<<x>>, m, n)
<1> DEFINE r == [k \in 1 .. Len(<<x>>) + 1 |-> IF k = 1 THEN m ELSE n]
<1>1. Len(<<x>>) = 1 /\ <<x>>[1] = x
  OBVIOUS
<1>2. r \in [1 .. Len(<<x>>) + 1 -> Marcas] /\ r[1] = m /\ r[Len(<<x>>) + 1] = n /\ r[2] = n
  BY <1>1
<1>3. \A k \in 1 .. Len(<<x>>) : k = 1 /\ k + 1 = 2
  BY <1>1
<1> HIDE DEF r
<1>4. \A k \in 1 .. Len(<<x>>) : Lectura(r[k], <<x>>[k], r[k + 1])
  BY <1>1, <1>2, <1>3
<1>5. QED
  BY <1>2, <1>4 DEF Recorrido

LEMMA RecorridoDos ==
  ASSUME NEW m \in Marcas, NEW n \in Marcas, NEW o \in Marcas, NEW x, NEW y,
         Lectura(m, x, n), Lectura(n, y, o)
  PROVE  Recorrido(<<x, y>>, m, o)
<1> DEFINE r == [k \in 1 .. Len(<<x, y>>) + 1 |-> IF k = 1 THEN m ELSE IF k = 2 THEN n ELSE o]
<1>1. Len(<<x, y>>) = 2 /\ <<x, y>>[1] = x /\ <<x, y>>[2] = y
  OBVIOUS
<1>2. /\ r \in [1 .. Len(<<x, y>>) + 1 -> Marcas]
      /\ r[1] = m /\ r[2] = n /\ r[3] = o /\ r[Len(<<x, y>>) + 1] = o
  BY <1>1
<1>3. \A k \in 1 .. Len(<<x, y>>) : (k = 1 /\ k + 1 = 2) \/ (k = 2 /\ k + 1 = 3)
  BY <1>1
<1> HIDE DEF r
<1>4. \A k \in 1 .. Len(<<x, y>>) : Lectura(r[k], <<x, y>>[k], r[k + 1])
  BY <1>1, <1>2, <1>3
<1>5. QED
  BY <1>2, <1>4 DEF Recorrido

LEMMA RecorridoSeguido ==
  ASSUME NEW X, NEW s \in Seq(X), NEW t \in Seq(X), NEW m, NEW n, NEW o,
         Recorrido(s, m, n), Recorrido(t, n, o)
  PROVE  Recorrido(s \o t, m, o)
<1>1. PICK f \in [1 .. Len(s) + 1 -> Marcas] :
        /\ f[1] = m
        /\ f[Len(s) + 1] = n
        /\ \A k \in 1 .. Len(s) : Lectura(f[k], s[k], f[k + 1])
  BY DEF Recorrido
<1>2. PICK g \in [1 .. Len(t) + 1 -> Marcas] :
        /\ g[1] = n
        /\ g[Len(t) + 1] = o
        /\ \A k \in 1 .. Len(t) : Lectura(g[k], t[k], g[k + 1])
  BY DEF Recorrido
<1> DEFINE l == Len(s)
           u == s \o t
           r == [k \in 1 .. Len(u) + 1 |-> IF k <= l THEN f[k] ELSE g[k - l]]
<1>3. /\ l \in Nat /\ Len(t) \in Nat /\ Len(u) = l + Len(t)
      /\ \A k \in 1 .. l : u[k] = s[k]
      /\ \A k \in l + 1 .. Len(u) : k - l \in 1 .. Len(t) /\ u[k] = t[k - l]
  OBVIOUS
<1> HIDE DEF l, u
<1>4. r \in [1 .. Len(u) + 1 -> Marcas]
  <2> SUFFICES ASSUME NEW k \in 1 .. Len(u) + 1
               PROVE  (IF k <= l THEN f[k] ELSE g[k - l]) \in Marcas
    OBVIOUS
  <2>1. k <= l => k \in 1 .. Len(s) + 1
    BY <1>3 DEF l
  <2>2. ~ (k <= l) => k - l \in 1 .. Len(t) + 1
    BY <1>3
  <2>3. QED
    BY <1>1, <1>2, <2>1, <2>2
<1>5. /\ \A k \in 1 .. l : r[k] = f[k]
      /\ \A k \in l + 1 .. Len(u) + 1 : r[k] = g[k - l]
  BY <1>3
<1> HIDE DEF r
<1>6. r[1] = m
  <2>1. CASE l = 0
    <3>1. 1 \in l + 1 .. Len(u) + 1 /\ 1 - l = 1
      BY <1>3, <2>1
    <3>2. f[1] = n
      BY <1>1, <2>1 DEF l
    <3>3. QED
      BY <1>1, <1>2, <1>5, <3>1, <3>2
  <2>2. CASE l # 0
    <3>1. 1 \in 1 .. l
      BY <1>3, <2>2
    <3>2. QED
      BY <1>1, <1>5, <3>1
  <2>3. QED
    BY <2>1, <2>2
<1>7. r[Len(u) + 1] = o
  <2>1. Len(u) + 1 \in l + 1 .. Len(u) + 1 /\ (Len(u) + 1) - l = Len(t) + 1
    BY <1>3
  <2>2. QED
    BY <1>2, <1>5, <2>1
<1>8. ASSUME NEW k \in 1 .. Len(u)
      PROVE  Lectura(r[k], u[k], r[k + 1])
  <2>1. CASE k \in 1 .. l /\ k + 1 \in 1 .. l
    BY <1>1, <1>3, <1>5, <2>1 DEF l
  <2>2. CASE k = l
    <3>1. k \in 1 .. l /\ k + 1 \in l + 1 .. Len(u) + 1 /\ (k + 1) - l = 1
      BY <1>3, <1>8, <2>2
    <3>2. r[k] = f[k] /\ u[k] = s[k] /\ r[k + 1] = g[1]
      BY <1>3, <1>5, <3>1
    <3>3. f[k + 1] = n /\ Lectura(f[k], s[k], f[k + 1])
      BY <1>1, <2>2, <3>1 DEF l
    <3>4. QED
      BY <1>2, <3>2, <3>3
  <2>3. CASE k \in l + 1 .. Len(u)
    <3>1. /\ k + 1 \in l + 1 .. Len(u) + 1 /\ k \in l + 1 .. Len(u) + 1
          /\ (k + 1) - l = (k - l) + 1
          /\ k - l \in 1 .. Len(t) /\ u[k] = t[k - l]
      BY <1>3, <2>3
    <3>2. r[k] = g[k - l] /\ r[k + 1] = g[(k - l) + 1]
      BY <1>5, <3>1
    <3>3. QED
      BY <1>2, <3>1, <3>2
  <2>4. QED
    BY <1>3, <1>8, <2>1, <2>2, <2>3
<1>9. Recorrido(u, m, o)
  BY <1>4, <1>6, <1>7, <1>8 DEF Recorrido
<1>10. QED
  BY <1>9 DEF u

LEMMA RecorridoCabeza ==
  ASSUME NEW X, NEW s \in Seq(X), s # << >>, NEW m, NEW o, Recorrido(s, m, o)
  PROVE  \E n \in Marcas : Lectura(m, Head(s), n) /\ Recorrido(Tail(s), n, o)
<1>1. PICK f \in [1 .. Len(s) + 1 -> Marcas] :
        /\ f[1] = m
        /\ f[Len(s) + 1] = o
        /\ \A k \in 1 .. Len(s) : Lectura(f[k], s[k], f[k + 1])
  BY DEF Recorrido
<1>2. /\ Len(s) \in Nat \ {0} /\ Head(s) = s[1]
      /\ Len(Tail(s)) = Len(s) - 1
      /\ \A k \in 1 .. Len(s) - 1 : Tail(s)[k] = s[k + 1]
  OBVIOUS
<1> DEFINE r == [k \in 1 .. Len(Tail(s)) + 1 |-> f[k + 1]]
<1>3. 1 \in 1 .. Len(s) /\ 1 + 1 = 2 /\ 2 \in 1 .. Len(s) + 1
  BY <1>2
<1>4. f[2] \in Marcas /\ Lectura(m, Head(s), f[2])
  BY <1>1, <1>2, <1>3
<1>5. /\ r \in [1 .. Len(Tail(s)) + 1 -> Marcas]
      /\ \A k \in 1 .. Len(s) : r[k] = f[k + 1]
  BY <1>1, <1>2
<1> HIDE DEF r
<1>6. r[1] = f[2] /\ r[Len(Tail(s)) + 1] = o
  <2>1. Len(s) \in 1 .. Len(s) /\ Len(Tail(s)) + 1 = Len(s)
    BY <1>2
  <2>2. QED
    BY <1>1, <1>3, <1>5, <2>1
<1>7. ASSUME NEW k \in 1 .. Len(Tail(s))
      PROVE  Lectura(r[k], Tail(s)[k], r[k + 1])
  <2>1. k \in 1 .. Len(s) /\ k + 1 \in 1 .. Len(s) /\ Tail(s)[k] = s[k + 1]
    BY <1>2, <1>7
  <2>2. QED
    BY <1>1, <1>5, <2>1
<1>8. Recorrido(Tail(s), f[2], o)
  BY <1>5, <1>6, <1>7 DEF Recorrido
<1>9. QED
  BY <1>4, <1>8

(***************************************************************************)
(* A reader that is lost reads on and stays lost.                          *)
(***************************************************************************)
LEMMA RecorridoPerdido ==
  ASSUME NEW X, NEW s \in Seq(X), NEW m \in Marcas, m.toca = "perdida"
  PROVE  Recorrido(s, m, m)
<1> DEFINE r == [k \in 1 .. Len(s) + 1 |-> m]
<1>1. r \in [1 .. Len(s) + 1 -> Marcas] /\ r[1] = m /\ r[Len(s) + 1] = m
  BY LenProperties
<1>2. \A k \in 1 .. Len(s) : r[k] = m /\ r[k + 1] = m
  BY LenProperties
<1> HIDE DEF r
<1>3. \A k \in 1 .. Len(s) : Lectura(r[k], s[k], r[k + 1])
  BY <1>2 DEF Lectura
<1>4. QED
  BY <1>1, <1>3 DEF Recorrido

(***************************************************************************)
(* What holds of the first place of a sequence and passes from each place  *)
(* to the next holds of the last: an earliest place without it would have  *)
(* one before it.  Here: the commands read do not decrease, and if they    *)
(* are as many as at first, no command has been read.                      *)
(***************************************************************************)
NoAntes(m, n) == m.ordenes <= n.ordenes /\ (n.ordenes = m.ordenes => n.orden = m.orden)

LEMMA LecturaNoAntes ==
  ASSUME NEW l \in Marcas, NEW m \in Marcas, NEW n \in Marcas, NEW x, Lectura(m, x, n), NoAntes(l, m)
  PROVE  NoAntes(l, n)
<1>1. l.ordenes \in Nat /\ m.ordenes \in Nat /\ n.ordenes \in Nat
  BY DEF Marcas
<1>2. CASE n.ordenes = m.ordenes + 1
  BY <1>1, <1>2 DEF NoAntes
<1>3. CASE n.ordenes = m.ordenes /\ n.orden = m.orden
  BY <1>1, <1>3 DEF NoAntes
<1>4. CASE m.toca = "len" /\ m.textos = 0
  <2>1. n.ordenes = m.ordenes + 1
    BY <1>4 DEF Lectura, Marca
  <2>2. QED
    BY <1>2, <2>1
<1>5. CASE ~ (m.toca = "len" /\ m.textos = 0)
  <2>1. n.ordenes = m.ordenes /\ n.orden = m.orden
    BY <1>5 DEF Lectura, Marca, Marcas
  <2>2. QED
    BY <1>3, <2>1
<1>6. QED
  BY <1>4, <1>5

LEMMA RecorridoNoAntes ==
  ASSUME NEW X, NEW s \in Seq(X), NEW m \in Marcas, NEW o, Recorrido(s, m, o)
  PROVE  NoAntes(m, o)
<1>1. PICK f \in [1 .. Len(s) + 1 -> Marcas] :
        /\ f[1] = m
        /\ f[Len(s) + 1] = o
        /\ \A k \in 1 .. Len(s) : Lectura(f[k], s[k], f[k + 1])
  BY DEF Recorrido
<1>2. Len(s) \in Nat
  OBVIOUS
<1> DEFINE T == {k \in 1 .. Len(s) + 1 : ~ NoAntes(m, f[k])}
<1>3. SUFFICES ASSUME T # {} PROVE FALSE
  <2>1. Len(s) + 1 \in 1 .. Len(s) + 1
    BY <1>2
  <2>2. QED
    BY <1>1, <2>1
<1>4. PICK k \in T : \A j \in T : k <= j
  <2>1. T \in SUBSET Nat
    OBVIOUS
  <2> HIDE DEF T
  <2>2. QED
    BY <1>3, <2>1, Minimo
<1>5. k # 1
  BY <1>1 DEF NoAntes, Marcas
<1>6. k - 1 \in 1 .. Len(s) /\ (k - 1) + 1 = k /\ k - 1 \in 1 .. Len(s) + 1
  BY <1>2, <1>5
<1>7. NoAntes(m, f[k - 1])
  <2>1. k - 1 \notin T
    BY <1>4, <1>6
  <2>2. QED
    BY <1>6, <2>1
<1>8. Lectura(f[k - 1], s[k - 1], f[k]) /\ f[k - 1] \in Marcas /\ f[k] \in Marcas
  BY <1>1, <1>6
<1>9. NoAntes(m, f[k])
  BY <1>7, <1>8, LecturaNoAntes
<1>10. QED
  BY <1>9

(***************************************************************************)
(* Between two places with as many commands read, where a command is       *)
(* expected first, nothing has been read.                                  *)
(***************************************************************************)
LEMMA RecorridoSinOrdenes ==
  ASSUME NEW X, NEW s \in Seq(X), NEW m \in Marcas, NEW o \in Marcas, Recorrido(s, m, o),
         m.toca = "len", m.textos = 0, o.ordenes = m.ordenes
  PROVE  s = << >> /\ o = m
<1>1. CASE s = << >>
  BY <1>1, RecorridoDeNada
<1>2. CASE s # << >>
  <2>1. PICK n \in Marcas : Lectura(m, Head(s), n) /\ Recorrido(Tail(s), n, o)
    BY <1>2, RecorridoCabeza
  <2>2. n.ordenes = m.ordenes + 1 /\ m.ordenes \in Nat
    BY <2>1 DEF Lectura, Marca, Marcas
  <2>3. Tail(s) \in Seq(X)
    BY <1>2
  <2>4. n.ordenes <= o.ordenes
    BY <2>1, <2>3, RecorridoNoAntes DEF NoAntes
  <2>5. QED
    BY <2>2, <2>4
<1>3. QED
  BY <1>1, <1>2

\* Where a command, an identifier or a length is expected, no text comes.
LEMMA NoTexto ==
  ASSUME NEW X, NEW s \in Seq(X), s # << >>, NEW m \in Marcas, NEW o, Recorrido(s, m, o),
         m.toca \in {"len", "id"}
  PROVE  Head(s) # "texto"
<1>1. PICK n \in Marcas : Lectura(m, Head(s), n)
  BY RecorridoCabeza
<1>2. QED
  BY <1>1 DEF Lectura, ConDatos, ConISBN

\* After the length of a text that is too long come the bytes, and the reader is lost.
LEMMA TrasExceso ==
  ASSUME NEW X, NEW s \in Seq(X), NEW m \in Marcas, NEW o \in Marcas, Recorrido(s, m, o),
         m.toca = "exceso", o.toca # "exceso"
  PROVE  s # << >> /\ Head(s) = "texto" /\ o = [m EXCEPT !.toca = "perdida"]
<1>1. s # << >>
  BY RecorridoDeNada
<1>2. PICK n \in Marcas : Lectura(m, Head(s), n) /\ Recorrido(Tail(s), n, o)
  BY <1>1, RecorridoCabeza
<1>3. Head(s) = "texto" /\ n = [m EXCEPT !.toca = "perdida"]
  BY <1>2 DEF Lectura
<1>4. n.toca = "perdida"
  BY <1>3 DEF Marcas
<1>5. o = n
  <2>1. PICK f \in [1 .. Len(Tail(s)) + 1 -> Marcas] :
          /\ f[1] = n
          /\ f[Len(Tail(s)) + 1] = o
          /\ \A k \in 1 .. Len(Tail(s)) : Lectura(f[k], Tail(s)[k], f[k + 1])
    BY <1>2 DEF Recorrido
  <2>2. Len(Tail(s)) \in Nat
    BY <1>1
  <2> DEFINE l == Len(Tail(s))
             T == {k \in 1 .. l + 1 : f[k] # n}
  <2>3. SUFFICES ASSUME T # {} PROVE FALSE
    <3>1. l + 1 \in 1 .. l + 1
      BY <2>2
    <3>2. QED
      BY <2>1, <3>1
  <2>4. PICK k \in T : \A j \in T : k <= j
    <3>1. T \in SUBSET Nat
      OBVIOUS
    <3> HIDE DEF T
    <3>2. QED
      BY <2>3, <3>1, Minimo
  <2>5. k # 1
    BY <2>1
  <2>6. k - 1 \in 1 .. l /\ (k - 1) + 1 = k /\ k - 1 \in 1 .. l + 1
    BY <2>2, <2>5
  <2>7. f[k - 1] = n
    <3>1. k - 1 \notin T
      BY <2>4, <2>6
    <3>2. QED
      BY <2>6, <3>1
  <2>8. Lectura(n, Tail(s)[k - 1], f[k])
    BY <2>1, <2>6, <2>7
  <2>9. f[k] = n
    BY <1>4, <2>8 DEF Lectura
  <2>10. QED
    BY <2>9
<1>6. QED
  BY <1>1, <1>3, <1>5

-----------------------------------------------------------------------------
(* The inductive invariant *)

\* The commands of c the server has read.
Leidas(c) == IF atiende = c THEN leidas ELSE 0

\* The count and the lines of a listing of c have differed, or the count ended early.
Descolocado(c) == c \in desajustes

\* Where the server is in the stream of c.
EnServidor(c) ==
  IF atiende # c \/ leidas = 0 THEN Marca(0, "len", 0, "ninguna")
  ELSE Marca(IF paso = "cadenas" THEN faltan ELSE IF paso = "id" THEN 1 ELSE 0,
             IF paso = "id" THEN "id" ELSE "len", leidas, comando)

\* Where c is, when it has sent no text too long.
EnCliente(c) ==
  Marca(IF estado[c] = "isbn" THEN 1
        ELSE IF estado[c] = "datos" THEN Textos(orden[c]) ELSE 0,
        IF estado[c] = "datos" /\ orden[c] \in ConISBN THEN "id" ELSE "len",
        enviadas[c], orden[c])

(***************************************************************************)
(* What c has sent ends where c is; or the server will be lost in it, and  *)
(* then c has gone no further than to wait for the answer.                 *)
(***************************************************************************)
Final(c, m) ==
  \/ m = EnCliente(c)
  \/ estado[c] = "fin" /\ m.toca \notin {"texto", "exceso", "perdida"}
  \/ /\ c \in largas
     /\ m.toca = "perdida"
     /\ ~ Descolocado(c) /\ estado[c] # "fin" =>
          estado[c] = "espera" /\ m.ordenes = enviadas[c] /\ m.orden = orden[c]

\* The server takes the bytes of a text for a length or for a command.
Perdido(c) ==
  /\ c \in largas
  /\ atiende = c
  /\ paso \in {"cadenas", "orden"}
  /\ aServidor[c] # << >>
  /\ Head(aServidor[c]) = "texto"

Encuadre(c) ==
  abierta[c] /\ (estado[c] = "fin" => aServidor[c] # << >>) =>
    \/ Perdido(c)
    \/ \E m \in Marcas : Final(c, m) /\ Recorrido(aServidor[c], EnServidor(c), m)

\* What a state of the client says of its command.
EstadoOrden(c) ==
  /\ estado[c] = "datos" => orden[c] \in ConDatos \cup ConISBN
  /\ estado[c] = "isbn" => orden[c] \in ConISBN
  /\ estado[c] = "espera_id" => orden[c] = "login"
  /\ estado[c] \in {"lista", "bytes"} => orden[c] = "listar"
  /\ estado[c] = "espera" => orden[c] \in Ordenes

\* What a step of the server says of the command.
PasoComando ==
  /\ paso = "id" => comando \in ConISBN /\ faltan = 1
  /\ paso = "cadenas" => comando \in ConDatos \cup ConISBN
  /\ paso \in {"contar", "enviar"} => comando = "listar"
  /\ paso = "cadenas" => faltan <= 5
  /\ paso \notin {"accept", "orden"} => leidas > 0

\* Who is attended and who is in the backlog have their connections open.
EnCola ==
  /\ \A k \in 1 .. Len(cola) : abierta[cola[k]] /\ cola[k] # atiende
  /\ \A j, k \in 1 .. Len(cola) : cola[j] = cola[k] => j = k

Conexiones ==
  /\ atiende # Nadie => abierta[atiende]
  /\ \A c \in Clientes :
       /\ ~ abierta[c] => aServidor[c] = << >>
       /\ abierta[c] => c \notin cortadas
       /\ ~ abierta[c] => estado[c] \in {"fuera", "fin"} \/ c \in cortadas
       /\ estado[c] = "fuera" => ~ abierta[c] /\ enviadas[c] = 0 /\ orden[c] = "ninguna"
       /\ estado[c] = "fuera" => aCliente[c] = << >> /\ c \notin cortadas

(***************************************************************************)
(* The pieces on their way to c answer its last command, and are those     *)
(* that c is about to read.                                                *)
(***************************************************************************)
Etiquetas(c) == \A k \in 1 .. Len(aCliente[c]) : aCliente[c][k].orden = enviadas[c]

RespuestaDe(o, a, n) ==
  \/ /\ o = "login" /\ Len(a) = 1 /\ a[1].valor = "login_fail"
  \/ /\ o = "login" /\ Len(a) = 2 /\ a[1].valor = "login_ok" /\ a[2].valor = "id_usuario"
  \/ /\ o \in Ordenes \ {"login", "listar"} /\ Len(a) = 1
     /\ a[1].valor \in {"ok", "error", "uno", "cero"}
  \/ /\ o = "listar" /\ Len(a) = 1 /\ a[1].valor = "error" /\ a[1].cuantos > 0
  \/ /\ o = "listar" /\ Len(a) = 1 /\ a[1].valor = "cantidad" /\ a[1].cuantos = n
  \/ /\ o = "listar" /\ Len(a) = 2 /\ a[1].valor = "cantidad" /\ a[1].cuantos = n
     /\ a[2].valor = "error" /\ n > 0
  \/ /\ o = "listar" /\ Len(a) = 2 * n + 1
     /\ a[1].valor = "cantidad" /\ a[1].cuantos = n
     /\ \A j \in 1 .. n : a[2 * j].valor = "len"

Forma(c) ==
  LET a == aCliente[c] IN
  /\ estado[c] \in {"menu", "datos", "isbn", "bytes"} => a = << >>
  /\ estado[c] = "espera" => a = << >> \/ RespuestaDe(orden[c], a, vistos[c])
  /\ estado[c] = "espera_id" =>
       a = << >> \/ (Len(a) = 1 /\ a[1].valor = "id_usuario")
  /\ estado[c] = "lista" =>
       \/ a = << >>
       \/ Len(a) = 1 /\ a[1].valor = "error" /\ porRecibir[c] > 0
       \/ /\ Len(a) = 2 * porRecibir[c]
          /\ \A j \in 1 .. porRecibir[c] : a[2 * j - 1].valor = "len"

\* The client is waiting for the answer of the server.
EnEspera(c) == aCliente[c] = << >> /\ estado[c] \in {"datos", "isbn", "espera"}

\* The client has got, or will get, all of its answer.
Servido(c) ==
  /\ estado[c] # "bytes"
  /\ estado[c] \in {"espera", "espera_id"} => aCliente[c] # << >>
  /\ estado[c] = "espera" /\ orden[c] = "listar" =>
       Len(aCliente[c]) = 2 * vistos[c] + 1 /\ aCliente[c][1].valor = "cantidad"
  /\ estado[c] = "lista" => Len(aCliente[c]) = 2 * porRecibir[c]

(***************************************************************************)
(* Server and client take turns: at most one command is yet to be read,    *)
(* and then the client waits.                                              *)
(***************************************************************************)
AlDia(c) ==
  /\ Leidas(c) <= enviadas[c]
  /\ ~ Perdido(c) => enviadas[c] <= Leidas(c) + 1
  /\ Leidas(c) < enviadas[c] => EnEspera(c)

\* The server is reading or counting for the command the client waits for.
Leyendo(c) ==
  atiende = c /\ paso \in {"id", "cadenas", "contar"} =>
    leidas = enviadas[c] /\ EnEspera(c) /\ comando = orden[c]

(***************************************************************************)
(* Between the count and the lines of a listing.  A client that has read a *)
(* count of no lines goes on.                                              *)
(***************************************************************************)
Enviando(c) ==
  atiende = c /\ paso = "enviar" =>
    \/ /\ leidas = enviadas[c] /\ orden[c] = "listar" /\ estado[c] = "espera"
       /\ Len(aCliente[c]) = 1
       /\ aCliente[c][1].valor = "cantidad" /\ aCliente[c][1].cuantos = vistos[c]
    \/ /\ leidas = enviadas[c] /\ estado[c] = "lista"
       /\ aCliente[c] = << >> /\ porRecibir[c] = vistos[c] /\ cache[c] = 0
    \/ /\ vistos[c] = 0 /\ aCliente[c] = << >>
       /\ estado[c] \in {"menu", "datos", "isbn", "espera"}
       /\ estado[c] # "menu" => leidas < enviadas[c]

\* A client whose text lost the server has nothing more to type.
Extraviado(c) == Perdido(c) /\ leidas = enviadas[c] => estado[c] \notin {"datos", "isbn"}

\* The server has done with the last command of c.
Atendido(c) ==
  Leidas(c) = enviadas[c] /\ (atiende = c => paso = "orden") /\ c \notin silencios =>
    Servido(c)

Turno(c) == AlDia(c) /\ Leyendo(c) /\ Enviando(c) /\ Extraviado(c) /\ Atendido(c)

Compas(c) ==
  ~ Descolocado(c) /\ estado[c] \notin {"fin", "fuera"} =>
    /\ Etiquetas(c)
    /\ Forma(c)
    /\ abierta[c] => Turno(c)

(***************************************************************************)
(* What a listing has put in the cache.                                    *)
(***************************************************************************)
Catalogo(c) ==
  estado[c] # "fin" /\ c \notin desajustes \cup cortadas =>
    /\ cacheado[c] =>
         /\ cache[c] = vistos[c]
         /\ estado[c] \notin {"lista", "bytes"}
         /\ estado[c] = "espera" => orden[c] # "listar"
    /\ ~ cacheado[c] /\ estado[c] \notin {"lista", "bytes"} => cache[c] = 0
    /\ estado[c] \in {"lista", "bytes"} =>
         \/ cache[c] + porRecibir[c] = vistos[c]
         \/ estado[c] = "lista" /\ porRecibir[c] > 0 /\ aCliente[c] = << >>

(***************************************************************************)
(* While no import has lost lines, those still to be inserted are what is  *)
(* missing from the table; and each client was counted a whole table,      *)
(* unless it was counted during an import or after one that lost some.     *)
(***************************************************************************)
TablaEntera ==
  /\ ~ roto => libros + porImportar >= Libros
  /\ \A c \in Clientes : vistos[c] >= Libros \/ c \in aMedias

Inv ==
  /\ ConversacionOK /\ PasoComando /\ EnCola /\ Conexiones /\ TablaOK /\ TablaEntera
  /\ \A c \in Clientes : EstadoOrden(c) /\ Encuadre(c) /\ Compas(c) /\ Catalogo(c)

-----------------------------------------------------------------------------
(* Type correctness *)

Base == ConversacionOK /\ PasoComando /\ EnCola /\ Conexiones

LEMMA DeTrozos ==
  ASSUME NEW s \in {"normal", "vacia", "larga"}
  PROVE  Trozos(s) \in Seq(Enviables) /\ Trozos(s) # << >>
<1>1. /\ <<"len_cero">> \in Seq(Enviables)
      /\ <<"len", "texto">> \in Seq(Enviables)
      /\ <<"len_exceso", "texto">> \in Seq(Enviables)
  BY DEF Enviables
<1>2. <<"len_cero">> # << >> /\ <<"len", "texto">> # << >> /\ <<"len_exceso", "texto">> # << >>
  OBVIOUS
<1>3. QED
  BY <1>1, <1>2 DEF Trozos

LEMMA DeFormulario ==
  ASSUME NEW n, NEW k, NEW s \in Cadenas
  PROVE  Formulario(n, k, s) \in Seq(Enviables)
<1> DEFINE C(j) == Trozos(IF j = k THEN s ELSE "normal")
<1>1. \A j : C(j) \in Seq(Enviables)
  BY ConstantesOK, DeTrozos
<1> HIDE DEF C
<1>2. /\ C(1) \o C(2) \in Seq(Enviables)
      /\ C(1) \o C(2) \o C(3) \o C(4) \o C(5) \in Seq(Enviables)
  BY <1>1
<1>3. QED
  BY <1>2 DEF Formulario, C

LEMMA SeManda ==
  ASSUME ConversacionOK, NEW c \in Clientes, NEW t \in Seq(Enviables), Manda(c, t)
  PROVE  /\ aServidor' \in [Clientes -> Seq(Enviables)]
         /\ aServidor'[c] = IF abierta[c] THEN aServidor[c] \o t ELSE aServidor[c]
         /\ \A d \in Clientes \ {c} : aServidor'[d] = aServidor[d]
<1>1. aServidor[c] \in Seq(Enviables)
  BY DEF ConversacionOK
<1>2. aServidor[c] \o t \in Seq(Enviables)
  BY <1>1
<1>3. QED
  BY <1>2 DEF ConversacionOK, Manda

(***************************************************************************)
(* A step of client d touches only what is of d.                           *)
(***************************************************************************)
DeCliente(d) ==
  /\ UNCHANGED <<abierta, servidor, silencios, desajustes, cortadas, vistos>>
  /\ largas \subseteq largas' /\ largas' \subseteq largas \cup {d}
  /\ estado[d] \notin {"fuera", "fin"} /\ estado'[d] # "fuera"
  /\ ~ abierta[d] => aServidor'[d] = aServidor[d]
  /\ \A c \in Clientes \ {d} :
       /\ estado'[c] = estado[c] /\ orden'[c] = orden[c] /\ enviadas'[c] = enviadas[c]
       /\ porRecibir'[c] = porRecibir[c] /\ cache'[c] = cache[c] /\ cacheado'[c] = cacheado[c]
       /\ aServidor'[c] = aServidor[c] /\ aCliente'[c] = aCliente[c]

LEMMA DeClienteElegir ==
  ASSUME ConversacionOK, NEW d \in Clientes, NEW o \in Ordenes, Elegir(d, o)
  PROVE  ConversacionOK' /\ DeCliente(d)
<1>1. Manda(d, <<o>>) /\ <<o>> \in Seq(Enviables)
  BY DEF Elegir, Enviables
<1>2. /\ aServidor' \in [Clientes -> Seq(Enviables)]
      /\ ~ abierta[d] => aServidor'[d] = aServidor[d]
      /\ \A c \in Clientes \ {d} : aServidor'[c] = aServidor[c]
  BY <1>1, SeManda
<1>3. enviadas[d] + 1 \in 0 .. MaxOrdenes
  BY ConstantesOK DEF Elegir, ConversacionOK
<1>4. QED
  BY <1>2, <1>3 DEF Elegir, Pasa, ConversacionOK, DeCliente, servidor, historia, listado, cotas

LEMMA DeClienteEscribirDatos ==
  ASSUME ConversacionOK, NEW d \in Clientes, NEW s \in Cadenas, NEW k, EscribirDatos(d, s, k)
  PROVE  ConversacionOK' /\ DeCliente(d)
<1>1. /\ aServidor' \in [Clientes -> Seq(Enviables)]
      /\ ~ abierta[d] => aServidor'[d] = aServidor[d]
      /\ \A c \in Clientes \ {d} : aServidor'[c] = aServidor[c]
  BY SeManda, DeFormulario DEF EscribirDatos
<1>2. largas' \subseteq Clientes /\ largas \subseteq largas' /\ largas' \subseteq largas \cup {d}
  BY DEF EscribirDatos, ConversacionOK
<1>3. QED
  BY <1>1, <1>2 DEF EscribirDatos, Pasa, ConversacionOK, DeCliente, servidor, listado, cotas

LEMMA DeClienteEscribirId ==
  ASSUME ConversacionOK, NEW d \in Clientes, EscribirId(d)
  PROVE  ConversacionOK' /\ DeCliente(d)
<1>1. Manda(d, <<"id">>) /\ <<"id">> \in Seq(Enviables)
  BY DEF EscribirId, Enviables
<1>2. /\ aServidor' \in [Clientes -> Seq(Enviables)]
      /\ ~ abierta[d] => aServidor'[d] = aServidor[d]
      /\ \A c \in Clientes \ {d} : aServidor'[c] = aServidor[c]
  BY <1>1, SeManda
<1>3. QED
  BY <1>2 DEF EscribirId, Pasa, ConversacionOK, DeCliente, servidor, historia, listado, cotas

LEMMA DeClienteEscribirISBN ==
  ASSUME ConversacionOK, NEW d \in Clientes, NEW s \in Cadenas, EscribirISBN(d, s)
  PROVE  ConversacionOK' /\ DeCliente(d)
<1>1. /\ aServidor' \in [Clientes -> Seq(Enviables)]
      /\ ~ abierta[d] => aServidor'[d] = aServidor[d]
      /\ \A c \in Clientes \ {d} : aServidor'[c] = aServidor[c]
  BY SeManda, DeTrozos, ConstantesOK DEF EscribirISBN
<1>2. largas' \subseteq Clientes /\ largas \subseteq largas' /\ largas' \subseteq largas \cup {d}
  BY DEF EscribirISBN, ConversacionOK
<1>3. QED
  BY <1>1, <1>2 DEF EscribirISBN, Pasa, ConversacionOK, DeCliente, servidor, listado, cotas

\* What is left of a channel after reading one piece, or two.
LEMMA SeRecibe ==
  ASSUME ConversacionOK, NEW d \in Clientes, aCliente[d] # << >>
  PROVE  /\ Head(aCliente[d]) \in Respuestas
         /\ Tail(aCliente[d]) \in Seq(Respuestas)
         /\ Len(aCliente[d]) >= 2 => Tail(Tail(aCliente[d])) \in Seq(Respuestas)
<1>1. aCliente[d] \in Seq(Respuestas)
  BY DEF ConversacionOK
<1>2. Tail(aCliente[d]) \in Seq(Respuestas) /\ Len(Tail(aCliente[d])) = Len(aCliente[d]) - 1
  BY <1>1
<1>3. \A l \in Nat : l >= 2 => l - 1 # 0
  OBVIOUS
<1>4. Len(aCliente[d]) \in Nat /\ Len(<< >>) = 0
  BY <1>1
<1>5. Len(aCliente[d]) >= 2 => Tail(aCliente[d]) # << >>
  BY <1>2, <1>3, <1>4
<1>6. QED
  BY <1>1, <1>2, <1>5

LEMMA DeClienteRecibirRespuesta ==
  ASSUME ConversacionOK, NEW d \in Clientes, RecibirRespuesta(d) \/ RecibirId(d)
  PROVE  ConversacionOK' /\ DeCliente(d)
<1>1. /\ aCliente' \in [Clientes -> Seq(Respuestas)]
      /\ \A c \in Clientes \ {d} : aCliente'[c] = aCliente[c]
  BY SeRecibe DEF ConversacionOK, RecibirRespuesta, RecibirId
<1>2. /\ estado[d] \in {"espera", "espera_id"}
      /\ \E e \in {"menu", "espera_id"} : estado' = [estado EXCEPT ![d] = e]
      /\ UNCHANGED <<orden, enviadas, porRecibir, cache, cacheado, aServidor, abierta,
                     servidor, historia, cotas>>
  BY DEF RecibirRespuesta, RecibirId, Pasa
<1>3. QED
  BY <1>1, <1>2 DEF ConversacionOK, DeCliente, servidor, historia, listado, cotas

LEMMA DeClienteRecibirCantidad ==
  ASSUME ConversacionOK, NEW d \in Clientes, RecibirCantidad(d)
  PROVE  ConversacionOK' /\ DeCliente(d)
<1>1. aCliente[d] # << >> =>
        Head(aCliente[d]).cuantos \in Nat /\ Tail(aCliente[d]) \in Seq(Respuestas)
  BY SeRecibe DEF Respuestas
<1>2. /\ aCliente \in [Clientes -> Seq(Respuestas)]
      /\ porRecibir \in [Clientes -> Nat]
  BY DEF ConversacionOK
<1>3. /\ aCliente' \in [Clientes -> Seq(Respuestas)]
      /\ porRecibir' \in [Clientes -> Nat]
      /\ \A c \in Clientes \ {d} : aCliente'[c] = aCliente[c] /\ porRecibir'[c] = porRecibir[c]
  BY <1>1, <1>2 DEF RecibirCantidad
<1>4. QED
  BY <1>3 DEF RecibirCantidad, Pasa, ConversacionOK, DeCliente, servidor, historia, listado, cotas

LEMMA DeClienteRecibirLibro ==
  ASSUME ConversacionOK, NEW d \in Clientes, RecibirLibro(d)
  PROVE  ConversacionOK' /\ DeCliente(d)
<1>1. porRecibir[d] - 1 \in Nat /\ cache[d] + 1 \in Nat
  BY DEF ConversacionOK, RecibirLibro
<1>2. Len(aCliente[d]) >= 2 => aCliente[d] # << >>
  BY DEF ConversacionOK
<1> DEFINE a == aCliente[d]
<1>6. /\ a # << >> => Tail(a) \in Seq(Respuestas)
      /\ Len(a) >= 2 => Tail(Tail(a)) \in Seq(Respuestas)
  BY <1>2, SeRecibe
<1>7. /\ aCliente \in [Clientes -> Seq(Respuestas)]
      /\ porRecibir \in [Clientes -> Nat]
      /\ cache \in [Clientes -> Nat]
  BY DEF ConversacionOK
<1>3. /\ aCliente' \in [Clientes -> Seq(Respuestas)]
      /\ porRecibir' \in [Clientes -> Nat]
      /\ cache' \in [Clientes -> Nat]
      /\ \A c \in Clientes \ {d} :
           aCliente'[c] = aCliente[c] /\ porRecibir'[c] = porRecibir[c] /\ cache'[c] = cache[c]
  <2>1. \A b : aCliente' = [aCliente EXCEPT ![d] = b] /\ b \in Seq(Respuestas) =>
          /\ aCliente' \in [Clientes -> Seq(Respuestas)]
          /\ \A c \in Clientes \ {d} : aCliente'[c] = aCliente[c]
    BY <1>7
  <2>2. \/ /\ Len(a) >= 2
           /\ aCliente' = [aCliente EXCEPT ![d] = Tail(Tail(a))]
           /\ cache' = [cache EXCEPT ![d] = @ + 1]
           /\ porRecibir' = [porRecibir EXCEPT ![d] = @ - 1]
        \/ /\ a # << >>
           /\ aCliente' = [aCliente EXCEPT ![d] = Tail(a)]
           /\ UNCHANGED <<cache, porRecibir>>
        \/ /\ porRecibir' = [porRecibir EXCEPT ![d] = 0]
           /\ UNCHANGED <<aCliente, cache>>
    BY DEF RecibirLibro
  <2>3. /\ aCliente' \in [Clientes -> Seq(Respuestas)]
        /\ \A c \in Clientes \ {d} : aCliente'[c] = aCliente[c]
    BY <1>6, <1>7, <2>1, <2>2
  <2>4. \A f \in [Clientes -> Nat], v \in Nat :
          /\ [f EXCEPT ![d] = v] \in [Clientes -> Nat]
          /\ \A c \in Clientes \ {d} : [f EXCEPT ![d] = v][c] = f[c]
    OBVIOUS
  <2>5. /\ porRecibir' \in [Clientes -> Nat]
        /\ cache' \in [Clientes -> Nat]
        /\ \A c \in Clientes \ {d} : porRecibir'[c] = porRecibir[c] /\ cache'[c] = cache[c]
    <3>1. 0 \in Nat
      OBVIOUS
    <3>2. PICK u \in Nat, v \in Nat :
            /\ porRecibir' = porRecibir \/ porRecibir' = [porRecibir EXCEPT ![d] = u]
            /\ cache' = cache \/ cache' = [cache EXCEPT ![d] = v]
      BY <1>1, <2>2, <3>1, Zenon
    <3>3. /\ [porRecibir EXCEPT ![d] = u] \in [Clientes -> Nat]
          /\ \A c \in Clientes \ {d} : [porRecibir EXCEPT ![d] = u][c] = porRecibir[c]
      BY <1>7, <2>4
    <3>4. /\ [cache EXCEPT ![d] = v] \in [Clientes -> Nat]
          /\ \A c \in Clientes \ {d} : [cache EXCEPT ![d] = v][c] = cache[c]
      BY <1>7, <2>4
    <3>5. porRecibir' \in [Clientes -> Nat]
          /\ \A c \in Clientes \ {d} : porRecibir'[c] = porRecibir[c]
      BY <1>7, <3>2, <3>3, Zenon
    <3>6. cache' \in [Clientes -> Nat]
          /\ \A c \in Clientes \ {d} : cache'[c] = cache[c]
      BY <1>7, <3>2, <3>4, Zenon
    <3>7. QED
      BY <3>5, <3>6
  <2>6. QED
    BY <2>3, <2>5
<1>4. /\ estado[d] = "lista"
      /\ estado' = estado \/ estado' = [estado EXCEPT ![d] = "bytes"]
      /\ UNCHANGED <<orden, enviadas, cacheado, aServidor, abierta, servidor, historia, cotas>>
  BY DEF RecibirLibro, Pasa
<1>5. QED
  BY <1>3, <1>4 DEF ConversacionOK, DeCliente, servidor, historia, listado, cotas

LEMMA DeClienteResto ==
  ASSUME ConversacionOK, NEW d \in Clientes,
         RecibirBytes(d) \/ Cachear(d) \/ Salir(d) \/ CaidaCliente(d)
  PROVE  ConversacionOK' /\ DeCliente(d)
<1>1. CASE RecibirBytes(d)
  BY <1>1 DEF RecibirBytes, Pasa, ConversacionOK, DeCliente, conexion, servidor, historia, listado, cotas
<1>2. CASE Cachear(d)
  BY <1>2 DEF Cachear, Pasa, ConversacionOK, DeCliente, conexion, servidor, historia, listado, cotas
<1>3. CASE Salir(d)
  <2>1. << >> \in Seq(Respuestas)
    OBVIOUS
  <2>2. QED
    BY <1>3, <2>1 DEF Salir, Pasa, ConversacionOK, DeCliente, servidor, historia, listado, cotas
<1>4. CASE CaidaCliente(d)
  <2>1. << >> \in Seq(Respuestas) /\ caidas + 1 \in 0 .. MaxCaidas
    BY <1>4, ConstantesOK DEF CaidaCliente, ConversacionOK
  <2>2. QED
    BY <1>4, <2>1 DEF CaidaCliente, Pasa, ConversacionOK, DeCliente, servidor, historia, listado
<1>5. QED
  BY <1>1, <1>2, <1>3, <1>4

\* The steps of a client, but for the connection.
PasoCliente(d) ==
  \/ \E o \in Ordenes : Elegir(d, o)
  \/ \E s \in Cadenas : EscribirISBN(d, s) \/ \E k \in 1 .. 5 : EscribirDatos(d, s, k)
  \/ EscribirId(d)
  \/ RecibirRespuesta(d) \/ RecibirId(d) \/ RecibirCantidad(d) \/ RecibirLibro(d)
  \/ RecibirBytes(d) \/ Cachear(d) \/ Salir(d) \/ CaidaCliente(d)

LEMMA SoloDeCliente ==
  ASSUME ConversacionOK, NEW d \in Clientes, PasoCliente(d)
  PROVE  ConversacionOK' /\ DeCliente(d)
BY DeClienteElegir, DeClienteEscribirDatos, DeClienteEscribirId, DeClienteEscribirISBN,
   DeClienteRecibirRespuesta, DeClienteRecibirCantidad, DeClienteRecibirLibro, DeClienteResto
DEF PasoCliente

LEMMA BaseCliente ==
  ASSUME Base, NEW d \in Clientes, PasoCliente(d)
  PROVE  Base'
<1>1. ConversacionOK' /\ DeCliente(d)
  BY SoloDeCliente DEF Base
<1>2. PasoComando' /\ EnCola'
  BY <1>1 DEF Base, PasoComando, EnCola, DeCliente, servidor
<1>3. Conexiones'
  <2>1. /\ UNCHANGED <<abierta, cola, atiende, cortadas>>
        /\ \A c \in Clientes : ~ abierta[c] => aServidor'[c] = aServidor[c]
        /\ \A c \in Clientes :
             \/ c = d /\ estado[c] \notin {"fuera", "fin"} /\ estado'[c] # "fuera"
             \/ /\ estado'[c] = estado[c] /\ enviadas'[c] = enviadas[c]
                /\ orden'[c] = orden[c] /\ aCliente'[c] = aCliente[c]
    BY <1>1 DEF DeCliente, servidor
  <2>2. QED
    BY <2>1 DEF Base, Conexiones
<1>4. QED
  BY <1>1, <1>2, <1>3 DEF Base

LEMMA BaseConectar ==
  ASSUME Base, NEW d \in Clientes, Conectar(d)
  PROVE  Base'
<1>1. /\ estado[d] = "fuera"
      /\ UNCHANGED <<orden, enviadas, porRecibir, cache, cacheado, aServidor, aCliente,
                     atiende, paso, comando, leidas, faltan, mal, silencios, desajustes,
                     largas, cortadas, fallos, caidas>>
  BY DEF Conectar, historia, listado, cotas
<1>2. ~ abierta[d] /\ d \notin cortadas
  BY <1>1 DEF Base, Conexiones
<1>3. estado \in [Clientes -> {"fuera", "menu", "datos", "isbn", "espera", "espera_id",
                              "lista", "bytes", "fin"}]
      /\ abierta \in [Clientes -> BOOLEAN] /\ cola \in Seq(Clientes)
  BY DEF Base, ConversacionOK
<1>4. CASE /\ cola' = Append(cola, d)
           /\ abierta' = [abierta EXCEPT ![d] = TRUE]
           /\ estado' = [estado EXCEPT ![d] = "menu"]
  <2>1. /\ Len(cola) \in Nat /\ Len(cola') = Len(cola) + 1
        /\ cola'[Len(cola) + 1] = d
        /\ \A k \in 1 .. Len(cola) : cola'[k] = cola[k] /\ cola[k] \in Clientes
        /\ cola' \in Seq(Clientes)
    BY <1>3, <1>4
  <2>2. ConversacionOK'
    BY <1>1, <1>4, <2>1 DEF Base, ConversacionOK
  <2>3. d # atiende /\ \A k \in 1 .. Len(cola) : cola[k] # d
    <3>1. d # Nadie
      BY ConstantesOK
    <3>2. QED
      BY <1>2, <3>1 DEF Base, EnCola, Conexiones
  <2>4. \A k \in 1 .. Len(cola') : k = Len(cola) + 1 \/ k \in 1 .. Len(cola)
    BY <2>1
  <2>5. \A k \in 1 .. Len(cola) : abierta'[cola[k]] /\ cola[k] # atiende
    BY <1>3, <1>4, <2>1, <2>3 DEF Base, EnCola
  <2>6. abierta'[d]
    BY <1>3, <1>4
  <2>7. EnCola'
    BY <1>1, <2>1, <2>3, <2>4, <2>5, <2>6 DEF Base, EnCola
  <2>8. \A c \in Clientes : c # d => abierta'[c] = abierta[c] /\ estado'[c] = estado[c]
    BY <1>3, <1>4
  <2>9. estado'[d] = "menu"
    BY <1>3, <1>4
  <2>10. Conexiones'
    <3>1. atiende # Nadie => abierta'[atiende]
      BY <2>3, <2>8 DEF Base, Conexiones, ConversacionOK
    <3>2. QED
      BY <1>1, <1>2, <2>6, <2>8, <2>9, <3>1 DEF Base, Conexiones
  <2>11. QED
    BY <1>1, <2>2, <2>7, <2>10 DEF Base, PasoComando
<1>5. CASE estado' = [estado EXCEPT ![d] = "fin"] /\ UNCHANGED <<cola, abierta>>
  <2>1. ConversacionOK'
    BY <1>1, <1>5 DEF Base, ConversacionOK
  <2>2. QED
    BY <1>1, <1>5, <2>1 DEF Base, PasoComando, EnCola, Conexiones, ConversacionOK
<1>6. QED
  BY <1>4, <1>5 DEF Conectar, Pasa

(***************************************************************************)
(* A step of the server touches the client it attends and no other.        *)
(***************************************************************************)
DelServidor ==
  /\ UNCHANGED <<cliente, cola, largas, caidas>>
  /\ silencios \subseteq silencios' /\ silencios' \subseteq silencios \cup {atiende}
  /\ desajustes \subseteq desajustes' /\ desajustes' \subseteq desajustes \cup {atiende}
  /\ \A c \in Clientes \ {atiende} :
       /\ aServidor'[c] = aServidor[c] /\ aCliente'[c] = aCliente[c]
       /\ abierta'[c] = abierta[c] /\ vistos'[c] = vistos[c]

\* What the server reads is of the kinds that a client sends.
LEMMA SeLee ==
  ASSUME ConversacionOK, atiende \in Clientes, aServidor[atiende] # << >>
  PROVE  /\ Lee \in Enviables
         /\ Tail(aServidor[atiende]) \in Seq(Enviables)
         /\ Len(aServidor[atiende]) >= 2 => Tail(Tail(aServidor[atiende])) \in Seq(Enviables)
<1>1. aServidor[atiende] \in Seq(Enviables)
  BY DEF ConversacionOK
<1>2. /\ Tail(aServidor[atiende]) \in Seq(Enviables)
      /\ Len(Tail(aServidor[atiende])) = Len(aServidor[atiende]) - 1
  BY <1>1
<1>3. \A l \in Nat : l >= 2 => l - 1 # 0
  OBVIOUS
<1>4. Len(aServidor[atiende]) \in Nat /\ Len(<< >>) = 0
  BY <1>1
<1>5. Len(aServidor[atiende]) >= 2 => Tail(aServidor[atiende]) # << >>
  BY <1>2, <1>3, <1>4
<1>6. QED
  BY <1>1, <1>2, <1>5 DEF Lee

LEMMA BaseLeer ==
  ASSUME Base, LeerId \/ LeerCadena
  PROVE  Base' /\ DelServidor
<1>1. /\ atiende \in Clientes
      /\ aServidor \in [Clientes -> Seq(Enviables)]
      /\ faltan \in Nat
  BY DEF Base, ConversacionOK, LeerId, LeerCadena
<1>2. /\ aServidor' \in [Clientes -> Seq(Enviables)]
      /\ \A c \in Clientes \ {atiende} : aServidor'[c] = aServidor[c]
      /\ aServidor[atiende] = << >> => aServidor' = aServidor
  <2>1. \/ aServidor' = aServidor
        \/ /\ aServidor[atiende] # << >>
           /\ aServidor' = [aServidor EXCEPT ![atiende] = Tail(@)]
        \/ /\ Len(aServidor[atiende]) >= 2
           /\ aServidor' = [aServidor EXCEPT ![atiende] = Tail(Tail(@))]
    BY DEF LeerId, LeerCadena, Consume
  <2>2. Len(aServidor[atiende]) >= 2 => aServidor[atiende] # << >>
    BY <1>1
  <2>3. QED
    BY <1>1, <2>1, <2>2, SeLee DEF Base
<1>3. /\ paso \in {"id", "cadenas"} /\ paso' \in {"orden", "cadenas"}
      /\ paso' = "cadenas" => comando \in ConDatos \cup ConISBN /\ faltan' <= 5
      /\ faltan' \in Nat /\ mal' \in BOOLEAN
      /\ UNCHANGED <<estado, orden, enviadas, porRecibir, cache, cacheado, aCliente, abierta,
                     cola, atiende, comando, leidas, silencios, desajustes, largas,
                     cortadas, vistos, fallos, caidas>>
  <2>1. CASE LeerId
    BY <2>1 DEF LeerId, Base, ConversacionOK, PasoComando, cliente, historia, listado, cotas
  <2>2. CASE LeerCadena
    <3>1. /\ faltan' = faltan - 1 /\ faltan > 0 /\ mal' \in {mal, TRUE}
          /\ paso = "cadenas"
          /\ UNCHANGED <<cliente, aCliente, abierta, cola, atiende, paso, comando, leidas,
                         historia, cotas>>
      BY <2>2 DEF LeerCadena
    <3>2. comando \in ConDatos \cup ConISBN /\ faltan <= 5 /\ mal \in BOOLEAN
      BY <3>1 DEF Base, PasoComando, ConversacionOK
    <3>3. \A f \in Nat : f > 0 /\ f <= 5 => f - 1 \in Nat /\ f - 1 <= 5
      OBVIOUS
    <3>4. faltan' \in Nat /\ faltan' <= 5
      BY <1>1, <3>1, <3>2, <3>3
    <3>5. QED
      BY <3>1, <3>2, <3>4 DEF cliente, historia, listado, cotas
  <2>3. QED
    BY <2>1, <2>2
<1>4. ConversacionOK'
  BY <1>2, <1>3 DEF Base, ConversacionOK
<1>5. PasoComando' /\ EnCola'
  BY <1>3 DEF Base, PasoComando, EnCola
<1>6. Conexiones'
  BY <1>1, <1>2, <1>3 DEF Base, Conexiones
<1>7. QED
  BY <1>2, <1>3, <1>4, <1>5, <1>6 DEF Base, DelServidor, cliente

LEMMA BaseAceptar ==
  ASSUME Base, Aceptar
  PROVE  Base'
<1>1. /\ paso = "accept" /\ cola # << >> /\ atiende' = Head(cola) /\ cola' = Tail(cola)
      /\ paso' = "orden" /\ leidas' = 0
      /\ UNCHANGED <<estado, orden, enviadas, porRecibir, cache, cacheado, aServidor,
                     aCliente, abierta, comando, faltan, mal, silencios, desajustes,
                     largas, cortadas, fallos, caidas>>
  BY DEF Aceptar, cliente, conexion, historia, listado, cotas
<1>2. cola \in Seq(Clientes) /\ atiende = Nadie
  BY <1>1 DEF Base, ConversacionOK
<1>3. /\ cola' \in Seq(Clientes) /\ Len(cola') = Len(cola) - 1 /\ Len(cola) \in Nat
      /\ atiende' = cola[1] /\ atiende' \in Clientes /\ Len(cola) > 0
      /\ \A k \in 1 .. Len(cola') : cola'[k] = cola[k + 1]
  BY <1>1, <1>2
<1>4. \A k \in 1 .. Len(cola') : k + 1 \in 1 .. Len(cola) /\ k + 1 # 1
  BY <1>3
<1>5. 1 \in 1 .. Len(cola)
  BY <1>3
<1>6. atiende' # Nadie /\ abierta[atiende']
  BY <1>3, <1>5, ConstantesOK DEF Base, EnCola
<1>7. ConversacionOK'
  BY <1>1, <1>3, <1>6 DEF Base, ConversacionOK
<1>8. EnCola'
  <2>1. \A j, k \in 1 .. Len(cola') : j + 1 = k + 1 => j = k
    OBVIOUS
  <2>2. QED
    BY <1>1, <1>3, <1>4, <1>5, <2>1 DEF Base, EnCola
<1>9. PasoComando' /\ Conexiones'
  BY <1>1, <1>6 DEF Base, PasoComando, Conexiones
<1>10. QED
  BY <1>7, <1>8, <1>9 DEF Base

\* The two halves of LeerOrden: a command, or the end of the session.
LeerUna ==
  /\ paso = "orden"
  /\ aServidor[atiende] # << >>
  /\ Lee \in Ordenes
  /\ Consume
  /\ comando' = Lee
  /\ leidas' = leidas + 1
  /\ faltan' = IF Lee = "listar" THEN 0 ELSE Textos(Lee)
  /\ mal' = FALSE
  /\ paso' = IF Lee \in ConDatos THEN "cadenas" ELSE IF Lee \in ConISBN THEN "id" ELSE "contar"
  /\ UNCHANGED <<estado, orden, enviadas, porRecibir, cache, cacheado, aCliente, abierta, cola,
                 atiende, silencios, desajustes, largas, cortadas, vistos, fallos, caidas>>

Despedir ==
  /\ paso = "orden"
  /\ SeFue \/ (aServidor[atiende] # << >> /\ Lee \notin Ordenes)
  /\ abierta' = [abierta EXCEPT ![atiende] = FALSE]
  /\ aServidor' = [aServidor EXCEPT ![atiende] = << >>]
  /\ atiende' = Nadie
  /\ paso' = "accept"
  /\ cortadas' = cortadas \cup {atiende}
  /\ UNCHANGED <<estado, orden, enviadas, porRecibir, cache, cacheado, aCliente, cola, comando,
                 leidas, faltan, mal, silencios, desajustes, largas, vistos, fallos, caidas>>

LEMMA DosMitades ==
  ASSUME LeerOrden
  PROVE  LeerUna \/ Despedir
BY DEF LeerOrden, LeerUna, Despedir, cliente, listado, cotas

LEMMA BaseLeerUna ==
  ASSUME Base, LeerUna
  PROVE  Base' /\ DelServidor
<1>1. /\ atiende \in Clientes
      /\ aServidor \in [Clientes -> Seq(Enviables)]
      /\ leidas \in Nat
  BY DEF Base, ConversacionOK, LeerUna
<1>2. /\ aServidor' \in [Clientes -> Seq(Enviables)]
      /\ \A c \in Clientes \ {atiende} : aServidor'[c] = aServidor[c]
  BY <1>1, SeLee DEF LeerUna, Consume, Base
<1>3. /\ paso' \in {"id", "cadenas", "contar"} /\ faltan' \in 0 .. 5 /\ leidas' \in Nat \ {0}
      /\ paso' = "id" => comando' \in ConISBN /\ faltan' = 1
      /\ paso' = "cadenas" => comando' \in ConDatos
      /\ paso' = "contar" => comando' = "listar"
      /\ comando' \in Ordenes
  BY <1>1 DEF LeerUna, Ordenes, ConDatos, ConISBN, Textos
<1>4. ConversacionOK'
  <2>1. /\ paso' \in {"accept", "orden", "id", "cadenas", "contar", "enviar"}
        /\ faltan' \in Nat /\ leidas' \in Nat /\ mal' \in BOOLEAN
        /\ comando' \in Ordenes \cup {"ninguna"}
        /\ (atiende' = Nadie <=> paso' = "accept")
    <3>1. paso # "accept" /\ paso' # "accept" /\ atiende' = atiende /\ mal' = FALSE
      BY <1>3 DEF LeerUna
    <3>2. atiende # Nadie
      BY <3>1 DEF Base, ConversacionOK
    <3>3. atiende' = Nadie <=> paso' = "accept"
      BY <3>1, <3>2
    <3>4. /\ paso' \in {"accept", "orden", "id", "cadenas", "contar", "enviar"}
          /\ faltan' \in Nat /\ leidas' \in Nat
          /\ comando' \in Ordenes \cup {"ninguna"}
      BY <1>3
    <3>5. QED
      BY <3>1, <3>3, <3>4
  <2>2. UNCHANGED <<estado, orden, enviadas, porRecibir, cache, cacheado, aCliente, abierta, cola,
                    atiende, silencios, desajustes, largas, cortadas, fallos, caidas>>
    BY DEF LeerUna
  <2>3. QED
    BY <1>2, <2>1, <2>2 DEF Base, ConversacionOK
<1>5. PasoComando'
  BY <1>3 DEF PasoComando
<1>6. EnCola' /\ Conexiones'
  BY <1>1, <1>2 DEF LeerUna, Base, EnCola, Conexiones
<1>7. QED
  BY <1>2, <1>4, <1>5, <1>6 DEF Base, DelServidor, LeerUna, cliente

LEMMA BaseDespedir ==
  ASSUME Base, Despedir
  PROVE  Base'
<1>1. /\ atiende \in Clientes /\ abierta[atiende]
      /\ aServidor \in [Clientes -> Seq(Enviables)]
      /\ abierta \in [Clientes -> BOOLEAN]
  BY ConstantesOK DEF Base, ConversacionOK, Conexiones, Despedir
<1>2. /\ aServidor' \in [Clientes -> Seq(Enviables)]
      /\ abierta' \in [Clientes -> BOOLEAN]
      /\ aServidor'[atiende] = << >> /\ abierta'[atiende] = FALSE
      /\ \A c \in Clientes \ {atiende} : aServidor'[c] = aServidor[c] /\ abierta'[c] = abierta[c]
  BY <1>1 DEF Despedir
<1>3. ConversacionOK'
  BY <1>1, <1>2 DEF Despedir, Base, ConversacionOK
<1>4. PasoComando'
  BY DEF Despedir, PasoComando
<1>5. EnCola'
  <2>1. \A k \in 1 .. Len(cola) : cola[k] \in Clientes
    BY DEF Base, ConversacionOK
  <2>2. Nadie \notin Clientes
    BY ConstantesOK
  <2>3. QED
    BY <1>1, <1>2, <2>1, <2>2 DEF Despedir, Base, EnCola
<1>6. Conexiones'
  <2>1. estado[atiende] # "fuera" /\ atiende' = Nadie
    BY <1>1 DEF Base, Conexiones, Despedir
  <2>2. QED
    BY <1>1, <1>2, <2>1 DEF Despedir, Base, Conexiones
<1>7. QED
  BY <1>3, <1>4, <1>5, <1>6 DEF Base

LEMMA BaseCaidaServidor ==
  ASSUME Base, CaidaServidor
  PROVE  Base'
<1>1. caidas' \in 0 .. MaxCaidas
  BY ConstantesOK DEF CaidaServidor, Base, ConversacionOK
<1>2. << >> \in Seq(Enviables) /\ << >> \in Seq(Clientes) /\ Len(<< >>) = 0
  OBVIOUS
<1>3. ConversacionOK'
  BY <1>1, <1>2 DEF CaidaServidor, Base, ConversacionOK, cliente
<1>4. PasoComando' /\ EnCola'
  BY <1>2 DEF CaidaServidor, PasoComando, EnCola
<1>5. Conexiones'
  BY DEF CaidaServidor, Base, Conexiones, cliente, ConversacionOK
<1>6. QED
  BY <1>3, <1>4, <1>5 DEF Base

LEMMA SeContesta ==
  ASSUME ConversacionOK, atiende \in Clientes, NEW t \in Seq(Respuestas), Contesta(t)
  PROVE  /\ aCliente' \in [Clientes -> Seq(Respuestas)]
         /\ aCliente'[atiende] = IF estado[atiende] = "fin" THEN aCliente[atiende]
                                 ELSE aCliente[atiende] \o t
         /\ \A c \in Clientes \ {atiende} : aCliente'[c] = aCliente[c]
<1>1. aCliente \in [Clientes -> Seq(Respuestas)]
  BY DEF ConversacionOK
<1>2. aCliente[atiende] \o t \in Seq(Respuestas)
  BY <1>1
<1>3. QED
  BY <1>1, <1>2 DEF Contesta

LEMMA DeTrozo ==
  ASSUME ConversacionOK, NEW n \in Nat,
         NEW v \in {"login_ok", "login_fail", "id_usuario", "ok", "error", "uno", "cero",
                    "cantidad", "len", "texto"}
  PROVE  Trozo(v, n) \in Respuestas /\ <<Trozo(v, n)>> \in Seq(Respuestas)
<1>1. Trozo(v, n) \in Respuestas
  BY DEF ConversacionOK, Trozo, Respuestas
<1>2. QED
  BY <1>1

LEMMA DeLineas ==
  ASSUME ConversacionOK, NEW n \in Nat
  PROVE  /\ LineasDe(n) \in Seq(Respuestas)
         /\ Len(LineasDe(n)) = 2 * n
<1>1. \A k : (IF k % 2 = 1 THEN Trozo("len", 0) ELSE Trozo("texto", 0)) \in Respuestas
  BY DeTrozo
<1>2. 2 * n \in Nat
  OBVIOUS
<1>3. LineasDe(n) \in [1 .. 2 * n -> Respuestas]
  BY <1>1 DEF LineasDe
<1>4. QED
  BY <1>2, <1>3

\* What the answers to the commands other than listing put in the channel.
Respuesta(t) ==
  \/ comando = "login" /\ t = <<Trozo("login_fail", 0)>>
  \/ comando = "login" /\ t = <<Trozo("login_ok", 0), Trozo("id_usuario", 0)>>
  \/ comando = "registrar" /\ t = <<Trozo("ok", 0)>>
  \/ comando = "registrar" /\ t = <<Trozo("error", RESP_ERROR)>>
  \/ comando \in ConISBN /\ t = <<Trozo("uno", 0)>>
  \/ comando \in ConISBN /\ t = <<Trozo("cero", 0)>>

(***************************************************************************)
(* The end of a command other than listing: one of its answers, or none.   *)
(***************************************************************************)
Terminar ==
  /\ paso = "cadenas" /\ faltan = 0 /\ paso' = "orden"
  /\ \/ /\ aCliente' = aCliente
        /\ silencios' = silencios \cup {atiende}
     \/ /\ silencios' = silencios
        /\ \E t \in Seq(Respuestas) : Respuesta(t) /\ Contesta(t)
  /\ fallos' \in 0 .. MaxFallos
  /\ UNCHANGED <<estado, orden, enviadas, porRecibir, cache, cacheado, aServidor, abierta, cola,
                 atiende, comando, leidas, faltan, mal, desajustes, largas, cortadas, vistos,
                 caidas>>

LEMMA DeRespuesta ==
  ASSUME ConversacionOK
  PROVE  /\ <<Trozo("login_fail", 0)>> \in Seq(Respuestas)
         /\ <<Trozo("login_ok", 0), Trozo("id_usuario", 0)>> \in Seq(Respuestas)
         /\ <<Trozo("ok", 0)>> \in Seq(Respuestas)
         /\ <<Trozo("error", RESP_ERROR)>> \in Seq(Respuestas)
         /\ \A v \in {"uno", "cero"} : <<Trozo(v, 0)>> \in Seq(Respuestas)
<1>1. RESP_ERROR \in Nat
  BY DEF RESP_ERROR
<1>2. Trozo("login_ok", 0) \in Respuestas /\ Trozo("id_usuario", 0) \in Respuestas
  BY DeTrozo
<1>3. <<Trozo("login_ok", 0), Trozo("id_usuario", 0)>> \in Seq(Respuestas)
  BY <1>2
<1>4. QED
  BY <1>1, <1>3, DeTrozo

LEMMA TerminarLogin ==
  ASSUME Base, ContestarLogin
  PROVE  Terminar
<1>1. /\ paso = "cadenas" /\ faltan = 0 /\ comando = "login" /\ paso' = "orden"
      /\ UNCHANGED <<estado, orden, enviadas, porRecibir, cache, cacheado, aServidor, abierta,
                     cola, atiende, comando, leidas, faltan, mal, desajustes, largas, cortadas,
                     vistos, caidas>>
  BY DEF ContestarLogin, Atiende, cliente, listado
<1>2. /\ fallos' \in 0 .. MaxFallos
      /\ \/ aCliente' = aCliente /\ silencios' = silencios \cup {atiende}
         \/ silencios' = silencios /\ Contesta(<<Trozo("login_fail", 0)>>)
         \/ silencios' = silencios /\ Contesta(<<Trozo("login_ok", 0), Trozo("id_usuario", 0)>>)
  <2>1. fallos \in 0 .. MaxFallos /\ (fallos < MaxFallos => fallos + 1 \in 0 .. MaxFallos)
    BY ConstantesOK DEF Base, ConversacionOK
  <2>2. QED
    BY <2>1 DEF ContestarLogin, Falla, Calla, SinRespuestaNueva
<1>3. /\ Respuesta(<<Trozo("login_fail", 0)>>)
      /\ Respuesta(<<Trozo("login_ok", 0), Trozo("id_usuario", 0)>>)
  BY <1>1 DEF Respuesta
<1>4. QED
  BY <1>1, <1>2, <1>3, DeRespuesta DEF Terminar, Base

LEMMA TerminarRegistrar ==
  ASSUME Base, ContestarRegistrar
  PROVE  Terminar
<1>1. /\ paso = "cadenas" /\ faltan = 0 /\ comando = "registrar" /\ paso' = "orden"
      /\ UNCHANGED <<estado, orden, enviadas, porRecibir, cache, cacheado, aServidor, abierta,
                     cola, atiende, comando, leidas, faltan, mal, silencios, desajustes, largas,
                     cortadas, vistos, fallos, caidas>>
      /\ Contesta(<<Trozo("ok", 0)>>) \/ Contesta(<<Trozo("error", RESP_ERROR)>>)
  BY DEF ContestarRegistrar, Atiende, cliente, historia, listado
<1>2. Respuesta(<<Trozo("ok", 0)>>) /\ Respuesta(<<Trozo("error", RESP_ERROR)>>)
  BY <1>1 DEF Respuesta
<1>3. QED
  BY <1>1, <1>2, DeRespuesta DEF Terminar, Base, ConversacionOK

LEMMA TerminarISBN ==
  ASSUME Base, ContestarISBN
  PROVE  Terminar
<1>1. /\ paso = "cadenas" /\ faltan = 0 /\ comando \in ConISBN /\ paso' = "orden"
      /\ UNCHANGED <<estado, orden, enviadas, porRecibir, cache, cacheado, aServidor, abierta,
                     cola, atiende, comando, leidas, faltan, mal, desajustes, largas, cortadas,
                     vistos, caidas>>
  BY DEF ContestarISBN, Atiende, cliente, listado
<1>2. /\ fallos' \in 0 .. MaxFallos
      /\ \/ aCliente' = aCliente /\ silencios' = silencios \cup {atiende}
         \/ silencios' = silencios /\ \E v \in {"uno", "cero"} : Contesta(<<Trozo(v, 0)>>)
  <2>1. fallos \in 0 .. MaxFallos /\ (fallos < MaxFallos => fallos + 1 \in 0 .. MaxFallos)
    BY ConstantesOK DEF Base, ConversacionOK
  <2>2. QED
    BY <2>1 DEF ContestarISBN, Falla, Calla, SinRespuestaNueva
<1>3. \A v \in {"uno", "cero"} : Respuesta(<<Trozo(v, 0)>>)
  BY <1>1 DEF Respuesta
<1>4. QED
  BY <1>1, <1>2, <1>3, DeRespuesta DEF Terminar, Base

LEMMA BaseTerminar ==
  ASSUME Base, Terminar
  PROVE  Base' /\ DelServidor
<1>1. atiende \in Clientes
  BY DEF Terminar, Base, ConversacionOK
<1>2. /\ aCliente' \in [Clientes -> Seq(Respuestas)]
      /\ \A c \in Clientes \ {atiende} : aCliente'[c] = aCliente[c]
  BY <1>1, SeContesta DEF Terminar, Base, ConversacionOK
<1>3. silencios' \subseteq Clientes
  BY <1>1 DEF Terminar, Base, ConversacionOK
<1>4. ConversacionOK'
  BY <1>1, <1>2, <1>3, ConstantesOK DEF Terminar, Base, ConversacionOK
<1>5. PasoComando' /\ EnCola'
  BY DEF Terminar, Base, PasoComando, EnCola
<1>6. Conexiones'
  <2>1. estado[atiende] # "fuera"
    BY <1>1, ConstantesOK DEF Base, ConversacionOK, Conexiones, Terminar
  <2>2. QED
    BY <1>2, <2>1 DEF Terminar, Base, Conexiones
<1>7. QED
  BY <1>2, <1>4, <1>5, <1>6 DEF Base, DelServidor, Terminar, cliente

(***************************************************************************)
(* The two halves of a listing: what they send, and whether it went well.  *)
(***************************************************************************)
Listar(p, t) ==
  /\ paso = p /\ comando = "listar"
  /\ Contesta(t)
  /\ fallos' \in 0 .. MaxFallos
  /\ UNCHANGED <<estado, orden, enviadas, porRecibir, cache, cacheado, aServidor, abierta, cola,
                 atiende, comando, leidas, faltan, mal, largas, cortadas, caidas>>

\* It did not start.
ListarMal(p) ==
  /\ Listar(p, <<Trozo("error", RESP_ERROR)>>)
  /\ silencios' = silencios \cup {atiende} /\ paso' = "orden" /\ vistos' = vistos
  /\ desajustes' = desajustes \cup {c \in {atiende} : p = "enviar" /\ vistos[atiende] = 0}

ContarBien ==
  /\ Listar("contar", <<Trozo("cantidad", libros)>>)
  /\ silencios' = silencios /\ desajustes' = desajustes /\ paso' = "enviar"
  /\ vistos' = [vistos EXCEPT ![atiende] = libros]

EnviarBien ==
  /\ Listar("enviar", LineasDe(vistos[atiende]))
  /\ silencios' = silencios /\ desajustes' = desajustes /\ paso' = "orden" /\ vistos' = vistos

\* Another number of lines.
ListarOtras(p, q) ==
  /\ \E t \in Seq(Respuestas) : Listar(p, t)
  /\ silencios' = silencios /\ desajustes' = desajustes \cup {atiende} /\ paso' = q
  /\ \A c \in Clientes \ {atiende} : vistos'[c] = vistos[c]

LEMMA ListarContar ==
  ASSUME Base, TablaOK, Contar
  PROVE  ListarMal("contar") \/ ContarBien \/ ListarOtras("contar", "enviar")
<1>1. fallos \in 0 .. MaxFallos /\ (fallos < MaxFallos => fallos + 1 \in 0 .. MaxFallos)
  BY ConstantesOK DEF Base, ConversacionOK
<1>2. /\ paso = "contar" /\ comando = "listar"
      /\ UNCHANGED <<estado, orden, enviadas, porRecibir, cache, cacheado, aServidor, abierta,
                     cola, atiende, comando, leidas, faltan, mal, largas, cortadas, caidas>>
  BY DEF Contar, cliente, Base, PasoComando
<1>3. ASSUME NoEmpieza, UNCHANGED <<desajustes, listado>>
      PROVE  ListarMal("contar")
  <2>1. desajustes' = desajustes \cup {c \in {atiende} : "contar" = "enviar" /\ vistos[atiende] = 0}
    BY <1>3
  <2>2. QED
    BY <1>1, <1>2, <1>3, <2>1 DEF NoEmpieza, Falla, ListarMal, Listar, listado
<1>4. ASSUME NEW n \in 0 .. libros, Recorre(n), Contesta(<<Trozo("cantidad", n)>>),
             paso' = "enviar", silencios' = silencios, Desajusta(n < libros),
             vistos' = [vistos EXCEPT ![atiende] = libros]
      PROVE  ContarBien \/ ListarOtras("contar", "enviar")
  <2>1. n \in Nat /\ libros \in Nat
    BY DEF TablaOK
  <2>2. <<Trozo("cantidad", n)>> \in Seq(Respuestas)
    BY <2>1, DeTrozo DEF Base
  <2>3. fallos' \in 0 .. MaxFallos
    BY <1>1, <1>4 DEF Recorre, Falla
  <2>4. CASE n = libros
    <3>1. desajustes' = desajustes
      BY <1>4, <2>1, <2>4 DEF Desajusta
    <3>2. QED
      BY <1>2, <1>4, <2>3, <2>4, <3>1 DEF ContarBien, Listar
  <2>5. CASE n < libros
    <3>1. desajustes' = desajustes \cup {atiende}
      BY <1>4, <2>5 DEF Desajusta
    <3>2. \A c \in Clientes \ {atiende} : vistos'[c] = vistos[c]
      BY <1>4 DEF TablaOK
    <3>3. QED
      BY <1>2, <1>4, <2>2, <2>3, <3>1, <3>2 DEF ListarOtras, Listar
  <2>6. QED
    BY <1>4, <2>4, <2>5 DEF Recorre
<1>5. QED
  BY <1>3, <1>4 DEF Contar

LEMMA ListarEnviar ==
  ASSUME Base, TablaOK, EnviarLineas
  PROVE  ListarMal("enviar") \/ EnviarBien \/ ListarOtras("enviar", "orden")
<1>1. fallos \in 0 .. MaxFallos /\ (fallos < MaxFallos => fallos + 1 \in 0 .. MaxFallos)
  BY ConstantesOK DEF Base, ConversacionOK
<1>2. /\ paso = "enviar" /\ comando = "listar"
      /\ UNCHANGED <<estado, orden, enviadas, porRecibir, cache, cacheado, aServidor, abierta,
                     cola, atiende, comando, leidas, faltan, mal, largas, cortadas, vistos, caidas>>
  BY DEF EnviarLineas, cliente, listado, Base, PasoComando
<1>3. ASSUME NoEmpieza, Desajusta(vistos[atiende] = 0)
      PROVE  ListarMal("enviar")
  <2>1. desajustes' = desajustes \cup {c \in {atiende} : "enviar" = "enviar" /\ vistos[atiende] = 0}
    BY <1>3 DEF Desajusta
  <2>2. QED
    BY <1>1, <1>2, <1>3, <2>1 DEF NoEmpieza, Falla, ListarMal, Listar
<1>4. ASSUME NEW n \in 0 .. libros, Recorre(n), Contesta(LineasDe(n)),
             paso' = "orden", silencios' = silencios, Desajusta(n # vistos[atiende])
      PROVE  EnviarBien \/ ListarOtras("enviar", "orden")
  <2>1. n \in Nat
    BY DEF TablaOK
  <2>2. LineasDe(n) \in Seq(Respuestas)
    BY <2>1, DeLineas DEF Base
  <2>3. fallos' \in 0 .. MaxFallos
    BY <1>1, <1>4 DEF Recorre, Falla
  <2>4. CASE n = vistos[atiende]
    <3>1. desajustes' = desajustes
      BY <1>4, <2>4 DEF Desajusta
    <3>2. Contesta(LineasDe(vistos[atiende]))
      BY <1>4, <2>4
    <3>3. QED
      BY <1>2, <1>4, <2>3, <3>1, <3>2 DEF EnviarBien, Listar
  <2>5. CASE n # vistos[atiende]
    <3>1. desajustes' = desajustes \cup {atiende}
      BY <1>4, <2>5 DEF Desajusta
    <3>2. QED
      BY <1>2, <1>4, <2>2, <2>3, <3>1 DEF ListarOtras, Listar
  <2>6. QED
    BY <2>4, <2>5
<1>5. QED
  BY <1>3, <1>4 DEF EnviarLineas

LEMMA BaseListar ==
  ASSUME Base, NEW p \in {"contar", "enviar"}, NEW t \in Seq(Respuestas), Listar(p, t),
         paso' \in {"enviar", "orden"},
         silencios' \in {silencios, silencios \cup {atiende}},
         desajustes' \in {desajustes, desajustes \cup {atiende}},
         \A c \in Clientes \ {atiende} : vistos'[c] = vistos[c]
  PROVE  Base' /\ DelServidor
<1>1. atiende \in Clientes /\ paso # "accept"
  BY DEF Listar, Base, ConversacionOK
<1>2. /\ aCliente' \in [Clientes -> Seq(Respuestas)]
      /\ \A c \in Clientes \ {atiende} : aCliente'[c] = aCliente[c]
  BY <1>1, SeContesta DEF Listar, Base
<1>3. silencios' \subseteq Clientes /\ desajustes' \subseteq Clientes
  BY <1>1 DEF Base, ConversacionOK
<1>4. ConversacionOK'
  BY <1>1, <1>2, <1>3, ConstantesOK DEF Listar, Base, ConversacionOK
<1>5. PasoComando' /\ EnCola'
  BY <1>1 DEF Listar, Base, PasoComando, EnCola
<1>6. Conexiones'
  <2>1. estado[atiende] # "fuera"
    BY <1>1, ConstantesOK DEF Base, ConversacionOK, Conexiones
  <2>2. QED
    BY <1>2, <2>1 DEF Listar, Base, Conexiones
<1>7. QED
  BY <1>2, <1>4, <1>5, <1>6 DEF Base, DelServidor, Listar, cliente

\* The steps of the system, each in the form in which it is reasoned about.
PasoDeServidor ==
  \/ LeerUna \/ LeerId \/ LeerCadena \/ Terminar
  \/ ListarMal("contar") \/ ListarMal("enviar")
  \/ ContarBien \/ EnviarBien
  \/ ListarOtras("contar", "enviar") \/ ListarOtras("enviar", "orden")

LEMMA Pasos ==
  ASSUME Base, TablaOK, Next
  PROVE  \/ \E d \in Clientes : Conectar(d) \/ PasoCliente(d)
         \/ PasoDeServidor
         \/ Aceptar \/ Despedir \/ CaidaServidor
         \/ Consola
<1>1. ASSUME NEW d \in Clientes, Recibe(d) \/ Teclea(d) \/ CaidaCliente(d)
      PROVE  Conectar(d) \/ PasoCliente(d)
  BY <1>1 DEF Recibe, Teclea, PasoCliente
<1>2. ASSUME PasoServidor
      PROVE  PasoDeServidor \/ Aceptar \/ Despedir
  BY <1>2, DosMitades, TerminarLogin, TerminarRegistrar, TerminarISBN, ListarContar, ListarEnviar
  DEF PasoServidor, PasoDeServidor
<1>3. QED
  BY <1>1, <1>2 DEF Next

LEMMA BaseServidor ==
  ASSUME Base, TablaOK, PasoDeServidor
  PROVE  Base' /\ DelServidor
<1>1. /\ <<Trozo("error", RESP_ERROR)>> \in Seq(Respuestas)
      /\ <<Trozo("cantidad", libros)>> \in Seq(Respuestas)
  BY DeRespuesta, DeTrozo DEF Base, TablaOK
<1>2. ASSUME NEW p \in {"contar", "enviar"}, ListarMal(p)
      PROVE  Base' /\ DelServidor
  <2>1. desajustes' \in {desajustes, desajustes \cup {atiende}}
    BY <1>2 DEF ListarMal
  <2>2. QED
    BY <1>1, <1>2, <2>1, BaseListar DEF ListarMal
<1>3. ASSUME NEW p \in {"contar", "enviar"}, NEW q \in {"enviar", "orden"}, ListarOtras(p, q)
      PROVE  Base' /\ DelServidor
  BY <1>3, BaseListar DEF ListarOtras
<1>4. CASE ContarBien
  <2>1. \A c \in Clientes \ {atiende} : vistos'[c] = vistos[c]
    BY <1>4 DEF ContarBien, TablaOK
  <2>2. QED
    BY <1>1, <1>4, <2>1, BaseListar DEF ContarBien
<1>5. CASE EnviarBien
  <2>1. atiende \in Clientes
    BY <1>5 DEF EnviarBien, Listar, Base, ConversacionOK
  <2>2. LineasDe(vistos[atiende]) \in Seq(Respuestas)
    BY <2>1, DeLineas DEF Base, TablaOK
  <2>3. QED
    BY <1>5, <2>2, BaseListar DEF EnviarBien
<1>6. QED
  BY <1>2, <1>3, <1>4, <1>5, BaseLeerUna, BaseLeer, BaseTerminar DEF PasoDeServidor

LEMMA BaseConsola ==
  ASSUME Base, Consola
  PROVE  Base'
<1>1. /\ UNCHANGED <<cliente, conexion, servidor, silencios, desajustes, largas, cortadas, fallos>>
      /\ caidas' \in 0 .. MaxCaidas
  <2>1. caidas \in 0 .. MaxCaidas /\ (caidas < MaxCaidas => caidas + 1 \in 0 .. MaxCaidas)
    BY ConstantesOK DEF Base, ConversacionOK
  <2>2. QED
    BY <2>1 DEF Consola, Arrancar, Importar, PerderLineas, Fuera, historia
<1>2. QED
  BY <1>1 DEF cliente, conexion, servidor, Base, ConversacionOK, PasoComando, EnCola, Conexiones

LEMMA BaseSigue ==
  ASSUME Base, TablaOK, [Next]_vars
  PROVE  Base'
<1>1. CASE UNCHANGED vars
  BY <1>1 DEF vars, cliente, conexion, servidor, historia, cotas, Base, ConversacionOK, PasoComando,
     EnCola, Conexiones
<1>2. CASE Next
  BY <1>2, Pasos, BaseConectar, BaseCliente, BaseServidor, BaseAceptar, BaseDespedir,
     BaseCaidaServidor, BaseConsola
<1>3. QED
  BY <1>1, <1>2

LEMMA BaseInicial ==
  ASSUME Init
  PROVE  Base
<1>1. << >> \in Seq(Enviables) /\ << >> \in Seq(Respuestas) /\ << >> \in Seq(Clientes) /\ Len(<< >>) = 0
  OBVIOUS
<1>2. 0 \in 0 .. MaxOrdenes /\ 0 \in 0 .. MaxFallos /\ 0 \in 0 .. MaxCaidas /\ 0 \in Nat
  BY ConstantesOK
<1>3. ConversacionOK
  BY <1>1, <1>2 DEF Init, ConversacionOK
<1>4. PasoComando /\ EnCola /\ Conexiones
  BY <1>1 DEF Init, PasoComando, EnCola, Conexiones
<1>5. QED
  BY <1>3, <1>4 DEF Base

-----------------------------------------------------------------------------
(* What a step does not touch *)

DeCadaUno(c) == EstadoOrden(c) /\ Encuadre(c) /\ Compas(c) /\ Catalogo(c)

Igual(c) ==
  /\ estado'[c] = estado[c] /\ orden'[c] = orden[c] /\ enviadas'[c] = enviadas[c]
  /\ porRecibir'[c] = porRecibir[c] /\ cache'[c] = cache[c] /\ cacheado'[c] = cacheado[c]
  /\ aServidor'[c] = aServidor[c] /\ aCliente'[c] = aCliente[c] /\ abierta'[c] = abierta[c]
  /\ (c \in silencios' <=> c \in silencios) /\ (c \in desajustes' <=> c \in desajustes)
  /\ (c \in largas' <=> c \in largas) /\ (c \in cortadas' <=> c \in cortadas)
  /\ vistos'[c] = vistos[c]

LEMMA Ajeno ==
  ASSUME NEW c \in Clientes, Igual(c), DeCadaUno(c),
         \/ UNCHANGED <<atiende, paso, comando, leidas, faltan>>
         \/ atiende # c /\ atiende' # c
  PROVE  DeCadaUno(c)'
<1>1. /\ Leidas(c)' = Leidas(c) /\ EnServidor(c)' = EnServidor(c)
      /\ (Perdido(c)' <=> Perdido(c))
      /\ (atiende' = c <=> atiende = c)
      /\ (atiende = c => paso' = paso /\ leidas' = leidas /\ comando' = comando)
  BY DEF Igual, Leidas, EnServidor, Perdido
<1>2. /\ EnCliente(c)' = EnCliente(c)
      /\ (Descolocado(c)' <=> Descolocado(c))
      /\ (EnEspera(c)' <=> EnEspera(c))
      /\ (Servido(c)' <=> Servido(c))
      /\ (Etiquetas(c)' <=> Etiquetas(c))
      /\ (Forma(c)' <=> Forma(c))
  BY DEF Igual, EnCliente, Descolocado, EnEspera, Servido, Etiquetas, Forma
<1>3. EstadoOrden(c)'
  BY DEF DeCadaUno, EstadoOrden, Igual
<1>4. Catalogo(c)'
  BY DEF DeCadaUno, Catalogo, Igual
<1>5. Encuadre(c)'
  BY <1>1, <1>2 DEF DeCadaUno, Encuadre, Final, Igual
<1>6. Turno(c) => Turno(c)'
  <2>1. (AlDia(c) => AlDia(c)') /\ (Atendido(c) => Atendido(c)')
    BY <1>1, <1>2 DEF AlDia, Atendido, Igual
  <2>2. (Leyendo(c) => Leyendo(c)') /\ (Extraviado(c) => Extraviado(c)')
    BY <1>1, <1>2 DEF Leyendo, Extraviado, Perdido, Igual
  <2>3. Enviando(c) => Enviando(c)'
    BY <1>1 DEF Enviando, Igual
  <2>4. QED
    BY <2>1, <2>2, <2>3 DEF Turno
<1>7. Compas(c)'
  BY <1>2, <1>6 DEF DeCadaUno, Compas, Igual
<1>8. QED
  BY <1>3, <1>4, <1>5, <1>7 DEF DeCadaUno

-----------------------------------------------------------------------------
(* Framing, when a client sends *)

LEMMA MarcaEnServidor ==
  ASSUME Base, NEW c \in Clientes
  PROVE  /\ EnServidor(c) \in Marcas
         /\ EnServidor(c).toca \in {"len", "id"}
         /\ EnServidor(c).ordenes = Leidas(c)
         /\ Leidas(c) \in Nat
<1>1. leidas \in Nat /\ comando \in Ordenes \cup {"ninguna"} /\ faltan \in Nat
      /\ (paso = "cadenas" => faltan <= 5)
  BY DEF Base, ConversacionOK, PasoComando
<1>2. \A n \in 0 .. 5, q \in {"len", "id"}, i \in Nat, o \in Ordenes \cup {"ninguna"} :
        /\ Marca(n, q, i, o) \in Marcas
        /\ Marca(n, q, i, o).toca = q
        /\ Marca(n, q, i, o).ordenes = i
  BY DEF Marca, Marcas
<1>3. CASE atiende # c \/ leidas = 0
  BY <1>1, <1>2, <1>3 DEF EnServidor, Leidas
<1>4. CASE ~ (atiende # c \/ leidas = 0)
  <2>1. (IF paso = "cadenas" THEN faltan ELSE IF paso = "id" THEN 1 ELSE 0) \in 0 .. 5
    BY <1>1
  <2>2. QED
    BY <1>1, <1>2, <1>4, <2>1 DEF EnServidor, Leidas
<1>5. QED
  BY <1>3, <1>4

LEMMA MarcaEnCliente ==
  ASSUME ConversacionOK, NEW c \in Clientes
  PROVE  /\ EnCliente(c) \in Marcas
         /\ EnCliente(c).toca \in {"len", "id"}
         /\ EnCliente(c).ordenes = enviadas[c]
         /\ EnCliente(c).orden = orden[c]
<1>1. enviadas[c] \in Nat /\ orden[c] \in Ordenes \cup {"ninguna"}
  BY DEF ConversacionOK
<1>2. (IF estado[c] = "isbn" THEN 1
       ELSE IF estado[c] = "datos" THEN Textos(orden[c]) ELSE 0) \in 0 .. 5
  BY DEF Textos
<1>3. QED
  BY <1>1, <1>2 DEF EnCliente, Marca, Marcas

LEMMA DeMarca ==
  ASSUME NEW n \in 0 .. 5, NEW q \in {"len", "id"}, NEW i \in Nat,
         NEW o \in Ordenes \cup {"ninguna"}
  PROVE  Marca(n, q, i, o) \in Marcas
BY DEF Marca, Marcas

(***************************************************************************)
(* A reader that has q texts to read, or is lost in a text of kind s.      *)
(***************************************************************************)
Llega(m, q, i, o, s) ==
  \/ m = Marca(q, "len", i, o)
  \/ s = "larga" /\ m.toca = "perdida" /\ m.ordenes = i /\ m.orden = o

LEMMA UnCampo ==
  ASSUME NEW s \in {"normal", "vacia", "larga"}, NEW r \in {"normal", s}, NEW q \in 1 .. 5,
         NEW i \in Nat, NEW o \in Ordenes \cup {"ninguna"}, NEW m \in Marcas, Llega(m, q, i, o, s)
  PROVE  \E n \in Marcas : Recorrido(Trozos(r), m, n) /\ Llega(n, q - 1, i, o, s)
<1>1. q - 1 \in 0 .. 5 /\ q \in 0 .. 5 /\ q > 0
  OBVIOUS
<1>2. CASE m.toca = "perdida"
  <2>1. Recorrido(Trozos(r), m, m)
    BY <1>2, RecorridoPerdido, DeTrozos
  <2>2. Llega(m, q - 1, i, o, s)
    BY <1>2 DEF Llega, Marca
  <2>3. QED
    BY <2>1, <2>2
<1>3. CASE m = Marca(q, "len", i, o)
  <2>1. CASE r = "vacia"
    <3>1. PICK n : n = Marca(q - 1, "len", i, o)
      OBVIOUS
    <3>2. n \in Marcas
      BY <1>1, <3>1 DEF Marca, Marcas
    <3>3. Lectura(m, "len_cero", n)
      BY <1>1, <1>3, <3>1 DEF Lectura, Marca
    <3>4. Trozos(r) = <<"len_cero">>
      BY <2>1 DEF Trozos
    <3>5. QED
      BY <3>1, <3>2, <3>3, <3>4, RecorridoUno DEF Llega
  <2>2. CASE r = "normal"
    <3>1. PICK n, p : n = Marca(q - 1, "texto", i, o) /\ p = Marca(q - 1, "len", i, o)
      OBVIOUS
    <3>2. n \in Marcas /\ p \in Marcas
      BY <1>1, <3>1 DEF Marca, Marcas
    <3>3. Lectura(m, "len", n) /\ Lectura(n, "texto", p)
      <4>1. /\ m.toca = "len" /\ m.textos = q /\ n.toca = "texto"
            /\ n = Marca(m.textos - 1, "texto", m.ordenes, m.orden)
            /\ p = [n EXCEPT !.toca = "len"]
        BY <1>3, <3>1 DEF Marca
      <4>2. QED
        BY <1>1, <4>1 DEF Lectura
    <3>4. Trozos(r) = <<"len", "texto">>
      BY <2>2 DEF Trozos
    <3>5. QED
      BY <3>1, <3>2, <3>3, <3>4, RecorridoDos DEF Llega
  <2>3. CASE r = "larga"
    <3>1. PICK n, p : n = Marca(q, "exceso", i, o) /\ p = Marca(q, "perdida", i, o)
      OBVIOUS
    <3>2. n \in Marcas /\ p \in Marcas
      BY <1>1, <3>1 DEF Marca, Marcas
    <3>3. Lectura(m, "len_exceso", n) /\ Lectura(n, "texto", p)
      BY <1>1, <1>3, <3>1 DEF Lectura, Marca
    <3>4. Trozos(r) = <<"len_exceso", "texto">>
      BY <2>3 DEF Trozos
    <3>5. Llega(p, q - 1, i, o, s)
      BY <2>3, <3>1 DEF Llega, Marca
    <3>6. QED
      BY <3>2, <3>3, <3>4, <3>5, RecorridoDos
  <2>4. QED
    BY <2>1, <2>2, <2>3
<1>4. QED
  BY <1>2, <1>3 DEF Llega

(***************************************************************************)
(* A form takes the reader to the next command, or it is lost in the text  *)
(* that is too long.                                                       *)
(***************************************************************************)
LEMMA UnFormulario ==
  ASSUME NEW n \in {2, 5}, NEW k, NEW s \in {"normal", "vacia", "larga"},
         NEW i \in Nat, NEW o \in Ordenes \cup {"ninguna"}
  PROVE  \E m \in Marcas :
           Recorrido(Formulario(n, k, s), Marca(n, "len", i, o), m) /\ Llega(m, 0, i, o, s)
<1> DEFINE C(j) == Trozos(IF j = k THEN s ELSE "normal")
<1>1. \A j : C(j) \in Seq(Enviables)
  BY DeTrozos
<1>2. \A j, q, m : q \in 1 .. 5 /\ m \in Marcas /\ Llega(m, q, i, o, s) =>
        \E p \in Marcas : Recorrido(C(j), m, p) /\ Llega(p, q - 1, i, o, s)
  BY UnCampo
<1> HIDE DEF C
<1>3. PICK z : z = Marca(n, "len", i, o)
  OBVIOUS
<1>4. z \in Marcas /\ Llega(z, n, i, o, s)
  BY <1>3 DEF Marca, Marcas, Llega
<1>5. \A u \in Seq(Enviables) : \A j, q, m :
        q \in 1 .. 5 /\ m \in Marcas /\ Recorrido(u, z, m) /\ Llega(m, q, i, o, s) =>
          /\ u \o C(j) \in Seq(Enviables)
          /\ \E p \in Marcas : Recorrido(u \o C(j), z, p) /\ Llega(p, q - 1, i, o, s)
  BY <1>1, <1>2, RecorridoSeguido
<1>6. CASE n = 2
  <2>1. PICK p1 \in Marcas : Recorrido(C(1), z, p1) /\ Llega(p1, 1, i, o, s)
    BY <1>2, <1>4, <1>6
  <2>2. \E p \in Marcas : Recorrido(C(1) \o C(2), z, p) /\ Llega(p, 0, i, o, s)
    BY <1>1, <1>5, <2>1
  <2>3. Formulario(n, k, s) = C(1) \o C(2)
    BY <1>6 DEF Formulario, C
  <2>4. QED
    BY <1>3, <2>2, <2>3
<1>7. CASE n = 5
  <2>1. PICK p1 \in Marcas : Recorrido(C(1), z, p1) /\ Llega(p1, 4, i, o, s)
    BY <1>2, <1>4, <1>7
  <2>2. PICK u2 : u2 = C(1) \o C(2)
    OBVIOUS
  <2>3. u2 \in Seq(Enviables) /\ \E p \in Marcas : Recorrido(u2, z, p) /\ Llega(p, 3, i, o, s)
    BY <1>1, <1>5, <2>1, <2>2
  <2>4. PICK u3 : u3 = u2 \o C(3)
    OBVIOUS
  <2>5. u3 \in Seq(Enviables) /\ \E p \in Marcas : Recorrido(u3, z, p) /\ Llega(p, 2, i, o, s)
    BY <1>5, <2>3, <2>4
  <2>6. PICK u4 : u4 = u3 \o C(4)
    OBVIOUS
  <2>7. u4 \in Seq(Enviables) /\ \E p \in Marcas : Recorrido(u4, z, p) /\ Llega(p, 1, i, o, s)
    BY <1>5, <2>5, <2>6
  <2>8. \E p \in Marcas : Recorrido(u4 \o C(5), z, p) /\ Llega(p, 0, i, o, s)
    BY <1>5, <2>7
  <2>9. Formulario(n, k, s) = u4 \o C(5)
    BY <1>7, <2>2, <2>4, <2>6 DEF Formulario, C
  <2>10. QED
    BY <1>3, <2>8, <2>9
<1>8. QED
  BY <1>6, <1>7

(***************************************************************************)
(* A client that sends t, from where it is to where it comes to be.        *)
(***************************************************************************)
LEMMA Envia ==
  ASSUME Base, NEW d \in Clientes, NEW t \in Seq(Enviables), Manda(d, t), Encuadre(d),
         UNCHANGED <<abierta, servidor, silencios, desajustes>>, largas \subseteq largas',
         estado[d] \in {"menu", "datos", "isbn"}, estado'[d] # "fin",
         \E m \in Marcas : Recorrido(t, EnCliente(d), m) /\ Final(d, m)'
  PROVE  Encuadre(d)'
<1>1. SUFFICES ASSUME abierta[d]
               PROVE  Encuadre(d)'
  BY DEF Encuadre
<1>2. aServidor'[d] = aServidor[d] \o t /\ aServidor[d] \in Seq(Enviables)
  BY <1>1, SeManda DEF Base, ConversacionOK
<1>3. CASE Perdido(d)
  <2>1. aServidor'[d] # << >> /\ Head(aServidor'[d]) = Head(aServidor[d])
    BY <1>2, <1>3 DEF Perdido
  <2>2. Perdido(d)'
    BY <1>3, <2>1 DEF Perdido, servidor
  <2>3. QED
    BY <2>2 DEF Encuadre
<1>4. CASE ~ Perdido(d)
  <2>1. PICK m \in Marcas : Final(d, m) /\ Recorrido(aServidor[d], EnServidor(d), m)
    BY <1>1, <1>4 DEF Encuadre
  <2>2. EnServidor(d)' = EnServidor(d)
    BY DEF EnServidor, servidor
  <2>3. CASE m = EnCliente(d)
    BY <1>2, <2>1, <2>2, <2>3, RecorridoSeguido DEF Encuadre
  <2>4. CASE /\ d \in largas /\ m.toca = "perdida" /\ Descolocado(d)
    <3>1. Recorrido(t, m, m)
      BY <2>4, RecorridoPerdido
    <3>2. Final(d, m)'
      BY <2>4 DEF Final, Descolocado
    <3>3. QED
      BY <1>2, <2>1, <2>2, <3>1, <3>2, RecorridoSeguido DEF Encuadre
  <2>5. QED
    BY <2>1, <2>3, <2>4 DEF Final
<1>5. QED
  BY <1>3, <1>4

LEMMA EncuadreElegir ==
  ASSUME Base, NEW d \in Clientes, NEW o \in Ordenes, Elegir(d, o), Encuadre(d)
  PROVE  Encuadre(d)'
<1>1. enviadas[d] + 1 \in Nat
  BY DEF Base, ConversacionOK
<1>2. /\ estado[d] = "menu" /\ estado'[d] = IF o = "listar" THEN "espera" ELSE "datos"
      /\ orden'[d] = o /\ enviadas'[d] = enviadas[d] + 1
  BY DEF Elegir, Pasa, Base, ConversacionOK
<1>3. /\ EnCliente(d) \in Marcas /\ EnCliente(d)' \in Marcas
      /\ Lectura(EnCliente(d), o, EnCliente(d)')
  <2>1. EnCliente(d) = Marca(0, "len", enviadas[d], orden[d])
    BY <1>2 DEF EnCliente
  <2>2. EnCliente(d)' = Marca(IF o = "listar" THEN 0 ELSE Textos(o),
                              IF o \in ConISBN THEN "id" ELSE "len", enviadas[d] + 1, o)
    BY <1>2 DEF EnCliente, ConISBN
  <2>3. EnCliente(d)' \in Marcas
    BY <1>1, <2>2, DeMarca DEF Textos
  <2>4. EnCliente(d) \in Marcas
    BY MarcaEnCliente DEF Base
  <2>5. QED
    BY <2>1, <2>2, <2>3, <2>4 DEF Lectura, Marca, Ordenes, ConDatos, ConISBN, Textos
<1>4. Recorrido(<<o>>, EnCliente(d), EnCliente(d)') /\ Final(d, EnCliente(d))'
  BY <1>3, RecorridoUno DEF Final
<1>5. <<o>> \in Seq(Enviables)
  BY DEF Enviables
<1>6. QED
  BY <1>2, <1>4, <1>5, <1>3, Envia DEF Elegir, historia, listado

\* The texts a client types take it to wait for the answer.
LEMMA EncuadreTeclea ==
  ASSUME Base, NEW d \in Clientes, Encuadre(d), EstadoOrden(d),
         NEW s \in Cadenas, NEW t \in Seq(Enviables), Manda(d, t),
         UNCHANGED <<orden, enviadas, abierta, servidor, silencios, desajustes>>,
         estado[d] \in {"datos", "isbn"}, estado'[d] = "espera",
         largas' = IF s = "larga" THEN largas \cup {d} ELSE largas,
         NEW q \in 1 .. 5, EnCliente(d) = Marca(q, "len", enviadas[d], orden[d]),
         \E m \in Marcas :
           Recorrido(t, EnCliente(d), m) /\ Llega(m, 0, enviadas[d], orden[d], s)
  PROVE  Encuadre(d)'
<1>1. PICK m \in Marcas :
        Recorrido(t, EnCliente(d), m) /\ Llega(m, 0, enviadas[d], orden[d], s)
  OBVIOUS
<1>2. CASE m = Marca(0, "len", enviadas[d], orden[d])
  <2>1. m = EnCliente(d)'
    BY <1>2 DEF EnCliente
  <2>2. Final(d, m)'
    BY <2>1 DEF Final
  <2>3. QED
    BY <1>1, <2>2, Envia
<1>3. CASE s = "larga" /\ m.toca = "perdida" /\ m.ordenes = enviadas[d] /\ m.orden = orden[d]
  <2>1. Final(d, m)'
    BY <1>3 DEF Final
  <2>2. QED
    BY <1>1, <2>1, Envia
<1>4. QED
  BY <1>1, <1>2, <1>3 DEF Llega

LEMMA EncuadreEscribirDatos ==
  ASSUME Base, NEW d \in Clientes, NEW s \in Cadenas, NEW k, EscribirDatos(d, s, k),
         Encuadre(d), EstadoOrden(d)
  PROVE  Encuadre(d)'
<1>1. /\ estado[d] = "datos" /\ estado'[d] = "espera" /\ orden[d] \in ConDatos
      /\ Manda(d, Formulario(Textos(orden[d]), k, s))
      /\ UNCHANGED <<orden, enviadas, abierta, servidor, silencios, desajustes>>
      /\ largas' = IF s = "larga" THEN largas \cup {d} ELSE largas
  BY DEF EscribirDatos, Pasa, Base, ConversacionOK
<1>2. Textos(orden[d]) \in {2, 5} /\ orden[d] \in Ordenes \cup {"ninguna"} /\ enviadas[d] \in Nat
      /\ orden[d] \notin ConISBN /\ s \in {"normal", "vacia", "larga"}
  BY <1>1, ConstantesOK DEF Textos, ConDatos, ConISBN, Ordenes, Base, ConversacionOK
<1>3. EnCliente(d) = Marca(Textos(orden[d]), "len", enviadas[d], orden[d])
  BY <1>1, <1>2 DEF EnCliente
<1>4. \E m \in Marcas :
        /\ Recorrido(Formulario(Textos(orden[d]), k, s), EnCliente(d), m)
        /\ Llega(m, 0, enviadas[d], orden[d], s)
  BY <1>2, <1>3, UnFormulario
<1>5. Formulario(Textos(orden[d]), k, s) \in Seq(Enviables)
  BY DeFormulario
<1>6. Textos(orden[d]) \in 1 .. 5
  BY <1>2
<1>7. QED
  BY <1>1, <1>3, <1>4, <1>5, <1>6, EncuadreTeclea

LEMMA EncuadreEscribirISBN ==
  ASSUME Base, NEW d \in Clientes, NEW s \in Cadenas, EscribirISBN(d, s), Encuadre(d), EstadoOrden(d)
  PROVE  Encuadre(d)'
<1>1. /\ estado[d] = "isbn" /\ estado'[d] = "espera" /\ Manda(d, Trozos(s))
      /\ UNCHANGED <<orden, enviadas, abierta, servidor, silencios, desajustes>>
      /\ largas' = IF s = "larga" THEN largas \cup {d} ELSE largas
  BY DEF EscribirISBN, Pasa, Base, ConversacionOK
<1>2. orden[d] \in Ordenes \cup {"ninguna"} /\ enviadas[d] \in Nat
      /\ s \in {"normal", "vacia", "larga"} /\ EnCliente(d) \in Marcas
  BY ConstantesOK, MarcaEnCliente DEF Base, ConversacionOK
<1>3. EnCliente(d) = Marca(1, "len", enviadas[d], orden[d])
  BY <1>1 DEF EnCliente
<1>4. 1 \in 1 .. 5 /\ 1 - 1 = 0 /\ Llega(EnCliente(d), 1, enviadas[d], orden[d], s)
  BY <1>3 DEF Llega
<1>5. \E m \in Marcas : Recorrido(Trozos(s), EnCliente(d), m) /\ Llega(m, 0, enviadas[d], orden[d], s)
  BY <1>2, <1>4, UnCampo
<1>6. QED
  BY <1>1, <1>2, <1>3, <1>4, <1>5, DeTrozos, EncuadreTeclea

LEMMA EncuadreEscribirId ==
  ASSUME Base, NEW d \in Clientes, EscribirId(d), Encuadre(d)
  PROVE  Encuadre(d)'
<1>1. /\ estado[d] = "datos" /\ estado'[d] = "isbn" /\ orden[d] \in ConISBN /\ Manda(d, <<"id">>)
      /\ UNCHANGED <<orden, enviadas, abierta, servidor, silencios, desajustes, largas>>
  BY DEF EscribirId, Pasa, Base, ConversacionOK, historia, listado
<1>2. enviadas[d] \in Nat /\ orden[d] \in Ordenes \cup {"ninguna"}
  BY DEF Base, ConversacionOK
<1>3. /\ EnCliente(d) \in Marcas /\ EnCliente(d)' \in Marcas
      /\ Lectura(EnCliente(d), "id", EnCliente(d)')
  <2>1. EnCliente(d) = Marca(1, "id", enviadas[d], orden[d])
    BY <1>1 DEF EnCliente, Textos, ConISBN
  <2>2. EnCliente(d)' = Marca(1, "len", enviadas[d], orden[d])
    BY <1>1 DEF EnCliente
  <2>3. EnCliente(d) \in Marcas /\ EnCliente(d)' \in Marcas
    BY <1>2, <2>1, <2>2, DeMarca
  <2>4. QED
    BY <2>1, <2>2, <2>3 DEF Lectura, Marca
<1>4. Recorrido(<<"id">>, EnCliente(d), EnCliente(d)') /\ Final(d, EnCliente(d))'
  BY <1>3, RecorridoUno DEF Final
<1>5. <<"id">> \in Seq(Enviables)
  BY DEF Enviables
<1>6. QED
  BY <1>1, <1>3, <1>4, <1>5, Envia

-----------------------------------------------------------------------------
(* Framing, when a client reads *)

\* The server expects a command, or what it has read is all of a request.
EntreOrdenes(c) == atiende = c => paso # "id" /\ (paso = "cadenas" => faltan = 0)

LEMMA SinNada ==
  ASSUME Base, NEW c \in Clientes, EntreOrdenes(c), NEW m \in Marcas,
         Recorrido(aServidor[c], EnServidor(c), m), m.ordenes = Leidas(c)
  PROVE  aServidor[c] = << >> /\ m = EnServidor(c) /\ m.toca = "len" /\ m.textos = 0
<1>1. EnServidor(c).toca = "len" /\ EnServidor(c).textos = 0
  BY DEF EntreOrdenes, EnServidor, Marca
<1>2. EnServidor(c) \in Marcas /\ EnServidor(c).ordenes = Leidas(c)
  BY MarcaEnServidor
<1>3. aServidor[c] \in Seq(Enviables)
  BY DEF Base, ConversacionOK
<1>4. aServidor[c] = << >> /\ m = EnServidor(c)
  BY <1>1, <1>2, <1>3, RecorridoSinOrdenes
<1>5. QED
  BY <1>1, <1>4

(***************************************************************************)
(* When the server has read every command of c and nothing is half read, c *)
(* has typed all of its last request.                                      *)
(***************************************************************************)
LEMMA Listo ==
  ASSUME Base, NEW c \in Clientes, Encuadre(c), Turno(c), ~ Descolocado(c),
         abierta[c], estado[c] # "fin", Leidas(c) = enviadas[c], EntreOrdenes(c)
  PROVE  estado[c] \notin {"datos", "isbn"} /\ (~ Perdido(c) => aServidor[c] = << >>)
<1>1. CASE Perdido(c)
  BY <1>1 DEF Turno, Extraviado, Perdido, Leidas
<1>2. CASE ~ Perdido(c)
  <2>1. PICK m \in Marcas : Final(c, m) /\ Recorrido(aServidor[c], EnServidor(c), m)
    BY <1>2 DEF Encuadre
  <2>2. CASE m = EnCliente(c)
    <3>1. aServidor[c] = << >> /\ m.toca = "len" /\ m.textos = 0
      BY <2>1, <2>2, SinNada, MarcaEnCliente DEF Base
    <3>2. QED
      BY <2>2, <3>1 DEF EnCliente, Marca, Textos
  <2>3. CASE m.toca = "perdida" /\ estado[c] = "espera" /\ m.ordenes = enviadas[c]
    <3>1. m.toca = "len"
      BY <2>1, <2>3, SinNada
    <3>2. QED
      BY <2>3, <3>1
  <2>4. QED
    BY <2>1, <2>2, <2>3 DEF Final
<1>3. QED
  BY <1>1, <1>2

(***************************************************************************)
(* A client that has got something to read has not lost the server.        *)
(***************************************************************************)
LEMMA SinPerderse ==
  ASSUME Base, NEW d \in Clientes, Compas(d), abierta[d], estado[d] # "fin", ~ Descolocado(d),
         estado[d] = "espera" => aCliente[d] # << >>,
         NEW m \in Marcas, Final(d, m), Recorrido(aServidor[d], EnServidor(d), m)
  PROVE  m = EnCliente(d)
<1>1. SUFFICES ASSUME m.toca = "perdida", estado[d] = "espera", m.ordenes = enviadas[d]
               PROVE  FALSE
  BY DEF Final
<1>2. Turno(d)
  BY <1>1 DEF Compas
<1>3. ~ EnEspera(d)
  BY <1>1 DEF EnEspera
<1>4. Leidas(d) = enviadas[d]
  <2>1. Leidas(d) \in Nat /\ enviadas[d] \in Nat
    BY MarcaEnServidor DEF Base, ConversacionOK
  <2>2. QED
    BY <1>2, <1>3, <2>1 DEF Turno, AlDia
<1>5. EntreOrdenes(d)
  BY <1>2, <1>3 DEF Turno, Leyendo, EntreOrdenes
<1>6. QED
  BY <1>1, <1>4, <1>5, SinNada

LEMMA EncuadreRecibe ==
  ASSUME Base, NEW d \in Clientes, Encuadre(d), Compas(d),
         UNCHANGED <<orden, enviadas, aServidor, abierta, servidor, historia>>,
         estado[d] \in {"espera", "espera_id", "lista", "bytes"},
         estado'[d] \in {"menu", "espera_id", "lista", "bytes"},
         estado[d] = "espera" => aCliente[d] # << >> \/ ~ abierta[d]
  PROVE  Encuadre(d)'
<1>1. SUFFICES ASSUME abierta[d], ~ Perdido(d)
               PROVE  Encuadre(d)'
  BY DEF Encuadre, Perdido, servidor, historia, listado
<1>2. PICK m \in Marcas : Final(d, m) /\ Recorrido(aServidor[d], EnServidor(d), m)
  BY <1>1 DEF Encuadre
<1>3. /\ EnServidor(d)' = EnServidor(d) /\ EnCliente(d)' = EnCliente(d)
      /\ (Descolocado(d)' <=> Descolocado(d))
  BY DEF EnServidor, EnCliente, Descolocado, servidor, historia, listado
<1>4. CASE Descolocado(d)
  <2>1. Final(d, m)'
    BY <1>2, <1>3, <1>4 DEF Final, historia, listado
  <2>2. QED
    BY <1>2, <1>3, <2>1 DEF Encuadre
<1>5. CASE ~ Descolocado(d)
  <2>1. m = EnCliente(d)
    BY <1>1, <1>2, <1>5, SinPerderse
  <2>2. Final(d, m)'
    BY <1>3, <2>1 DEF Final
  <2>3. QED
    BY <1>2, <1>3, <2>2 DEF Encuadre
<1>6. QED
  BY <1>4, <1>5

LEMMA EncuadreFin ==
  ASSUME Base, NEW d \in Clientes, Encuadre(d), estado[d] # "fin", estado'[d] = "fin",
         UNCHANGED <<aServidor, abierta, servidor, historia>>
  PROVE  Encuadre(d)'
<1>1. SUFFICES ASSUME abierta[d], ~ Perdido(d)
               PROVE  Encuadre(d)'
  BY DEF Encuadre, Perdido, servidor, historia, listado
<1>2. PICK m \in Marcas : Final(d, m) /\ Recorrido(aServidor[d], EnServidor(d), m)
  BY <1>1 DEF Encuadre
<1>3. EnServidor(d)' = EnServidor(d)
  BY DEF EnServidor, servidor
<1>4. m = EnCliente(d) \/ (d \in largas /\ m.toca = "perdida")
  BY <1>2 DEF Final
<1>5. m.toca \in {"len", "id"} \/ (d \in largas /\ m.toca = "perdida")
  BY <1>4, MarcaEnCliente DEF Base
<1>6. Final(d, m)'
  BY <1>5 DEF Final, historia, listado
<1>7. QED
  BY <1>2, <1>3, <1>6 DEF Encuadre

LEMMA EncuadreConectar ==
  ASSUME Base, NEW d \in Clientes, Conectar(d)
  PROVE  Encuadre(d)'
<1>1. /\ estado[d] = "fuera" /\ ~ abierta[d]
      /\ UNCHANGED <<orden, enviadas, aServidor, atiende, paso, comando, leidas, faltan>>
  BY DEF Conectar, Base, Conexiones
<1>2. SUFFICES ASSUME abierta'[d], estado'[d] = "menu"
               PROVE  Encuadre(d)'
  BY <1>1 DEF Conectar, Pasa, Encuadre, Base, ConversacionOK
<1>3. aServidor[d] = << >> /\ atiende # d /\ enviadas[d] = 0 /\ orden[d] = "ninguna"
  BY <1>1, ConstantesOK DEF Base, Conexiones
<1>4. PICK m : m = Marca(0, "len", 0, "ninguna")
  OBVIOUS
<1>5. m \in Marcas /\ EnServidor(d)' = m /\ EnCliente(d)' = m
  BY <1>1, <1>2, <1>3, <1>4, DeMarca DEF EnServidor, EnCliente
<1>6. Final(d, m)' /\ Recorrido(aServidor'[d], EnServidor(d)', m)
  BY <1>1, <1>3, <1>5, RecorridoVacio DEF Final
<1>7. QED
  BY <1>5, <1>6 DEF Encuadre

LEMMA EncuadreCliente ==
  ASSUME Base, NEW d \in Clientes, PasoCliente(d), Encuadre(d), EstadoOrden(d), Compas(d)
  PROVE  Encuadre(d)'
<1>1. CASE RecibirRespuesta(d)
  BY <1>1, EncuadreRecibe DEF RecibirRespuesta, Pasa, Rota, Base, ConversacionOK
<1>2. CASE RecibirId(d)
  BY <1>2, EncuadreRecibe DEF RecibirId, Pasa, Base, ConversacionOK
<1>3. CASE RecibirCantidad(d)
  BY <1>3, EncuadreRecibe DEF RecibirCantidad, Pasa, Rota, Base, ConversacionOK
<1>4. CASE RecibirLibro(d)
  BY <1>4, EncuadreRecibe DEF RecibirLibro, Pasa, Base, ConversacionOK
<1>5. CASE RecibirBytes(d) \/ Cachear(d)
  BY <1>5, EncuadreRecibe DEF RecibirBytes, Cachear, Pasa, conexion, Base, ConversacionOK
<1>6. CASE Salir(d)
  BY <1>6, EncuadreFin DEF Salir, Pasa, Base, ConversacionOK
<1>7. CASE CaidaCliente(d)
  BY <1>7, EncuadreFin DEF CaidaCliente, Pasa, Base, ConversacionOK
<1>8. QED
  BY <1>1, <1>2, <1>3, <1>4, <1>5, <1>6, <1>7, EncuadreElegir, EncuadreEscribirDatos,
     EncuadreEscribirISBN, EncuadreEscribirId DEF PasoCliente

-----------------------------------------------------------------------------
(* Framing, when the server reads *)

\* What a client whose text the server is about to get lost in does.
Perdiendose(c) ==
  Perdido(c)' /\ ~ Perdido(c) /\ ~ Descolocado(c) /\ estado[c] # "fin" => estado[c] = "espera"

LEMMA Cabeza ==
  ASSUME Base, NEW c \in Clientes, Encuadre(c), ~ Perdido(c), abierta[c], aServidor[c] # << >>
  PROVE  \E n, m \in Marcas :
           /\ Lectura(EnServidor(c), Head(aServidor[c]), n)
           /\ Recorrido(Tail(aServidor[c]), n, m)
           /\ Final(c, m)
           /\ Recorrido(aServidor[c], EnServidor(c), m)
<1>1. PICK m \in Marcas : Final(c, m) /\ Recorrido(aServidor[c], EnServidor(c), m)
  BY DEF Encuadre
<1>2. EnServidor(c) \in Marcas /\ aServidor[c] \in Seq(Enviables)
  BY MarcaEnServidor DEF Base, ConversacionOK
<1>3. QED
  BY <1>1, <1>2, RecorridoCabeza

LEMMA ColaEnSeq ==
  ASSUME NEW X, NEW s \in Seq(X), s # << >>
  PROVE  Tail(s) \in Seq(X)
OBVIOUS

LEMMA EncuadreLeerUna ==
  ASSUME Base, LeerUna, NEW c \in Clientes, c = atiende, Encuadre(c)
  PROVE  Encuadre(c)' /\ ~ Perdido(c) /\ ~ Perdido(c)'
<1>1. /\ aServidor[c] # << >> /\ Head(aServidor[c]) \in Ordenes /\ paso = "orden"
      /\ aServidor' = [aServidor EXCEPT ![c] = Tail(@)]
      /\ UNCHANGED <<estado, orden, enviadas, abierta, atiende, silencios, desajustes, largas>>
      /\ leidas' = leidas + 1
  BY DEF LeerUna, Lee, Consume
<1>2. ~ Perdido(c)
  BY <1>1 DEF Perdido, Ordenes, ConDatos, ConISBN
<1>3. abierta[c] /\ aServidor'[c] = Tail(aServidor[c]) /\ leidas \in Nat
  BY <1>1, ConstantesOK DEF Base, Conexiones, ConversacionOK
<1>4. PICK n \in Marcas, m \in Marcas :
        /\ Lectura(EnServidor(c), Head(aServidor[c]), n)
        /\ Recorrido(Tail(aServidor[c]), n, m)
        /\ Final(c, m)
  BY <1>1, <1>2, <1>3, Cabeza
<1>5. n = EnServidor(c)'
  <2>1. /\ EnServidor(c).toca = "len" /\ EnServidor(c).textos = 0
        /\ EnServidor(c).ordenes = leidas
    BY <1>1 DEF EnServidor, Marca
  <2>2. PICK x : x = Head(aServidor[c])
    OBVIOUS
  <2>3. n = Marca(IF x = "listar" THEN 0 ELSE Textos(x),
                  IF x \in ConISBN THEN "id" ELSE "len", leidas + 1, x)
    BY <1>1, <1>4, <2>1, <2>2 DEF Lectura, Ordenes, ConDatos, ConISBN, Textos
  <2>4. leidas + 1 # 0
    BY <1>3
  <2>5. /\ comando' = x
        /\ faltan' = IF x = "listar" THEN 0 ELSE Textos(x)
        /\ paso' = IF x \in ConDatos THEN "cadenas" ELSE IF x \in ConISBN THEN "id" ELSE "contar"
    BY <2>2 DEF LeerUna, Lee
  <2>6. EnServidor(c)' = Marca(IF paso' = "cadenas" THEN faltan' ELSE IF paso' = "id" THEN 1 ELSE 0,
                               IF paso' = "id" THEN "id" ELSE "len", leidas + 1, x)
    BY <1>1, <2>4, <2>5 DEF EnServidor
  <2>7. QED
    BY <1>1, <2>2, <2>3, <2>5, <2>6 DEF Ordenes, ConDatos, ConISBN, Textos
<1>6. Final(c, m)'
  BY <1>1, <1>4 DEF Final, EnCliente, Descolocado
<1>7. n.toca \in {"len", "id"}
  BY <1>5 DEF EnServidor, Marca
<1>8. ~ Perdido(c)'
  <2>1. Tail(aServidor[c]) \in Seq(Enviables)
    BY <1>1, ColaEnSeq DEF Base, ConversacionOK
  <2>2. QED
    BY <1>3, <1>4, <1>7, <2>1, NoTexto DEF Perdido
<1>9. QED
  BY <1>2, <1>3, <1>4, <1>5, <1>6, <1>8 DEF Encuadre

LEMMA EncuadreLeerId ==
  ASSUME Base, LeerId, NEW c \in Clientes, c = atiende, Encuadre(c)
  PROVE  Encuadre(c)' /\ (estado[c] # "fin" => ~ Perdido(c)')
<1>1. /\ paso = "id"
      /\ UNCHANGED <<estado, orden, enviadas, abierta, atiende, comando, leidas, faltan,
                     silencios, desajustes, largas>>
  BY DEF LeerId, cliente, historia, listado
<1>2. CASE aServidor[c] = << >>
  BY <1>1, <1>2 DEF LeerId, SeFue, Encuadre, Perdido
<1>3. CASE aServidor[c] # << >>
  <2>1. /\ aServidor' = [aServidor EXCEPT ![c] = Tail(@)] /\ paso' = "cadenas"
        /\ ~ Perdido(c) /\ abierta[c] /\ leidas # 0 /\ faltan = 1
    BY <1>1, <1>3, ConstantesOK DEF LeerId, SeFue, Consume, Perdido, Base, Conexiones, PasoComando, ConversacionOK
  <2>2. aServidor'[c] = Tail(aServidor[c])
    BY <2>1 DEF Base, ConversacionOK
  <2>3. PICK n \in Marcas, m \in Marcas :
          /\ Lectura(EnServidor(c), Head(aServidor[c]), n)
          /\ Recorrido(Tail(aServidor[c]), n, m)
          /\ Final(c, m)
    BY <1>3, <2>1, Cabeza
  <2>4. n = EnServidor(c)'
    <3>1. EnServidor(c) = Marca(1, "id", leidas, comando)
      BY <1>1, <2>1 DEF EnServidor
    <3>2. EnServidor(c)' = Marca(1, "len", leidas, comando)
      BY <1>1, <2>1 DEF EnServidor
    <3>3. QED
      BY <2>3, <3>1, <3>2 DEF Lectura, Marca
  <2>5. Final(c, m)'
    BY <1>1, <2>3 DEF Final, EnCliente, Descolocado
  <2>6. n.toca \in {"len", "id"}
    BY <2>4 DEF EnServidor, Marca
  <2>7. ~ Perdido(c)'
    <3>1. Tail(aServidor[c]) \in Seq(Enviables)
      BY <1>3, ColaEnSeq DEF Base, ConversacionOK
    <3>2. QED
      BY <2>2, <2>3, <2>6, <3>1, NoTexto DEF Perdido
  <2>8. QED
    BY <2>2, <2>3, <2>4, <2>5, <2>7 DEF Encuadre
<1>4. QED
  BY <1>2, <1>3

LEMMA EncuadreLeerCadena ==
  ASSUME Base, LeerCadena, NEW c \in Clientes, c = atiende, Encuadre(c)
  PROVE  Encuadre(c)' /\ Perdiendose(c) /\ (Perdido(c) => Perdido(c)')
<1>1. /\ paso = "cadenas" /\ faltan > 0 /\ faltan' = faltan - 1
      /\ UNCHANGED <<estado, orden, enviadas, abierta, atiende, paso, comando, leidas,
                     silencios, desajustes, largas>>
  BY DEF LeerCadena, cliente, historia, listado
<1>2. CASE aServidor[c] = << >>
  <2>1. Len(aServidor[c]) = 0 /\ ~ (Len(aServidor[c]) >= 2)
    BY <1>2
  <2>2. UNCHANGED aServidor /\ estado[c] = "fin"
    BY <1>2, <2>1 DEF LeerCadena, SeFue
  <2>3. QED
    BY <1>1, <1>2, <2>2 DEF Encuadre, Perdido, Perdiendose
<1>3. CASE Perdido(c)
  <2>1. UNCHANGED aServidor
    BY <1>3 DEF LeerCadena, Perdido, Lee, SeFue
  <2>2. QED
    BY <1>1, <1>3, <2>1 DEF Encuadre, Perdido, Perdiendose
<1>4. CASE aServidor[c] # << >> /\ ~ Perdido(c)
  <2>1. abierta[c] /\ leidas # 0 /\ faltan \in Nat
    BY <1>1, ConstantesOK DEF Base, Conexiones, PasoComando, ConversacionOK
  <2>2. PICK n \in Marcas, m \in Marcas :
          /\ Lectura(EnServidor(c), Head(aServidor[c]), n)
          /\ Recorrido(Tail(aServidor[c]), n, m)
          /\ Final(c, m)
    BY <1>4, <2>1, Cabeza
  <2>3. /\ EnServidor(c) = Marca(faltan, "len", leidas, comando)
        /\ EnServidor(c)' = Marca(faltan - 1, "len", leidas, comando)
    BY <1>1, <2>1 DEF EnServidor
  <2>4. Final(c, m)'
    BY <1>1, <2>2 DEF Final, EnCliente, Descolocado
  <2>5. aServidor[c] \in Seq(Enviables) /\ Tail(aServidor[c]) \in Seq(Enviables)
    BY <1>4, ColaEnSeq DEF Base, ConversacionOK
  <2>6. EnServidor(c).toca = "len" /\ EnServidor(c).textos = faltan /\ faltan > 0
    BY <1>1, <2>3 DEF Marca
  <2>7. /\ Len(aServidor[c]) >= 2 /\ Head(aServidor[c]) = "len" =>
             aServidor' = [aServidor EXCEPT ![c] = Tail(Tail(@))]
        /\ Head(aServidor[c]) # "len" => Head(aServidor[c]) \in {"len_cero", "len_exceso", "texto"}
        /\ Head(aServidor[c]) \in {"len_cero", "len_exceso"} =>
             aServidor' = [aServidor EXCEPT ![c] = Tail(@)]
        /\ Head(aServidor[c]) = "len" => Len(aServidor[c]) >= 2
    BY <1>4 DEF LeerCadena, Lee, Consume, SeFue
  <2>8. CASE Head(aServidor[c]) = "len"
    <3>1. n = Marca(faltan - 1, "texto", leidas, comando)
      BY <2>2, <2>3, <2>6, <2>8 DEF Lectura, Marca, ConDatos, ConISBN
    <3>2. aServidor'[c] = Tail(Tail(aServidor[c])) /\ Tail(aServidor[c]) # << >>
      <4>1. Tail(aServidor[c]) # << >>
        <5>1. Len(Tail(aServidor[c])) = Len(aServidor[c]) - 1 /\ Len(aServidor[c]) \in Nat
          BY <1>4, <2>5
        <5>2. \A l \in Nat : l >= 2 => l - 1 # 0
          OBVIOUS
        <5>3. Len(<< >>) = 0
          OBVIOUS
        <5>4. QED
          BY <2>7, <2>8, <5>1, <5>2, <5>3
      <4>2. QED
        BY <2>7, <2>8, <4>1 DEF Base, ConversacionOK
    <3>3. PICK p \in Marcas :
            Lectura(n, Head(Tail(aServidor[c])), p) /\ Recorrido(Tail(Tail(aServidor[c])), p, m)
      BY <2>2, <2>5, <3>2, RecorridoCabeza
    <3>4. p = EnServidor(c)'
      BY <2>3, <3>1, <3>3 DEF Lectura, Marca
    <3>5. p.toca = "len" /\ Tail(Tail(aServidor[c])) \in Seq(Enviables)
      BY <2>3, <2>5, <3>2, <3>4, ColaEnSeq DEF Marca
    <3>6. ~ Perdido(c)'
      BY <3>2, <3>3, <3>5, NoTexto DEF Perdido
    <3>7. QED
      BY <1>4, <2>4, <3>2, <3>3, <3>4, <3>6 DEF Encuadre, Perdiendose
  <2>9. CASE Head(aServidor[c]) = "len_cero"
    <3>1. n = Marca(faltan - 1, "len", leidas, comando)
      BY <2>2, <2>3, <2>6, <2>9 DEF Lectura, Marca, ConDatos, ConISBN
    <3>2. aServidor'[c] = Tail(aServidor[c])
      BY <2>7, <2>9 DEF Base, ConversacionOK
    <3>3. n = EnServidor(c)' /\ n.toca = "len"
      BY <2>3, <3>1 DEF Marca
    <3>4. ~ Perdido(c)'
      BY <2>2, <2>5, <3>2, <3>3, NoTexto DEF Perdido
    <3>5. QED
      BY <1>4, <2>2, <2>4, <3>2, <3>3, <3>4 DEF Encuadre, Perdiendose
  <2>10. CASE Head(aServidor[c]) = "len_exceso"
    <3>1. n.toca = "exceso"
      BY <2>2, <2>3, <2>6, <2>10 DEF Lectura, Marca, ConDatos, ConISBN
    <3>2. aServidor'[c] = Tail(aServidor[c])
      BY <2>7, <2>10 DEF Base, ConversacionOK
    <3>3. m.toca # "exceso"
      BY <2>2, MarcaEnCliente DEF Final, Base
    <3>4. /\ Tail(aServidor[c]) # << >> /\ Head(Tail(aServidor[c])) = "texto"
          /\ m.toca = "perdida"
      <4>1. /\ Tail(aServidor[c]) # << >> /\ Head(Tail(aServidor[c])) = "texto"
            /\ m = [n EXCEPT !.toca = "perdida"]
        BY <2>2, <2>5, <3>1, <3>3, TrasExceso
      <4>2. QED
        BY <4>1 DEF Marcas
    <3>5. /\ c \in largas
          /\ ~ Descolocado(c) /\ estado[c] # "fin" => estado[c] = "espera"
      BY <2>2, <3>4, MarcaEnCliente DEF Final, Base
    <3>6. Perdido(c)'
      BY <1>1, <3>2, <3>4, <3>5 DEF Perdido
    <3>7. QED
      BY <1>4, <3>5, <3>6 DEF Encuadre, Perdiendose
  <2>11. Head(aServidor[c]) # "texto"
    BY <1>4, <2>2, <2>3, <2>6 DEF Lectura, ConDatos, ConISBN
  <2>12. QED
    BY <2>7, <2>8, <2>9, <2>10, <2>11
<1>5. QED
  BY <1>2, <1>3, <1>4

\* To answer takes nothing of what the client sent.
LEMMA EncuadreContestar ==
  ASSUME Base, NEW c \in Clientes, c = atiende, Encuadre(c),
         UNCHANGED <<estado, orden, enviadas, aServidor, abierta, atiende, comando, leidas,
                     faltan, largas>>,
         paso = "cadenas" => faltan = 0 /\ paso' = "orden",
         paso \in {"cadenas", "contar", "enviar"}, paso' \in {"enviar", "orden"},
         silencios \subseteq silencios', desajustes \subseteq desajustes'
  PROVE  Encuadre(c)' /\ (Perdido(c)' <=> Perdido(c))
<1>1. EnServidor(c)' = EnServidor(c) /\ EnCliente(c)' = EnCliente(c)
  BY DEF EnServidor, EnCliente
<1>2. \A m \in Marcas : Final(c, m) => Final(c, m)'
  BY <1>1 DEF Final, Descolocado
<1>3. abierta[c]
  BY ConstantesOK DEF Base, Conexiones
<1>4. ASSUME paso # "cadenas", aServidor[c] # << >>
      PROVE  Head(aServidor[c]) # "texto"
  <2>1. ~ Perdido(c)
    BY <1>4 DEF Perdido
  <2>2. PICK n \in Marcas : Lectura(EnServidor(c), Head(aServidor[c]), n)
    BY <1>3, <1>4, <2>1, Cabeza
  <2>3. EnServidor(c).toca = "len"
    BY <1>4 DEF EnServidor, Marca
  <2>4. QED
    BY <2>2, <2>3 DEF Lectura, ConDatos, ConISBN
<1>5. Perdido(c)' => Perdido(c)
  BY <1>4 DEF Perdido
<1>6. Perdido(c) => Perdido(c)'
  <2>1. ASSUME Perdido(c)
        PROVE  paso' = "orden"
    BY <2>1 DEF Perdido
  <2>2. QED
    BY <2>1 DEF Perdido
<1>7. QED
  BY <1>1, <1>2, <1>5, <1>6 DEF Encuadre

-----------------------------------------------------------------------------
(* Who waits for whom, when a client reads *)

LEMMA LaCola ==
  ASSUME NEW X, NEW s \in Seq(X), s # << >>
  PROVE  /\ Head(s) = s[1] /\ Head(s) \in X /\ Len(s) \in Nat /\ Len(s) >= 1
         /\ Tail(s) \in Seq(X) /\ Len(Tail(s)) = Len(s) - 1
         /\ \A k \in 1 .. Len(s) - 1 : Tail(s)[k] = s[k + 1]
         /\ Len(s) = 1 => Tail(s) = << >>
         /\ Len(s) # 1 => Tail(s) # << >>
<1>1. /\ Head(s) = s[1] /\ Head(s) \in X /\ Len(s) \in Nat /\ Len(s) >= 1
      /\ Tail(s) \in Seq(X) /\ Len(Tail(s)) = Len(s) - 1
      /\ \A k \in 1 .. Len(s) - 1 : Tail(s)[k] = s[k + 1]
  OBVIOUS
<1>2. \A t \in Seq(X) : Len(t) = 0 <=> t = << >>
  OBVIOUS
<1>3. \A l \in Nat : l - 1 = 0 <=> l = 1
  OBVIOUS
<1>4. QED
  BY <1>1, <1>2, <1>3

LEMMA LaColaDeLaCola ==
  ASSUME NEW X, NEW s \in Seq(X), Len(s) >= 2
  PROVE  /\ s # << >> /\ Tail(s) # << >> /\ Head(s) = s[1] /\ Len(s) \in Nat
         /\ Tail(Tail(s)) \in Seq(X) /\ Len(Tail(Tail(s))) = Len(s) - 2
         /\ \A k \in 1 .. Len(s) - 2 : Tail(Tail(s))[k] = s[k + 2]
<1>1. Len(s) \in Nat /\ s # << >>
  OBVIOUS
<1>2. \A l \in Nat : l >= 2 => l # 1 /\ (l - 1) - 1 = l - 2
  OBVIOUS
<1>3. /\ Tail(s) \in Seq(X) /\ Len(Tail(s)) = Len(s) - 1 /\ Tail(s) # << >> /\ Head(s) = s[1]
      /\ \A k \in 1 .. Len(s) - 1 : Tail(s)[k] = s[k + 1]
  BY <1>1, <1>2, LaCola
<1>4. /\ Tail(Tail(s)) \in Seq(X) /\ Len(Tail(Tail(s))) = (Len(s) - 1) - 1
      /\ \A k \in 1 .. (Len(s) - 1) - 1 : Tail(Tail(s))[k] = Tail(s)[k + 1]
  <2>1. \A t \in Seq(X) : t # << >> =>
          /\ Tail(t) \in Seq(X) /\ Len(Tail(t)) = Len(t) - 1
          /\ \A k \in 1 .. Len(t) - 1 : Tail(t)[k] = t[k + 1]
    BY LaCola
  <2>2. QED
    BY <1>3, <2>1
<1>5. \A k \in 1 .. Len(s) - 2 :
        k \in 1 .. (Len(s) - 1) - 1 /\ k + 1 \in 1 .. Len(s) - 1 /\ (k + 1) + 1 = k + 2
  BY <1>1
<1>6. QED
  BY <1>1, <1>2, <1>3, <1>4, <1>5

LEMMA EtiquetasCola ==
  ASSUME ConversacionOK, NEW d \in Clientes, Etiquetas(d), enviadas' = enviadas,
         \/ aCliente'[d] = << >>
         \/ aCliente'[d] = aCliente[d]
         \/ aCliente[d] # << >> /\ aCliente'[d] = Tail(aCliente[d])
         \/ Len(aCliente[d]) >= 2 /\ aCliente'[d] = Tail(Tail(aCliente[d]))
  PROVE  Etiquetas(d)'
<1>1. aCliente[d] \in Seq(Respuestas)
  BY DEF ConversacionOK
<1>2. CASE aCliente'[d] = << >>
  BY <1>2 DEF Etiquetas
<1>3. CASE aCliente'[d] = aCliente[d]
  BY <1>3 DEF Etiquetas
<1>4. CASE aCliente[d] # << >> /\ aCliente'[d] = Tail(aCliente[d])
  <2>1. /\ Len(Tail(aCliente[d])) = Len(aCliente[d]) - 1 /\ Len(aCliente[d]) \in Nat
        /\ \A k \in 1 .. Len(aCliente[d]) - 1 : Tail(aCliente[d])[k] = aCliente[d][k + 1]
    BY <1>1, <1>4, LaCola
  <2>2. \A k \in 1 .. Len(aCliente[d]) - 1 : k + 1 \in 1 .. Len(aCliente[d])
    BY <2>1
  <2>3. QED
    BY <1>4, <2>1, <2>2 DEF Etiquetas
<1>5. CASE Len(aCliente[d]) >= 2 /\ aCliente'[d] = Tail(Tail(aCliente[d]))
  <2>1. /\ Len(Tail(Tail(aCliente[d]))) = Len(aCliente[d]) - 2 /\ Len(aCliente[d]) \in Nat
        /\ \A k \in 1 .. Len(aCliente[d]) - 2 : Tail(Tail(aCliente[d]))[k] = aCliente[d][k + 2]
    BY <1>1, <1>5, LaColaDeLaCola
  <2>2. \A k \in 1 .. Len(aCliente[d]) - 2 : k + 2 \in 1 .. Len(aCliente[d])
    BY <2>1
  <2>3. QED
    BY <1>5, <2>1, <2>2 DEF Etiquetas
<1>6. QED
  BY <1>2, <1>3, <1>4, <1>5

(***************************************************************************)
(* A client that reads, or has read, has had its command read before.      *)
(***************************************************************************)
LEMMA TurnoRecibe ==
  ASSUME Base, NEW d \in Clientes, Turno(d),
         UNCHANGED <<orden, enviadas, aServidor, abierta, servidor, historia>>,
         estado[d] \notin {"datos", "isbn"}, estado[d] = "espera" => aCliente[d] # << >>,
         estado'[d] \notin {"datos", "isbn"},
         Enviando(d) => Enviando(d)', Servido(d) => Servido(d)'
  PROVE  Turno(d)'
<1>1. ~ EnEspera(d)
  BY DEF EnEspera
<1>2. Leidas(d) = enviadas[d]
  <2>1. Leidas(d) \in Nat /\ enviadas[d] \in Nat
    BY MarcaEnServidor DEF Base, ConversacionOK
  <2>2. QED
    BY <1>1, <2>1 DEF Turno, AlDia
<1>3. atiende = d => paso \notin {"id", "cadenas", "contar"}
  BY <1>1 DEF Turno, Leyendo
<1>4. Leidas(d)' = Leidas(d) /\ enviadas[d] \in Nat
  BY DEF Leidas, servidor, Base, ConversacionOK
<1>5. AlDia(d)'
  BY <1>2, <1>4 DEF AlDia
<1>6. Leyendo(d)' /\ Extraviado(d)'
  BY <1>3 DEF Leyendo, Extraviado, servidor
<1>7. Atendido(d)'
  BY <1>2, <1>4 DEF Turno, Atendido, servidor, historia, listado
<1>8. QED
  BY <1>5, <1>6, <1>7 DEF Turno

\* To prove that a client that reads keeps in step.
LEMMA CompasRecibe ==
  ASSUME Base, NEW d \in Clientes, Compas(d),
         UNCHANGED <<orden, enviadas, aServidor, abierta, servidor, historia>>,
         estado[d] \in {"espera", "espera_id", "lista", "bytes"},
         estado'[d] \in {"menu", "espera_id", "lista", "bytes"},
         \/ aCliente'[d] = << >>
         \/ aCliente'[d] = aCliente[d]
         \/ aCliente[d] # << >> /\ aCliente'[d] = Tail(aCliente[d])
         \/ Len(aCliente[d]) >= 2 /\ aCliente'[d] = Tail(Tail(aCliente[d])),
         ~ Descolocado(d) => Forma(d)',
         abierta[d] /\ ~ Descolocado(d) =>
           /\ estado[d] = "espera" => aCliente[d] # << >>
           /\ Enviando(d) => Enviando(d)'
           /\ Servido(d) => Servido(d)'
  PROVE  Compas(d)'
<1>1. Descolocado(d)' <=> Descolocado(d)
  BY DEF Descolocado, historia, listado
<1>2. SUFFICES ASSUME ~ Descolocado(d)
               PROVE  Etiquetas(d)' /\ (abierta[d] => Turno(d)')
  BY <1>1 DEF Compas
<1>3. Etiquetas(d)'
  BY <1>2, EtiquetasCola DEF Compas, Base
<1>4. ASSUME abierta[d]
      PROVE  Turno(d)'
  BY <1>2, <1>4, TurnoRecibe DEF Compas
<1>5. QED
  BY <1>3, <1>4

LEMMA CompasRecibirRespuesta ==
  ASSUME Base, NEW d \in Clientes, RecibirRespuesta(d), Compas(d), EstadoOrden(d)
  PROVE  Compas(d)'
<1> DEFINE a == aCliente[d]
<1>1. /\ estado[d] = "espera" /\ orden[d] \in Ordenes \ {"listar"}
      /\ UNCHANGED <<orden, enviadas, aServidor, abierta, servidor, historia>>
      /\ estado'[d] \in {"menu", "espera_id"}
      /\ a \in Seq(Respuestas) /\ aCliente \in [Clientes -> Seq(Respuestas)]
  BY DEF RecibirRespuesta, Pasa, Base, ConversacionOK, EstadoOrden
<1>2. CASE a = << >>
  <2>1. ~ abierta[d] /\ estado'[d] = "menu" /\ aCliente' = aCliente
    BY <1>2 DEF RecibirRespuesta, Rota, Pasa, Base, ConversacionOK
  <2>2. Forma(d)'
    BY <1>2, <2>1 DEF Forma
  <2>3. QED
    BY <1>1, <2>1, <2>2, CompasRecibe
<1>3. CASE a # << >> /\ Descolocado(d)
  BY <1>1, <1>3 DEF Compas, Descolocado, historia, listado
<1>4. CASE a # << >> /\ ~ Descolocado(d)
  <2>1. RespuestaDe(orden[d], a, vistos[d])
    BY <1>1, <1>4 DEF Compas, Forma
  <2>2. /\ Head(a) = a[1] /\ Len(a) \in Nat
        /\ Len(a) = 1 => Tail(a) = << >>
        /\ Len(a) = 2 => Len(Tail(a)) = 1 /\ Tail(a)[1] = a[2] /\ Tail(a) # << >>
    BY <1>1, <1>4, LaCola
  <2>3. a[1].valor \notin {"texto", "len"} /\ orden[d] # "listar"
    BY <1>1, <2>1 DEF RespuestaDe
  <2>4. ~ Rota(d)
    BY <1>4 DEF Rota
  <2>5. aCliente' = [aCliente EXCEPT ![d] = Tail(@)]
    BY <2>2, <2>3, <2>4 DEF RecibirRespuesta
  <2>6. aCliente'[d] = Tail(a)
    BY <1>1, <2>5
  <2>7. IF orden[d] = "login" /\ a[1].valor = "login_ok" THEN estado'[d] = "espera_id"
        ELSE estado'[d] = "menu"
    BY <2>2, <2>3, <2>4 DEF RecibirRespuesta, Pasa, Base, ConversacionOK
  <2>8. \/ estado'[d] = "espera_id" /\ Len(a) = 2 /\ a[2].valor = "id_usuario"
        \/ estado'[d] = "menu" /\ Len(a) = 1
    BY <1>1, <2>1, <2>7 DEF RespuestaDe
  <2>9. Forma(d)'
    BY <2>2, <2>6, <2>8 DEF Forma
  <2>10. Enviando(d) => Enviando(d)'
    BY <1>1, <1>4 DEF Enviando, servidor, historia, listado
  <2>11. Servido(d) => Servido(d)'
    BY <2>2, <2>6, <2>8 DEF Servido
  <2>12. QED
    BY <1>1, <1>4, <2>6, <2>8, <2>9, <2>10, <2>11, CompasRecibe
<1>5. QED
  BY <1>2, <1>3, <1>4

LEMMA CompasRecibirId ==
  ASSUME Base, NEW d \in Clientes, RecibirId(d), Compas(d)
  PROVE  Compas(d)'
<1> DEFINE a == aCliente[d]
<1>1. /\ estado[d] = "espera_id" /\ estado'[d] = "menu"
      /\ UNCHANGED <<orden, enviadas, aServidor, abierta, servidor, historia>>
      /\ a \in Seq(Respuestas) /\ aCliente \in [Clientes -> Seq(Respuestas)]
  BY DEF RecibirId, Pasa, Base, ConversacionOK
<1>2. CASE Descolocado(d)
  BY <1>1, <1>2 DEF Compas, Descolocado, historia, listado
<1>3. CASE ~ Descolocado(d)
  <2>1. a = << >> \/ (Len(a) = 1 /\ a[1].valor = "id_usuario")
    BY <1>1, <1>3 DEF Compas, Forma
  <2>2. a # << >> => Head(a) = a[1] /\ (Len(a) = 1 => Tail(a) = << >>)
    BY <1>1, LaCola
  <2>3. aCliente'[d] = << >> /\ (a = << >> => ~ abierta[d])
    BY <1>1, <2>1, <2>2 DEF RecibirId, Rota
  <2>4. Forma(d)'
    BY <1>1, <2>3 DEF Forma
  <2>5. Enviando(d) => Enviando(d)'
    BY <1>1 DEF Enviando, servidor, historia, listado
  <2>6. Servido(d)'
    BY <1>1 DEF Servido
  <2>7. QED
    BY <1>1, <2>3, <2>4, <2>5, <2>6, CompasRecibe
<1>4. QED
  BY <1>2, <1>3

\* The number of books, the error in its place, or nothing on a broken connection.
LEMMA CompasRecibirCantidad ==
  ASSUME Base, NEW d \in Clientes, RecibirCantidad(d), Compas(d), Catalogo(d), TablaOK
  PROVE  Compas(d)'
<1> DEFINE a == aCliente[d]
<1>1. /\ estado[d] = "espera" /\ estado'[d] = "lista" /\ orden[d] = "listar"
      /\ UNCHANGED <<orden, enviadas, aServidor, abierta, servidor, historia, cache>>
      /\ a \in Seq(Respuestas) /\ aCliente \in [Clientes -> Seq(Respuestas)]
      /\ porRecibir \in [Clientes -> Nat]
  BY DEF RecibirCantidad, Pasa, Base, ConversacionOK
<1>2. CASE Descolocado(d)
  BY <1>1, <1>2 DEF Compas, Descolocado, historia, listado
<1>3. CASE a = << >>
  <2>1. ~ abierta[d] /\ aCliente' = aCliente
    BY <1>3 DEF RecibirCantidad, Rota
  <2>2. Forma(d)'
    BY <1>1, <1>3, <2>1 DEF Forma
  <2>3. QED
    BY <1>1, <2>1, <2>2, CompasRecibe
<1>4. CASE a # << >> /\ ~ Descolocado(d)
  <2>1. RespuestaDe("listar", a, vistos[d])
    BY <1>1, <1>4 DEF Compas, Forma
  <2>2. /\ Head(a) = a[1] /\ Len(a) \in Nat /\ Len(a) >= 1 /\ a[1] \in Respuestas
        /\ Len(Tail(a)) = Len(a) - 1
        /\ \A k \in 1 .. Len(a) - 1 : Tail(a)[k] = a[k + 1]
        /\ Len(a) = 1 => Tail(a) = << >>
    BY <1>1, <1>4, LaCola
  <2>3. /\ aCliente'[d] = Tail(a)
        /\ porRecibir'[d] = a[1].cuantos /\ porRecibir'[d] \in Nat
    <3>1. ~ Rota(d)
      BY <1>4 DEF Rota
    <3>2. a[1].cuantos \in Nat
      BY <2>2 DEF Respuestas
    <3>3. QED
      BY <1>1, <2>2, <3>1, <3>2 DEF RecibirCantidad
  <2>4. vistos[d] \in Nat
    BY DEF TablaOK
  <2>5. \/ Len(a) = 1 /\ a[1].valor = "error" /\ a[1].cuantos > 0
        \/ Len(a) = 1 /\ a[1].valor = "cantidad" /\ a[1].cuantos = vistos[d]
        \/ Len(a) = 2 /\ a[1].cuantos = vistos[d] /\ a[2].valor = "error" /\ vistos[d] > 0
        \/ /\ Len(a) = 2 * vistos[d] + 1 /\ a[1].cuantos = vistos[d]
           /\ \A j \in 1 .. vistos[d] : a[2 * j].valor = "len"
    BY <2>1 DEF RespuestaDe, ConDatos, ConISBN
  <2>6. Forma(d)'
    <3>1. CASE Len(a) = 1
      BY <1>1, <2>2, <2>3, <3>1 DEF Forma
    <3>2. CASE Len(a) = 2 /\ a[1].cuantos = vistos[d] /\ a[2].valor = "error" /\ vistos[d] > 0
      <4>1. Len(Tail(a)) = 1 /\ Tail(a)[1] = a[2]
        BY <2>2, <3>2
      <4>2. QED
        BY <1>1, <2>3, <3>2, <4>1 DEF Forma
    <3>3. CASE /\ Len(a) = 2 * vistos[d] + 1 /\ a[1].cuantos = vistos[d]
               /\ \A j \in 1 .. vistos[d] : a[2 * j].valor = "len"
      <4>1. Len(Tail(a)) = 2 * vistos[d]
        BY <2>2, <2>4, <3>3
      <4>2. \A j \in 1 .. vistos[d] : 2 * j - 1 \in 1 .. Len(a) - 1 /\ (2 * j - 1) + 1 = 2 * j
        BY <2>4, <3>3
      <4>3. \A j \in 1 .. vistos[d] : Tail(a)[2 * j - 1].valor = "len"
        BY <2>2, <3>3, <4>2
      <4>4. QED
        BY <1>1, <2>3, <3>3, <4>1, <4>3 DEF Forma
    <3>4. QED
      BY <2>5, <3>1, <3>2, <3>3
  <2>7. ASSUME abierta[d], Enviando(d)
        PROVE  Enviando(d)'
    <3>1. cache[d] = 0
      <4>1. d \notin desajustes \cup cortadas
        BY <1>4, <2>7 DEF Base, Conexiones, Descolocado
      <4>2. cacheado[d] \in BOOLEAN
        BY DEF Base, ConversacionOK
      <4>3. QED
        BY <1>1, <4>1, <4>2 DEF Catalogo
    <3>2. QED
      BY <1>1, <1>4, <2>2, <2>3, <2>7, <3>1 DEF Enviando, servidor, historia, listado
  <2>8. Servido(d) => Servido(d)'
    BY <1>1, <2>2, <2>3, <2>4, <2>5 DEF Servido
  <2>9. QED
    BY <1>1, <1>4, <2>3, <2>6, <2>7, <2>8, CompasRecibe
<1>5. QED
  BY <1>2, <1>3, <1>4

LEMMA CompasRecibirLibro ==
  ASSUME Base, NEW d \in Clientes, RecibirLibro(d), Compas(d)
  PROVE  Compas(d)'
<1> DEFINE a == aCliente[d]
<1>1. /\ estado[d] = "lista" /\ estado'[d] \in {"lista", "bytes"} /\ porRecibir[d] > 0
      /\ UNCHANGED <<orden, enviadas, aServidor, abierta, servidor, historia>>
      /\ a \in Seq(Respuestas) /\ aCliente \in [Clientes -> Seq(Respuestas)]
      /\ porRecibir \in [Clientes -> Nat]
  BY DEF RecibirLibro, Pasa, Base, ConversacionOK
<1>2. \/ /\ Len(a) >= 2 /\ a[1].valor = "len" /\ aCliente'[d] = Tail(Tail(a))
         /\ porRecibir'[d] = porRecibir[d] - 1 /\ estado'[d] = "lista"
      \/ /\ a # << >> /\ a[1].valor = "error" /\ aCliente'[d] = Tail(a)
         /\ porRecibir'[d] = porRecibir[d] /\ estado'[d] = "bytes"
      \/ /\ a = << >> /\ aCliente'[d] = a /\ ~ abierta[d] /\ estado'[d] = "lista"
  <2>1. a # << >> => Head(a) = a[1]
    BY <1>1, LaCola
  <2>2. Len(a) >= 2 => a # << >>
    BY <1>1
  <2>3. estado \in [Clientes -> {"fuera", "menu", "datos", "isbn", "espera", "espera_id",
                                 "lista", "bytes", "fin"}]
    BY DEF Base, ConversacionOK
  <2>4. QED
    BY <1>1, <2>1, <2>2, <2>3 DEF RecibirLibro, Rota, Pasa
<1>3. CASE Descolocado(d)
  BY <1>1, <1>3 DEF Compas, Descolocado, historia, listado
<1>4. CASE ~ Descolocado(d)
  <2>1. \/ a = << >>
        \/ Len(a) = 1 /\ a[1].valor = "error"
        \/ /\ Len(a) = 2 * porRecibir[d]
           /\ \A j \in 1 .. porRecibir[d] : a[2 * j - 1].valor = "len"
    BY <1>1, <1>4 DEF Compas, Forma
  <2>2. porRecibir[d] \in Nat /\ Len(a) \in Nat /\ Len(<< >>) = 0
    BY <1>1
  <2>3. a # << >> => /\ Len(a) >= 1
                     /\ Len(a) = 1 => Tail(a) = << >>
    BY <1>1, LaCola
  <2>4. CASE /\ Len(a) >= 2 /\ a[1].valor = "len" /\ aCliente'[d] = Tail(Tail(a))
             /\ porRecibir'[d] = porRecibir[d] - 1 /\ estado'[d] = "lista"
    <3>1. /\ Len(Tail(Tail(a))) = Len(a) - 2 /\ a # << >>
          /\ \A k \in 1 .. Len(a) - 2 : Tail(Tail(a))[k] = a[k + 2]
      BY <1>1, <2>4, LaColaDeLaCola
    <3>2. /\ Len(a) = 2 * porRecibir[d]
          /\ \A j \in 1 .. porRecibir[d] : a[2 * j - 1].valor = "len"
      BY <2>1, <2>4, <3>1
    <3>3. Len(Tail(Tail(a))) = 2 * (porRecibir[d] - 1)
      BY <2>2, <3>1, <3>2
    <3>4. \A j \in 1 .. porRecibir[d] - 1 :
            2 * j - 1 \in 1 .. Len(a) - 2 /\ (2 * j - 1) + 2 = 2 * (j + 1) - 1
              /\ j + 1 \in 1 .. porRecibir[d]
      BY <2>2, <3>2
    <3>5. \A j \in 1 .. porRecibir[d] - 1 : Tail(Tail(a))[2 * j - 1].valor = "len"
      BY <3>1, <3>2, <3>4
    <3>6. Forma(d)'
      BY <2>4, <3>3, <3>5 DEF Forma
    <3>7. (Enviando(d) => Enviando(d)') /\ Servido(d)'
      BY <1>1, <2>4, <3>1, <3>3 DEF Enviando, Servido, servidor
    <3>8. QED
      BY <1>1, <2>4, <3>6, <3>7, CompasRecibe
  <2>5. CASE /\ a # << >> /\ a[1].valor = "error" /\ aCliente'[d] = Tail(a)
             /\ porRecibir'[d] = porRecibir[d] /\ estado'[d] = "bytes"
    <3>1. Len(a) = 1
      <4>1. ASSUME \A j \in 1 .. porRecibir[d] : a[2 * j - 1].valor = "len"
            PROVE  FALSE
        <5>1. 1 \in 1 .. porRecibir[d] /\ 2 * 1 - 1 = 1
          BY <1>1, <2>2
        <5>2. QED
          BY <2>5, <4>1, <5>1
      <4>2. QED
        BY <2>1, <2>5, <4>1
    <3>2. aCliente'[d] = << >>
      BY <2>3, <2>5, <3>1
    <3>3. Forma(d)'
      BY <2>5, <3>2 DEF Forma
    <3>4. ~ Servido(d)
      <4>1. Len(a) # 2 * porRecibir[d]
        BY <1>1, <2>2, <3>1
      <4>2. QED
        BY <1>1, <4>1 DEF Servido
    <3>5. Enviando(d) => Enviando(d)'
      BY <1>1, <2>5 DEF Enviando, servidor, historia, listado
    <3>6. QED
      BY <1>1, <2>5, <3>2, <3>3, <3>4, <3>5, CompasRecibe
  <2>6. CASE a = << >> /\ aCliente'[d] = a /\ ~ abierta[d] /\ estado'[d] = "lista"
    <3>1. Forma(d)'
      BY <2>6 DEF Forma
    <3>2. QED
      BY <1>1, <2>6, <3>1, CompasRecibe
  <2>7. QED
    BY <1>2, <2>4, <2>5, <2>6
<1>5. QED
  BY <1>3, <1>4

LEMMA CompasRecibirBytes ==
  ASSUME Base, NEW d \in Clientes, RecibirBytes(d), Compas(d)
  PROVE  Compas(d)'
<1>1. /\ estado[d] = "bytes" /\ estado'[d] = "lista" /\ ~ abierta[d] /\ aCliente'[d] = << >>
      /\ UNCHANGED <<orden, enviadas, aServidor, abierta, servidor, historia>>
  BY DEF RecibirBytes, Rota, Pasa, conexion, Base, ConversacionOK
<1>2. Forma(d)'
  BY <1>1 DEF Forma
<1>3. QED
  BY <1>1, <1>2, CompasRecibe

LEMMA CompasCachear ==
  ASSUME Base, NEW d \in Clientes, Cachear(d), Compas(d)
  PROVE  Compas(d)'
<1>1. /\ estado[d] = "lista" /\ estado'[d] = "menu" /\ porRecibir[d] = 0
      /\ UNCHANGED <<orden, enviadas, porRecibir, cache, aServidor, aCliente, abierta, servidor,
                     historia>>
  BY DEF Cachear, Pasa, conexion, Base, ConversacionOK
<1>2. CASE Descolocado(d)
  BY <1>1, <1>2 DEF Compas, Descolocado, historia, listado
<1>3. CASE ~ Descolocado(d)
  <2>1. aCliente[d] = << >>
    <3>1. aCliente[d] \in Seq(Respuestas)
      BY DEF Base, ConversacionOK
    <3>2. aCliente[d] = << >> \/ Len(aCliente[d]) = 2 * porRecibir[d]
      BY <1>1, <1>3 DEF Compas, Forma
    <3>3. 2 * porRecibir[d] = 0
      BY <1>1
    <3>4. QED
      BY <3>1, <3>2, <3>3
  <2>2. Forma(d)'
    BY <1>1, <2>1 DEF Forma
  <2>3. Enviando(d) => Enviando(d)'
    BY <1>1, <2>1 DEF Enviando, servidor, historia, listado
  <2>4. Servido(d)'
    BY <1>1 DEF Servido
  <2>5. QED
    BY <1>1, <2>1, <2>2, <2>3, <2>4, CompasRecibe
<1>4. QED
  BY <1>2, <1>3

-----------------------------------------------------------------------------
(* Who waits for whom, when a client asks *)

LEMMA CompasElegir ==
  ASSUME Base, NEW d \in Clientes, NEW o \in Ordenes, Elegir(d, o), Compas(d)
  PROVE  Compas(d)'
<1>1. /\ estado[d] = "menu" /\ estado'[d] \in {"espera", "datos"}
      /\ orden'[d] = o /\ enviadas'[d] = enviadas[d] + 1 /\ enviadas[d] \in Nat
      /\ UNCHANGED <<porRecibir, cache, aCliente, abierta, servidor, historia>>
      /\ Leidas(d)' = Leidas(d) /\ Leidas(d) \in Nat
  BY MarcaEnServidor DEF Elegir, Pasa, Leidas, servidor, Base, ConversacionOK
<1>2. SUFFICES ASSUME ~ Descolocado(d)
               PROVE  Etiquetas(d)' /\ Forma(d)' /\ (abierta[d] => Turno(d)')
  BY <1>1 DEF Compas, Descolocado, historia, listado
<1>3. aCliente[d] = << >>
  BY <1>1, <1>2 DEF Compas, Forma
<1>4. Etiquetas(d)' /\ Forma(d)' /\ EnEspera(d)'
  BY <1>1, <1>3 DEF Etiquetas, Forma, EnEspera
<1>5. ASSUME abierta[d]
      PROVE  Turno(d)'
  <2>1. Turno(d)
    BY <1>1, <1>2, <1>5 DEF Compas
  <2>2. ~ EnEspera(d)
    BY <1>1 DEF EnEspera
  <2>3. Leidas(d) = enviadas[d]
    BY <1>1, <2>1, <2>2 DEF Turno, AlDia
  <2>4. Leidas(d)' < enviadas'[d] /\ enviadas'[d] = Leidas(d)' + 1 /\ Leidas(d)' # enviadas'[d]
    BY <1>1, <2>3
  <2>5. AlDia(d)' /\ Atendido(d)'
    BY <1>1, <1>4, <2>4 DEF AlDia, Atendido
  <2>6. atiende = d => leidas' < enviadas'[d] /\ leidas' # enviadas'[d]
    BY <1>1, <2>4 DEF Leidas, servidor
  <2>7. Extraviado(d)' /\ Leyendo(d)'
    BY <1>1, <2>1, <2>2, <2>6 DEF Extraviado, Turno, Leyendo, Perdido, servidor
  <2>8. Enviando(d)'
    BY <1>1, <1>3, <2>1, <2>6 DEF Turno, Enviando, servidor, historia, listado
  <2>9. QED
    BY <2>5, <2>7, <2>8 DEF Turno
<1>6. QED
  BY <1>4, <1>5

LEMMA CompasTeclea ==
  ASSUME Base, NEW d \in Clientes, Compas(d), Encuadre(d), NEW t \in Seq(Enviables), Manda(d, t),
         UNCHANGED <<orden, enviadas, porRecibir, cache, aCliente, abierta, servidor, silencios,
                     desajustes, vistos>>,
         largas \subseteq largas', estado[d] \in {"datos", "isbn"},
         \/ estado'[d] = "espera"
         \/ estado'[d] = "isbn" /\ UNCHANGED largas /\ t # << >> /\ Head(t) # "texto"
  PROVE  Compas(d)'
<1>1. SUFFICES ASSUME ~ Descolocado(d)
               PROVE  Etiquetas(d)' /\ Forma(d)' /\ (abierta[d] => Turno(d)')
  BY DEF Compas, Descolocado
<1>2. aCliente[d] = << >>
  BY <1>1 DEF Compas, Forma
<1>3. Etiquetas(d)' /\ Forma(d)' /\ EnEspera(d)' /\ Leidas(d)' = Leidas(d)
  BY <1>2 DEF Etiquetas, Forma, EnEspera, Leidas, servidor
<1>4. ASSUME abierta[d]
      PROVE  Turno(d)'
  <2>1. Turno(d)
    BY <1>1, <1>4 DEF Compas
  <2>2. aServidor'[d] = aServidor[d] \o t /\ aServidor[d] \in Seq(Enviables)
    BY <1>4, SeManda DEF Base, ConversacionOK
  <2>3. /\ aServidor[d] # << >> => aServidor'[d] # << >> /\ Head(aServidor'[d]) = Head(aServidor[d])
        /\ aServidor[d] = << >> => aServidor'[d] = t
    BY <2>2
  <2>4. Perdido(d) => Perdido(d)'
    BY <2>3 DEF Perdido, servidor
  <2>5. AlDia(d)'
    BY <1>3, <2>1, <2>4 DEF Turno, AlDia
  <2>6. Leyendo(d)'
    BY <1>3, <2>1 DEF Turno, Leyendo, servidor
  <2>7. Enviando(d)'
    BY <1>2, <2>1 DEF Turno, Enviando, servidor, historia, listado
  <2>8. Extraviado(d)'
    <3>1. ASSUME estado'[d] = "isbn", Perdido(d)'
          PROVE  Perdido(d)
      BY <2>3, <3>1 DEF Perdido, servidor
    <3>2. QED
      BY <2>1, <3>1 DEF Turno, Extraviado, servidor
  <2>9. ~ (Leidas(d) = enviadas[d] /\ (atiende = d => paso = "orden"))
    BY <1>1, <1>4, <2>1, Listo DEF EntreOrdenes
  <2>10. Atendido(d)'
    BY <1>3, <2>9 DEF Atendido, servidor
  <2>11. QED
    BY <2>5, <2>6, <2>7, <2>8, <2>10 DEF Turno
<1>5. QED
  BY <1>3, <1>4

LEMMA CompasConectar ==
  ASSUME Base, NEW d \in Clientes, Conectar(d)
  PROVE  Compas(d)'
<1>1. /\ estado[d] = "fuera" /\ ~ abierta[d] /\ enviadas[d] = 0 /\ aCliente[d] = << >>
      /\ UNCHANGED <<orden, enviadas, aServidor, aCliente, atiende, paso, leidas, historia>>
      /\ atiende # d
  BY ConstantesOK DEF Conectar, Base, Conexiones
<1>2. SUFFICES ASSUME estado'[d] = "menu"
               PROVE  Compas(d)'
  BY <1>1 DEF Conectar, Pasa, Compas, Base, ConversacionOK
<1>3. Etiquetas(d)' /\ Forma(d)' /\ Leidas(d)' = 0
  BY <1>1, <1>2 DEF Etiquetas, Forma, Leidas
<1>4. Turno(d)'
  BY <1>1, <1>2, <1>3 DEF Turno, AlDia, Leyendo, Enviando, Extraviado, Perdido, Atendido, Servido
<1>5. QED
  BY <1>3, <1>4 DEF Compas

LEMMA CompasCliente ==
  ASSUME Base, NEW d \in Clientes, PasoCliente(d), TablaOK,
         Encuadre(d), EstadoOrden(d), Compas(d), Catalogo(d)
  PROVE  Compas(d)'
<1>1. ASSUME NEW s \in Cadenas, NEW k, EscribirDatos(d, s, k)
      PROVE  Compas(d)'
  <2>1. Formulario(Textos(orden[d]), k, s) \in Seq(Enviables)
    BY DeFormulario
  <2>2. estado'[d] = "espera" /\ largas \subseteq largas'
    BY <1>1 DEF EscribirDatos, Pasa, Base, ConversacionOK
  <2>3. QED
    BY <1>1, <2>1, <2>2, CompasTeclea DEF EscribirDatos, listado
<1>2. ASSUME NEW s \in Cadenas, EscribirISBN(d, s)
      PROVE  Compas(d)'
  <2>1. Trozos(s) \in Seq(Enviables)
    BY DeTrozos, ConstantesOK
  <2>2. estado'[d] = "espera" /\ largas \subseteq largas'
    BY <1>2 DEF EscribirISBN, Pasa, Base, ConversacionOK
  <2>3. QED
    BY <1>2, <2>1, <2>2, CompasTeclea DEF EscribirISBN, listado
<1>3. ASSUME EscribirId(d)
      PROVE  Compas(d)'
  <2>1. <<"id">> \in Seq(Enviables) /\ <<"id">> # << >> /\ Head(<<"id">>) = "id"
    BY DEF Enviables
  <2>2. estado'[d] = "isbn"
    BY <1>3 DEF EscribirId, Pasa, Base, ConversacionOK
  <2>3. QED
    BY <1>3, <2>1, <2>2, CompasTeclea DEF EscribirId, historia, listado
<1>4. ASSUME Salir(d) \/ CaidaCliente(d)
      PROVE  Compas(d)'
  BY <1>4 DEF Salir, CaidaCliente, Pasa, Compas, Base, ConversacionOK
<1>5. QED
  BY <1>1, <1>2, <1>3, <1>4, CompasElegir, CompasRecibirRespuesta, CompasRecibirId,
     CompasRecibirCantidad, CompasRecibirLibro, CompasRecibirBytes, CompasCachear DEF PasoCliente

-----------------------------------------------------------------------------
(* Who waits for whom, when the server reads and answers *)

\* What the proofs of the steps of the server start from.
LEMMA CompasDe ==
  ASSUME Base, NEW c \in Clientes, c = atiende, Compas(c), ~ Descolocado(c), estado[c] # "fin"
  PROVE  /\ Etiquetas(c) /\ Forma(c) /\ Turno(c) /\ abierta[c] /\ Leidas(c) = leidas
         /\ leidas \in Nat /\ enviadas[c] \in Nat
<1>1. abierta[c]
  BY ConstantesOK DEF Base, Conexiones
<1>2. estado[c] # "fuera"
  BY <1>1 DEF Base, Conexiones
<1>3. QED
  BY <1>1, <1>2 DEF Compas, Leidas, Base, ConversacionOK

LEMMA CompasLeerUna ==
  ASSUME Base, LeerUna, NEW c \in Clientes, c = atiende, Encuadre(c), Compas(c)
  PROVE  Compas(c)'
<1>1. /\ UNCHANGED <<estado, orden, enviadas, porRecibir, cache, cacheado, aCliente, abierta, atiende,
                    silencios, desajustes, largas, vistos>>
      /\ paso = "orden" /\ paso' \in {"id", "cadenas", "contar"} /\ leidas' = leidas + 1
      /\ comando' = Head(aServidor[c]) /\ aServidor[c] # << >> /\ Head(aServidor[c]) \in Ordenes
      /\ aServidor' = [aServidor EXCEPT ![c] = Tail(@)]
  BY DEF LeerUna, Lee, Consume
<1>2. ~ Perdido(c) /\ ~ Perdido(c)'
  BY EncuadreLeerUna
<1>3. SUFFICES ASSUME ~ Descolocado(c), estado[c] # "fin"
               PROVE  Etiquetas(c)' /\ Forma(c)' /\ Turno(c)'
  BY <1>1 DEF Compas, Descolocado
<1>4. /\ Etiquetas(c) /\ Forma(c) /\ Turno(c) /\ abierta[c] /\ Leidas(c) = leidas
      /\ leidas \in Nat /\ enviadas[c] \in Nat
  BY <1>3, CompasDe
<1>5. Etiquetas(c)' /\ Forma(c)' /\ (EnEspera(c)' <=> EnEspera(c)) /\ Leidas(c)' = leidas + 1
  BY <1>1, <1>4 DEF Etiquetas, Forma, EnEspera, Leidas
<1>6. leidas # enviadas[c]
  <2>1. EntreOrdenes(c)
    BY <1>1 DEF EntreOrdenes
  <2>2. QED
    BY <1>1, <1>2, <1>3, <1>4, <2>1, Listo
<1>7. leidas + 1 = enviadas[c] /\ EnEspera(c)
  BY <1>2, <1>4, <1>6 DEF Turno, AlDia
<1>8. comando' = orden[c]
  <2>1. PICK n \in Marcas, m \in Marcas :
          /\ Lectura(EnServidor(c), Head(aServidor[c]), n)
          /\ Recorrido(Tail(aServidor[c]), n, m)
          /\ Final(c, m)
    BY <1>1, <1>2, <1>4, Cabeza
  <2>2. n.ordenes = leidas + 1 /\ n.orden = Head(aServidor[c])
    <3>1. EnServidor(c).toca = "len" /\ EnServidor(c).textos = 0 /\ EnServidor(c).ordenes = leidas
      BY <1>1 DEF EnServidor, Marca
    <3>2. QED
      BY <1>1, <2>1, <3>1 DEF Lectura, Marca
  <2>3. m.ordenes = enviadas[c] /\ m.orden = orden[c]
    BY <1>3, <2>1, MarcaEnCliente DEF Final, Base
  <2>4. m.orden = n.orden
    <3>1. Tail(aServidor[c]) \in Seq(Enviables)
      BY <1>1, ColaEnSeq DEF Base, ConversacionOK
    <3>2. NoAntes(n, m)
      BY <2>1, <3>1, RecorridoNoAntes
    <3>3. QED
      BY <1>7, <2>2, <2>3, <3>2 DEF NoAntes
  <2>5. QED
    BY <1>1, <2>2, <2>3, <2>4
<1>9. AlDia(c)'
  BY <1>1, <1>4, <1>5, <1>7 DEF AlDia
<1>10. Leyendo(c)' /\ Enviando(c)' /\ Extraviado(c)' /\ Atendido(c)'
  BY <1>1, <1>2, <1>5, <1>7, <1>8 DEF Leyendo, Enviando, Extraviado, Atendido
<1>11. QED
  BY <1>5, <1>9, <1>10 DEF Turno

LEMMA CompasLeer ==
  ASSUME Base, LeerId \/ LeerCadena, NEW c \in Clientes, c = atiende, Encuadre(c), Compas(c)
  PROVE  Compas(c)'
<1>1. /\ UNCHANGED <<estado, orden, enviadas, porRecibir, cache, cacheado, aCliente, abierta, atiende,
                    comando, leidas, silencios, desajustes, largas, vistos>>
      /\ paso \in {"id", "cadenas"}
      /\ estado[c] # "fin" => paso' = "cadenas"
  BY DEF LeerId, LeerCadena, cliente, historia, listado, SeFue
<1>2. SUFFICES ASSUME ~ Descolocado(c), estado[c] # "fin"
               PROVE  Etiquetas(c)' /\ Forma(c)' /\ Turno(c)'
  BY <1>1 DEF Compas, Descolocado
<1>3. /\ Etiquetas(c) /\ Forma(c) /\ Turno(c) /\ Leidas(c) = leidas
      /\ leidas \in Nat /\ enviadas[c] \in Nat
  BY <1>2, CompasDe
<1>4. Etiquetas(c)' /\ Forma(c)' /\ (EnEspera(c)' <=> EnEspera(c)) /\ Leidas(c)' = leidas
  BY <1>1, <1>3 DEF Etiquetas, Forma, EnEspera, Leidas
<1>5. leidas = enviadas[c] /\ EnEspera(c) /\ comando = orden[c]
  BY <1>1, <1>3 DEF Turno, Leyendo
<1>6. Perdido(c)' => estado[c] \notin {"datos", "isbn"}
  <2>1. CASE LeerId
    BY <1>2, <2>1, EncuadreLeerId
  <2>2. CASE LeerCadena
    <3>1. Perdiendose(c)
      BY <2>2, EncuadreLeerCadena
    <3>2. QED
      BY <1>2, <1>3, <1>5, <3>1 DEF Perdiendose, Turno, Extraviado
  <2>3. QED
    BY <2>1, <2>2
<1>7. AlDia(c)'
  BY <1>1, <1>3, <1>4, <1>5 DEF AlDia
<1>8. Leyendo(c)' /\ Enviando(c)' /\ Extraviado(c)' /\ Atendido(c)'
  BY <1>1, <1>2, <1>4, <1>5, <1>6 DEF Leyendo, Enviando, Extraviado, Atendido
<1>9. QED
  BY <1>4, <1>7, <1>8 DEF Turno

\* What is sent to a client with nothing to read is what it has to read.
LEMMA SoloEso ==
  ASSUME ConversacionOK, NEW c \in Clientes, c = atiende, estado[c] # "fin", aCliente[c] = << >>,
         NEW t \in Seq(Respuestas), Contesta(t)
  PROVE  aCliente'[c] = t
<1>1. aCliente'[c] = aCliente[c] \o t
  BY SeContesta
<1>2. << >> \o t = t
  OBVIOUS
<1>3. QED
  BY <1>1, <1>2

LEMMA UnaEtiqueta ==
  ASSUME NEW c \in Clientes, Len(aCliente'[c]) = 1, aCliente'[c][1].orden = enviadas'[c]
  PROVE  Etiquetas(c)'
<1>1. \A k \in 1 .. 1 : k = 1
  OBVIOUS
<1>2. QED
  BY <1>1 DEF Etiquetas

(***************************************************************************)
(* The server has read all of a request: the client waits, with nothing    *)
(* else to type, and its command is that of the server.                    *)
(***************************************************************************)
LEMMA TodoLeido ==
  ASSUME Base, NEW c \in Clientes, c = atiende, Encuadre(c), Compas(c),
         ~ Descolocado(c), estado[c] # "fin",
         paso \in {"cadenas", "contar"}, paso = "cadenas" => faltan = 0
  PROVE  /\ estado[c] = "espera" /\ aCliente[c] = << >> /\ orden[c] = comando
         /\ leidas = enviadas[c] /\ enviadas[c] \in Nat /\ Leidas(c) = leidas
<1>1. /\ Turno(c) /\ abierta[c] /\ Leidas(c) = leidas /\ enviadas[c] \in Nat
  BY CompasDe
<1>2. leidas = enviadas[c] /\ EnEspera(c) /\ comando = orden[c]
  BY <1>1 DEF Turno, Leyendo
<1>3. EntreOrdenes(c)
  BY DEF EntreOrdenes
<1>4. estado[c] \notin {"datos", "isbn"}
  BY <1>1, <1>2, <1>3, Listo
<1>5. QED
  BY <1>1, <1>2, <1>4 DEF EnEspera

\* To keep in step after an answer, or part of one.
LEMMA TurnoContestar ==
  ASSUME NEW c \in Clientes, c = atiende, leidas = enviadas[c], enviadas[c] \in Nat,
         UNCHANGED <<estado, orden, enviadas, atiende, leidas>>,
         estado[c] \notin {"datos", "isbn"}, paso' \in {"enviar", "orden"},
         Enviando(c)', paso' = "orden" /\ c \notin silencios' => Servido(c)'
  PROVE  Turno(c)'
<1>1. Leidas(c)' = enviadas[c]
  BY DEF Leidas
<1>2. AlDia(c)'
  BY <1>1 DEF AlDia
<1>3. QED
  BY <1>1, <1>2 DEF Turno, Leyendo, Extraviado, Atendido

LEMMA CompasTerminar ==
  ASSUME Base, Terminar, NEW c \in Clientes, c = atiende, Encuadre(c), Compas(c)
  PROVE  Compas(c)'
<1>1. /\ UNCHANGED <<estado, orden, enviadas, abierta, atiende, leidas, desajustes, vistos>>
      /\ paso = "cadenas" /\ faltan = 0 /\ paso' = "orden" /\ silencios \subseteq silencios'
  BY DEF Terminar
<1>2. SUFFICES ASSUME ~ Descolocado(c), estado[c] # "fin"
               PROVE  Etiquetas(c)' /\ Forma(c)' /\ Turno(c)'
  BY <1>1 DEF Compas, Descolocado
<1>3. /\ estado[c] = "espera" /\ aCliente[c] = << >> /\ orden[c] = comando
      /\ leidas = enviadas[c] /\ enviadas[c] \in Nat
  BY <1>1, <1>2, TodoLeido
<1>4. comando \in ConDatos \cup ConISBN
  BY <1>1 DEF Base, PasoComando
<1>5. Enviando(c)'
  BY <1>1 DEF Enviando
<1>6. CASE aCliente' = aCliente /\ silencios' = silencios \cup {atiende}
  <2>1. Etiquetas(c)' /\ Forma(c)'
    BY <1>1, <1>3, <1>6 DEF Etiquetas, Forma
  <2>2. QED
    BY <1>1, <1>3, <1>5, <1>6, <2>1, TurnoContestar
<1>7. ASSUME NEW t \in Seq(Respuestas), Respuesta(t), Contesta(t)
      PROVE  Etiquetas(c)' /\ Forma(c)' /\ Turno(c)'
  <2>1. aCliente'[c] = t
    BY <1>2, <1>3, <1>7, SoloEso DEF Base
  <2>2. \A k \in 1 .. Len(t) : t[k].orden = leidas
    BY <1>7 DEF Respuesta, Trozo
  <2>3. Etiquetas(c)'
    BY <1>1, <1>3, <2>1, <2>2 DEF Etiquetas
  <2>4. RespuestaDe(comando, t, vistos[c]) /\ t # << >>
    <3>1. \/ comando = "login" /\ Len(t) = 1 /\ t[1].valor = "login_fail"
          \/ comando = "login" /\ Len(t) = 2 /\ t[1].valor = "login_ok" /\ t[2].valor = "id_usuario"
          \/ comando = "registrar" /\ Len(t) = 1 /\ t[1].valor \in {"ok", "error"}
          \/ comando \in ConISBN /\ Len(t) = 1 /\ t[1].valor \in {"uno", "cero"}
      <4>1. \A x, y : /\ Len(<<x>>) = 1 /\ <<x>>[1] = x
                      /\ Len(<<x, y>>) = 2 /\ <<x, y>>[1] = x /\ <<x, y>>[2] = y
        OBVIOUS
      <4>2. \A v, n : Trozo(v, n).valor = v
        BY DEF Trozo
      <4>3. QED
        BY <1>7, <4>1, <4>2 DEF Respuesta
    <3>2. Len(<< >>) = 0
      OBVIOUS
    <3>3. comando \in ConISBN \cup {"registrar"} => comando \in Ordenes \ {"login", "listar"}
      BY DEF Ordenes, ConDatos, ConISBN
    <3>4. t # << >>
      BY <3>1, <3>2
    <3>5. RespuestaDe(comando, t, vistos[c])
      BY <3>1, <3>3 DEF RespuestaDe
    <3>6. QED
      BY <3>4, <3>5
  <2>5. Forma(c)'
    BY <1>1, <1>3, <2>1, <2>4 DEF Forma
  <2>6. Servido(c)'
    BY <1>1, <1>3, <1>4, <2>1, <2>4 DEF Servido, ConDatos, ConISBN
  <2>7. QED
    BY <1>1, <1>3, <1>5, <2>3, <2>5, <2>6, TurnoContestar
<1>8. QED
  BY <1>6, <1>7 DEF Terminar

LEMMA CompasListarMal ==
  ASSUME Base, NEW p \in {"contar", "enviar"}, ListarMal(p),
         NEW c \in Clientes, c = atiende, Encuadre(c), Compas(c), TablaOK
  PROVE  Compas(c)'
<1> DEFINE t == <<Trozo("error", RESP_ERROR)>>
<1>1. /\ UNCHANGED <<estado, orden, enviadas, porRecibir, abierta, atiende, leidas, vistos>>
      /\ desajustes' = desajustes \cup {x \in {c} : p = "enviar" /\ vistos[c] = 0}
      /\ paso = p /\ comando = "listar" /\ paso' = "orden" /\ silencios' = silencios \cup {c}
      /\ Contesta(t)
  BY DEF ListarMal, Listar
<1>2. t \in Seq(Respuestas) /\ Len(t) = 1
      /\ t[1].valor = "error" /\ t[1].cuantos > 0 /\ t[1].orden = leidas
  BY DeRespuesta DEF Base, Trozo, RESP_ERROR
<1> HIDE DEF t
<1>3. SUFFICES ASSUME ~ Descolocado(c), estado[c] # "fin", p = "enviar" => vistos[c] > 0
               PROVE  Etiquetas(c)' /\ Forma(c)' /\ Turno(c)'
  <2>1. vistos[c] \in Nat
    BY DEF TablaOK
  <2>2. c \in desajustes' \/ (c \notin desajustes /\ (p = "enviar" => vistos[c] > 0))
    BY <1>1, <2>1
  <2>3. QED
    BY <1>1, <2>2 DEF Compas, Descolocado
<1>4. Enviando(c)'
  BY <1>1 DEF Enviando
<1>5. CASE p = "contar"
  <2>1. /\ estado[c] = "espera" /\ aCliente[c] = << >> /\ orden[c] = "listar"
        /\ leidas = enviadas[c] /\ enviadas[c] \in Nat
    BY <1>1, <1>3, <1>5, TodoLeido
  <2>2. aCliente'[c] = t
    BY <1>1, <1>2, <1>3, <2>1, SoloEso DEF Base
  <2>3. Etiquetas(c)' /\ Forma(c)'
    <3>1. Etiquetas(c)'
      BY <1>1, <1>2, <2>1, <2>2, UnaEtiqueta
    <3>2. RespuestaDe("listar", t, vistos[c])
      BY <1>2 DEF RespuestaDe
    <3>3. Forma(c)'
      BY <1>1, <2>1, <2>2, <3>2 DEF Forma
    <3>4. QED
      BY <3>1, <3>3
  <2>4. QED
    BY <1>1, <1>4, <2>1, <2>3, TurnoContestar
<1>6. CASE p = "enviar"
  <2>1. /\ Etiquetas(c) /\ Turno(c) /\ leidas \in Nat /\ enviadas[c] \in Nat
    BY <1>3, CompasDe
  <2>2. \/ /\ leidas = enviadas[c] /\ orden[c] = "listar" /\ estado[c] = "espera"
           /\ Len(aCliente[c]) = 1
           /\ aCliente[c][1].valor = "cantidad" /\ aCliente[c][1].cuantos = vistos[c]
        \/ /\ leidas = enviadas[c] /\ estado[c] = "lista"
           /\ aCliente[c] = << >> /\ porRecibir[c] = vistos[c]
    BY <1>1, <1>3, <1>6, <2>1 DEF Turno, Enviando
  <2>3. aCliente'[c] = aCliente[c] \o t /\ aCliente[c] \in Seq(Respuestas)
    BY <1>1, <1>2, <1>3, SeContesta DEF Base, ConversacionOK
  <2>4. CASE estado[c] = "lista" /\ aCliente[c] = << >>
    <3>1. aCliente'[c] = t
      BY <1>1, <1>2, <1>3, <2>4, SoloEso DEF Base
    <3>2. Etiquetas(c)' /\ Forma(c)'
      <4>1. Etiquetas(c)'
        BY <1>1, <1>2, <2>2, <2>4, <3>1, UnaEtiqueta
      <4>2. porRecibir'[c] > 0
        BY <1>1, <1>3, <1>6, <2>2, <2>4
      <4>3. Forma(c)'
        BY <1>1, <1>2, <2>4, <3>1, <4>2 DEF Forma
      <4>4. QED
        BY <4>1, <4>3
    <3>3. QED
      BY <1>1, <1>4, <2>1, <2>2, <2>4, <3>2, TurnoContestar
  <2>5. CASE orden[c] = "listar" /\ estado[c] = "espera" /\ Len(aCliente[c]) = 1
    <3>1. Len(aCliente'[c]) = 2 /\ aCliente'[c][1] = aCliente[c][1] /\ aCliente'[c][2] = t[1]
      BY <1>2, <2>3, <2>5
    <3>2. aCliente[c][1].orden = enviadas[c]
      BY <2>1, <2>5 DEF Etiquetas
    <3>3. Etiquetas(c)'
      BY <1>1, <1>2, <2>2, <2>5, <3>1, <3>2 DEF Etiquetas
    <3>4. RespuestaDe("listar", aCliente'[c], vistos[c])
      BY <1>2, <1>3, <1>6, <2>2, <2>5, <3>1 DEF RespuestaDe
    <3>5. Forma(c)'
      BY <1>1, <2>5, <3>4 DEF Forma
    <3>6. QED
      BY <1>1, <1>4, <2>1, <2>2, <2>5, <3>3, <3>5, TurnoContestar
  <2>6. QED
    BY <2>2, <2>4, <2>5
<1>7. QED
  BY <1>5, <1>6

LEMMA CompasContarBien ==
  ASSUME Base, ContarBien,
         NEW c \in Clientes, c = atiende, Encuadre(c), Compas(c), TablaOK
  PROVE  Compas(c)'
<1> DEFINE t == <<Trozo("cantidad", libros)>>
<1>1. /\ UNCHANGED <<estado, orden, enviadas, porRecibir, abierta, atiende, leidas, silencios,
                    desajustes>>
      /\ paso = "contar" /\ comando = "listar" /\ paso' = "enviar" /\ Contesta(t)
      /\ vistos'[c] = libros
  BY DEF ContarBien, Listar, TablaOK
<1>2. t \in Seq(Respuestas) /\ Len(t) = 1
      /\ t[1].valor = "cantidad" /\ t[1].cuantos = libros /\ t[1].orden = leidas
  BY DeTrozo DEF Base, Trozo, TablaOK
<1> HIDE DEF t
<1>3. SUFFICES ASSUME ~ Descolocado(c), estado[c] # "fin"
               PROVE  Etiquetas(c)' /\ Forma(c)' /\ Turno(c)'
  BY <1>1 DEF Compas, Descolocado
<1>4. /\ estado[c] = "espera" /\ aCliente[c] = << >> /\ orden[c] = "listar"
      /\ leidas = enviadas[c] /\ enviadas[c] \in Nat
  BY <1>1, <1>3, TodoLeido
<1>5. aCliente'[c] = t
  BY <1>1, <1>2, <1>3, <1>4, SoloEso DEF Base
<1>6. Etiquetas(c)'
  BY <1>1, <1>2, <1>4, <1>5, UnaEtiqueta
<1>7. RespuestaDe("listar", t, libros)
  BY <1>2 DEF RespuestaDe
<1>8. Forma(c)'
  BY <1>1, <1>4, <1>5, <1>7 DEF Forma
<1>9. Enviando(c)'
  BY <1>1, <1>2, <1>4, <1>5 DEF Enviando
<1>10. QED
  BY <1>1, <1>4, <1>6, <1>8, <1>9, TurnoContestar

LEMMA LasLineas ==
  ASSUME ConversacionOK, NEW n \in Nat
  PROVE  /\ LineasDe(n) \in Seq(Respuestas) /\ Len(LineasDe(n)) = 2 * n
         /\ \A k \in 1 .. 2 * n : LineasDe(n)[k].orden = leidas
         /\ \A j \in 1 .. n : LineasDe(n)[2 * j - 1].valor = "len"
<1>2. \A k \in 1 .. 2 * n :
        LineasDe(n)[k] = IF k % 2 = 1 THEN Trozo("len", 0) ELSE Trozo("texto", 0)
  BY DEF LineasDe
<1>3. Trozo("len", 0).orden = leidas /\ Trozo("texto", 0).orden = leidas
      /\ Trozo("len", 0).valor = "len"
  BY DEF Trozo
<1>4. \A j \in 1 .. n : 2 * j - 1 \in 1 .. 2 * n /\ (2 * j - 1) % 2 = 1
  OBVIOUS
<1>5. QED
  BY <1>2, <1>3, <1>4, DeLineas

LEMMA CompasEnviarBien ==
  ASSUME Base, EnviarBien,
         NEW c \in Clientes, c = atiende, Encuadre(c), Compas(c), TablaOK
  PROVE  Compas(c)'
<1>1. /\ UNCHANGED <<estado, orden, enviadas, porRecibir, abierta, atiende, leidas, silencios,
                    desajustes, vistos>>
      /\ paso = "enviar" /\ comando = "listar" /\ paso' = "orden" /\ Contesta(LineasDe(vistos[c]))
  BY DEF EnviarBien, Listar
<1>2. PICK t : t = LineasDe(vistos[c])
  OBVIOUS
<1>3. /\ t \in Seq(Respuestas) /\ Len(t) = 2 * vistos[c]
      /\ \A k \in 1 .. Len(t) : t[k].orden = leidas
      /\ \A j \in 1 .. vistos[c] : t[2 * j - 1].valor = "len"
  BY <1>2, LasLineas DEF Base, TablaOK
<1>4. SUFFICES ASSUME ~ Descolocado(c), estado[c] # "fin"
               PROVE  Etiquetas(c)' /\ Forma(c)' /\ Turno(c)'
  BY <1>1 DEF Compas, Descolocado
<1>5. /\ Etiquetas(c) /\ Forma(c) /\ Turno(c) /\ leidas \in Nat /\ enviadas[c] \in Nat
      /\ Leidas(c) = leidas /\ vistos[c] \in Nat
  BY <1>4, CompasDe DEF TablaOK
<1>6. Enviando(c)'
  BY <1>1 DEF Enviando
<1>7. aCliente[c] = << >> => aCliente'[c] = t
  BY <1>1, <1>2, <1>3, <1>4, SoloEso DEF Base
<1>8. CASE /\ leidas = enviadas[c] /\ orden[c] = "listar" /\ estado[c] = "espera"
           /\ Len(aCliente[c]) = 1
           /\ aCliente[c][1].valor = "cantidad" /\ aCliente[c][1].cuantos = vistos[c]
  <2>1. aCliente'[c] = aCliente[c] \o t /\ aCliente[c] \in Seq(Respuestas)
    BY <1>1, <1>2, <1>3, <1>4, SeContesta DEF Base, ConversacionOK
  <2>2. /\ Len(aCliente'[c]) = 2 * vistos[c] + 1 /\ aCliente'[c][1] = aCliente[c][1]
        /\ \A k \in 2 .. 2 * vistos[c] + 1 : aCliente'[c][k] = t[k - 1]
    <3>1. \A u, v \in Seq(Respuestas) : Len(u) = 1 =>
            /\ Len(u \o v) = Len(v) + 1 /\ (u \o v)[1] = u[1]
            /\ \A k \in 2 .. Len(v) + 1 : (u \o v)[k] = v[k - 1]
      <4>1. ASSUME NEW u \in Seq(Respuestas), NEW v \in Seq(Respuestas), Len(u) = 1
            PROVE  /\ Len(u \o v) = Len(v) + 1 /\ (u \o v)[1] = u[1]
                   /\ \A k \in 2 .. Len(v) + 1 : (u \o v)[k] = v[k - 1]
        <5>1. Len(u \o v) = Len(u) + Len(v) /\ Len(v) \in Nat
          OBVIOUS
        <5>2. \A k \in 1 .. Len(u) + Len(v) :
                (u \o v)[k] = IF k <= Len(u) THEN u[k] ELSE v[k - Len(u)]
          OBVIOUS
        <5>3. \A k \in 2 .. Len(v) + 1 : k \in 1 .. 1 + Len(v) /\ ~ (k <= 1)
          BY <5>1
        <5>4. 1 \in 1 .. 1 + Len(v) /\ Len(u) + Len(v) = Len(v) + 1
          BY <4>1, <5>1
        <5>5. QED
          BY <4>1, <5>1, <5>2, <5>3, <5>4
      <4>2. QED
        BY <4>1
    <3>2. QED
      BY <1>3, <1>8, <2>1, <3>1
  <2>3. \A k \in 1 .. 2 * vistos[c] + 1 : k = 1 \/ (k \in 2 .. 2 * vistos[c] + 1 /\ k - 1 \in 1 .. 2 * vistos[c])
    BY <1>5
  <2>4. aCliente[c][1].orden = enviadas[c]
    BY <1>5, <1>8 DEF Etiquetas
  <2>5. \A k \in 1 .. 2 * vistos[c] + 1 : aCliente'[c][k].orden = enviadas[c]
    BY <1>3, <1>8, <2>2, <2>3, <2>4
  <2>6. Etiquetas(c)'
    BY <1>1, <2>2, <2>5 DEF Etiquetas
  <2>7. \A j \in 1 .. vistos[c] : 2 * j \in 2 .. 2 * vistos[c] + 1
    BY <1>5
  <2>8. \A j \in 1 .. vistos[c] : aCliente'[c][2 * j].valor = "len"
    BY <1>3, <2>2, <2>7
  <2>9. RespuestaDe("listar", aCliente'[c], vistos[c])
    BY <1>8, <2>2, <2>8 DEF RespuestaDe
  <2>10. Forma(c)'
    BY <1>1, <1>8, <2>9 DEF Forma
  <2>11. Servido(c)'
    <3>1. aCliente'[c] # << >>
      BY <1>5, <2>2
    <3>2. QED
      BY <1>1, <1>8, <2>2, <3>1 DEF Servido
  <2>12. QED
    BY <1>1, <1>5, <1>6, <1>8, <2>6, <2>10, <2>11, TurnoContestar
<1>9. CASE /\ leidas = enviadas[c] /\ estado[c] = "lista"
           /\ aCliente[c] = << >> /\ porRecibir[c] = vistos[c]
  <2>1. Etiquetas(c)'
    BY <1>1, <1>3, <1>7, <1>9 DEF Etiquetas
  <2>2. Forma(c)'
    BY <1>1, <1>3, <1>7, <1>9 DEF Forma
  <2>3. Servido(c)'
    BY <1>1, <1>3, <1>7, <1>9 DEF Servido
  <2>4. QED
    BY <1>1, <1>5, <1>6, <1>9, <2>1, <2>2, <2>3, TurnoContestar
<1>10. CASE /\ vistos[c] = 0 /\ aCliente[c] = << >>
            /\ estado[c] \in {"menu", "datos", "isbn", "espera"}
            /\ estado[c] # "menu" => leidas < enviadas[c]
  <2>1. aCliente'[c] = << >>
    BY <1>3, <1>7, <1>10
  <2>2. Etiquetas(c)' /\ Forma(c)' /\ (EnEspera(c) => EnEspera(c)')
    BY <1>1, <1>10, <2>1 DEF Etiquetas, Forma, EnEspera
  <2>3. Perdido(c) => Perdido(c)'
    BY <1>1 DEF Perdido
  <2>4. Leidas(c)' = leidas
    BY <1>1 DEF Leidas
  <2>5. AlDia(c)'
    <3>1. ~ Perdido(c)
      BY <1>1 DEF Perdido
    <3>2. QED
      BY <1>1, <1>5, <2>2, <2>4, <3>1 DEF Turno, AlDia
  <2>6. Leyendo(c)'
    BY <1>1 DEF Leyendo
  <2>7. leidas = enviadas[c] => estado[c] = "menu"
    BY <1>5, <1>10
  <2>8. Extraviado(c)' /\ Atendido(c)'
    BY <1>1, <2>4, <2>7 DEF Extraviado, Atendido, Servido
  <2>9. QED
    BY <1>6, <2>2, <2>5, <2>6, <2>8 DEF Turno
<1>11. QED
  BY <1>1, <1>5, <1>8, <1>9, <1>10 DEF Turno, Enviando

LEMMA CompasMenos ==
  ASSUME NEW p, NEW q, ListarOtras(p, q), NEW c \in Clientes, c = atiende
  PROVE  Compas(c)'
BY DEF ListarOtras, Compas, Descolocado

-----------------------------------------------------------------------------
(* The catalogue, and what a state says of the command *)

LEMMA EstadoOrdenCliente ==
  ASSUME Base, NEW d \in Clientes, PasoCliente(d) \/ Conectar(d), EstadoOrden(d)
  PROVE  EstadoOrden(d)'
<1>1. /\ estado \in [Clientes -> {"fuera", "menu", "datos", "isbn", "espera", "espera_id",
                                 "lista", "bytes", "fin"}]
      /\ orden \in [Clientes -> Ordenes \cup {"ninguna"}]
  BY DEF Base, ConversacionOK
<1>2. ASSUME NEW o \in Ordenes, Elegir(d, o)
      PROVE  EstadoOrden(d)'
  BY <1>1, <1>2 DEF Elegir, Pasa, EstadoOrden, Ordenes
<1>3. ASSUME NEW s, NEW k, EscribirISBN(d, s) \/ EscribirDatos(d, s, k) \/ EscribirId(d)
      PROVE  EstadoOrden(d)'
  BY <1>1, <1>3 DEF EscribirISBN, EscribirDatos, EscribirId, Pasa, EstadoOrden, Ordenes
<1>4. CASE RecibirRespuesta(d)
  <2>1. /\ orden' = orden
        /\ estado'[d] = "menu" \/ (estado'[d] = "espera_id" /\ orden[d] = "login")
    BY <1>1, <1>4 DEF RecibirRespuesta, Pasa
  <2>2. QED
    BY <2>1 DEF EstadoOrden
<1>5. CASE RecibirId(d) \/ RecibirCantidad(d) \/ RecibirBytes(d) \/ Cachear(d)
  BY <1>1, <1>5 DEF RecibirId, RecibirCantidad, RecibirBytes, Cachear, Pasa, EstadoOrden
<1>6. CASE RecibirLibro(d)
  <2>1. orden' = orden /\ estado[d] = "lista" /\ estado'[d] \in {"lista", "bytes"}
    BY <1>1, <1>6 DEF RecibirLibro, Pasa
  <2>2. QED
    BY <2>1 DEF EstadoOrden
<1>7. CASE Salir(d) \/ CaidaCliente(d) \/ Conectar(d)
  BY <1>1, <1>7 DEF Salir, CaidaCliente, Conectar, Pasa, EstadoOrden
<1>8. QED
  BY <1>2, <1>3, <1>4, <1>5, <1>6, <1>7 DEF PasoCliente

LEMMA CatalogoCliente ==
  ASSUME Base, NEW d \in Clientes, PasoCliente(d) \/ Conectar(d),
         EstadoOrden(d), Compas(d), Catalogo(d), TablaOK
  PROVE  Catalogo(d)'
<1>1. /\ UNCHANGED <<desajustes, cortadas, vistos>>
      /\ \A c \in Clientes : abierta[c] => abierta'[c]
      /\ estado[d] # "fin"
  BY SoloDeCliente DEF Conectar, historia, listado, DeCliente, Base, ConversacionOK
<1>2. SUFFICES ASSUME estado'[d] # "fin", d \notin desajustes, d \notin cortadas
               PROVE  Catalogo(d)'
  BY <1>1 DEF Catalogo
<1>3. /\ estado \in [Clientes -> {"fuera", "menu", "datos", "isbn", "espera", "espera_id",
                                 "lista", "bytes", "fin"}]
      /\ orden \in [Clientes -> Ordenes \cup {"ninguna"}]
      /\ porRecibir \in [Clientes -> Nat] /\ cache \in [Clientes -> Nat]
      /\ cacheado \in [Clientes -> BOOLEAN] /\ aCliente \in [Clientes -> Seq(Respuestas)]
      /\ vistos[d] \in Nat
  BY DEF TablaOK, Base, ConversacionOK
<1>4. /\ cacheado[d] => /\ cache[d] = vistos[d]
                        /\ estado[d] \notin {"lista", "bytes"}
                        /\ estado[d] = "espera" => orden[d] # "listar"
      /\ ~ cacheado[d] /\ estado[d] \notin {"lista", "bytes"} => cache[d] = 0
      /\ estado[d] \in {"lista", "bytes"} =>
           \/ cache[d] + porRecibir[d] = vistos[d]
           \/ estado[d] = "lista" /\ porRecibir[d] > 0 /\ aCliente[d] = << >>
  BY <1>1, <1>2 DEF Catalogo
<1>5. estado[d] \notin {"fuera", "fin"} => abierta[d] /\ Forma(d)
  BY <1>2 DEF Base, Conexiones, Compas, Descolocado
<1>6. ASSUME NEW o \in Ordenes, Elegir(d, o)
      PROVE  Catalogo(d)'
  <2>1. /\ estado'[d] \in {"espera", "datos"} /\ orden'[d] = o /\ estado[d] = "menu"
        /\ o = "listar" => ~ cacheado[d]
        /\ UNCHANGED <<cache, cacheado>>
    BY <1>3, <1>6 DEF Elegir, Pasa
  <2>2. QED
    BY <1>1, <1>4, <2>1 DEF Catalogo
<1>7. ASSUME NEW s, NEW k, EscribirISBN(d, s) \/ EscribirDatos(d, s, k) \/ EscribirId(d)
      PROVE  Catalogo(d)'
  <2>1. /\ estado'[d] \in {"espera", "isbn"} /\ orden'[d] = orden[d] /\ estado[d] \in {"datos", "isbn"}
        /\ orden[d] # "listar"
        /\ UNCHANGED <<cache, cacheado>>
    BY <1>3, <1>7 DEF EscribirISBN, EscribirDatos, EscribirId, Pasa, EstadoOrden, ConDatos, ConISBN
  <2>2. QED
    BY <1>1, <1>4, <2>1 DEF Catalogo
<1>8. CASE RecibirRespuesta(d) \/ RecibirId(d)
  <2>1. /\ estado'[d] \in {"menu", "espera_id"} /\ estado[d] \in {"espera", "espera_id"}
        /\ UNCHANGED <<cache, cacheado>>
    BY <1>3, <1>8 DEF RecibirRespuesta, RecibirId, Pasa
  <2>2. QED
    BY <1>1, <1>4, <2>1 DEF Catalogo
<1>9. CASE RecibirCantidad(d)
  <2>1. /\ estado[d] = "espera" /\ orden[d] = "listar" /\ estado'[d] = "lista"
        /\ UNCHANGED <<cache, cacheado>>
    BY <1>3, <1>9 DEF RecibirCantidad, Pasa
  <2>2. abierta[d] /\ RespuestaDe("listar", aCliente[d], vistos[d]) /\ aCliente[d] # << >>
    BY <1>5, <1>9, <2>1 DEF RecibirCantidad, Rota, Forma
  <2>3. /\ Head(aCliente[d]) = aCliente[d][1] /\ Head(aCliente[d]) \in Respuestas
        /\ Len(aCliente[d]) = 1 => Tail(aCliente[d]) = << >>
    BY <1>3, <2>2, LaCola
  <2>4. porRecibir'[d] = aCliente[d][1].cuantos /\ aCliente'[d] = Tail(aCliente[d])
    <3>1. aCliente[d][1].cuantos \in Nat
      BY <2>3 DEF Respuestas
    <3>2. QED
      BY <1>3, <1>9, <2>2, <2>3, <3>1 DEF RecibirCantidad, Rota
  <2>5. \/ porRecibir'[d] = vistos[d]
        \/ porRecibir'[d] > 0 /\ aCliente'[d] = << >>
    BY <2>2, <2>3, <2>4 DEF RespuestaDe, ConDatos, ConISBN
  <2>6. ~ cacheado[d] /\ cache[d] = 0
    BY <1>3, <1>4, <2>1
  <2>7. cache'[d] + porRecibir'[d] = vistos[d] \/ (porRecibir'[d] > 0 /\ aCliente'[d] = << >>)
    BY <1>3, <2>1, <2>5, <2>6
  <2>8. QED
    BY <1>1, <2>1, <2>6, <2>7 DEF Catalogo
<1>10. CASE RecibirLibro(d)
  <2>1. /\ estado[d] = "lista" /\ estado'[d] \in {"lista", "bytes"} /\ cacheado' = cacheado
        /\ aCliente[d] # << >>
        /\ \/ /\ cache'[d] = cache[d] + 1 /\ porRecibir'[d] = porRecibir[d] - 1
           \/ /\ cache'[d] = cache[d] /\ porRecibir'[d] = porRecibir[d]
    <3>1. abierta[d]
      BY <1>5, <1>10 DEF RecibirLibro
    <3>2. Len(aCliente[d]) >= 2 => aCliente[d] # << >>
      BY <1>3
    <3>3. QED
      BY <1>3, <1>10, <3>1, <3>2 DEF RecibirLibro, Rota, Pasa
  <2>2. cache[d] + porRecibir[d] = vistos[d] /\ ~ cacheado[d]
    BY <1>4, <2>1
  <2>3. cache'[d] + porRecibir'[d] = vistos[d]
    BY <1>3, <2>1, <2>2
  <2>4. QED
    BY <1>1, <2>1, <2>2, <2>3 DEF Catalogo
<1>11. CASE RecibirBytes(d)
  <2>1. abierta[d]
    BY <1>5, <1>11 DEF RecibirBytes
  <2>2. QED
    BY <1>11, <2>1 DEF RecibirBytes, Rota
<1>12. CASE Cachear(d)
  <2>1. /\ estado[d] = "lista" /\ estado'[d] = "menu" /\ porRecibir[d] = 0
        /\ cacheado'[d] = TRUE /\ cache' = cache
    BY <1>3, <1>12 DEF Cachear, Pasa
  <2>2. cache[d] = vistos[d]
    BY <1>3, <1>4, <2>1
  <2>3. QED
    BY <1>1, <2>1, <2>2 DEF Catalogo
<1>13. CASE Salir(d) \/ CaidaCliente(d)
  <2>1. estado'[d] = "fin" /\ UNCHANGED <<cache, cacheado>>
    BY <1>3, <1>13 DEF Salir, CaidaCliente, Pasa
  <2>2. QED
    BY <1>1, <1>4, <2>1 DEF Catalogo
<1>14. CASE Conectar(d)
  <2>1. estado[d] = "fuera" /\ estado'[d] \in {"menu", "fin"} /\ UNCHANGED <<cache, cacheado>>
    BY <1>3, <1>14 DEF Conectar, Pasa
  <2>2. QED
    BY <1>1, <1>4, <2>1 DEF Catalogo
<1>15. QED
  BY <1>6, <1>7, <1>8, <1>9, <1>10, <1>11, <1>12, <1>13, <1>14 DEF PasoCliente

\* A count comes to a client that waits for it, and lines to one that waits for all of them.
LEMMA CatalogoServidor ==
  ASSUME Base, TablaOK, PasoDeServidor,
         NEW c \in Clientes, c = atiende, Encuadre(c), Compas(c), Catalogo(c)
  PROVE  Catalogo(c)'
<1>1. /\ UNCHANGED <<estado, orden, porRecibir, cache, cacheado, cortadas>>
      /\ desajustes \subseteq desajustes'
  BY BaseServidor DEF DelServidor, cliente, PasoDeServidor, LeerUna, LeerId, LeerCadena, Terminar,
     ListarMal, ContarBien, EnviarBien, ListarOtras, Listar, historia
<1>2. SUFFICES ASSUME estado[c] # "fin", c \notin desajustes, c \notin cortadas, c \notin desajustes'
               PROVE  Catalogo(c)'
  BY <1>1 DEF Catalogo
<1>3. ~ Descolocado(c)
  BY <1>2 DEF Descolocado
<1>4. Turno(c)
  BY <1>2, <1>3, CompasDe
<1>5. CASE ContarBien
  <2>1. paso = "contar"
    BY <1>5 DEF ContarBien, Listar
  <2>2. estado[c] = "espera" /\ orden[c] = "listar"
    <3>1. comando = "listar"
      BY <1>5 DEF ContarBien, Listar
    <3>2. QED
      BY <1>2, <1>3, <2>1, <3>1, TodoLeido
  <2>3. ~ cacheado[c] /\ cache[c] = 0
    BY <1>2, <2>2 DEF Catalogo, Base, ConversacionOK
  <2>4. QED
    BY <1>1, <2>2, <2>3 DEF Catalogo
<1>6. ASSUME ~ ContarBien
      PROVE  Catalogo(c)'
  <2>1. vistos' = vistos
    BY <1>2, <1>6 DEF PasoDeServidor, LeerUna, LeerId, LeerCadena, Terminar, ListarMal, EnviarBien,
       ListarOtras, historia, listado
  <2>2. SUFFICES ASSUME estado[c] = "lista", aCliente[c] = << >>, aCliente'[c] # << >>
                 PROVE  cache[c] + porRecibir[c] = vistos[c]
    BY <1>1, <1>2, <2>1 DEF Catalogo
  <2>3. ~ EnEspera(c)
    BY <2>2 DEF EnEspera
  <2>4. paso = "enviar"
    <3>1. paso \notin {"id", "cadenas", "contar"}
      BY <1>4, <2>3 DEF Turno, Leyendo
    <3>2. ~ LeerUna
      BY <2>2 DEF LeerUna
    <3>3. QED
      BY <1>6, <3>1, <3>2 DEF PasoDeServidor, LeerId, LeerCadena, Terminar, ListarMal, EnviarBien,
         ListarOtras, Listar
  <2>5. porRecibir[c] = vistos[c] /\ cache[c] = 0 /\ vistos[c] \in Nat
    BY <1>4, <2>2, <2>4 DEF Turno, Enviando, TablaOK
  <2>6. QED
    BY <2>5
<1>7. QED
  BY <1>5, <1>6

-----------------------------------------------------------------------------
(* The beginning and the end of a session *)

LEMMA AceptarDeCadaUno ==
  ASSUME Base, Aceptar, NEW c \in Clientes, DeCadaUno(c)
  PROVE  DeCadaUno(c)'
<1>1. /\ paso = "accept" /\ atiende = Nadie /\ atiende' \in Clientes /\ paso' = "orden" /\ leidas' = 0
      /\ UNCHANGED <<estado, orden, enviadas, porRecibir, cache, cacheado, aServidor, aCliente,
                     abierta, comando, faltan, mal, silencios, desajustes, largas, cortadas,
                     vistos>>
  <2>1. atiende' = Head(cola) /\ cola # << >> /\ cola \in Seq(Clientes)
    BY DEF Aceptar, Base, ConversacionOK
  <2>2. atiende' \in Clientes
    BY <2>1
  <2>3. QED
    BY <2>2 DEF Aceptar, cliente, conexion, historia, listado, Base, ConversacionOK
<1>2. CASE atiende' # c
  <2>1. atiende # c
    BY <1>1, ConstantesOK
  <2>2. QED
    BY <1>1, <1>2, <2>1, Ajeno DEF Igual
<1>3. CASE atiende' = c
  <2>1. atiende # c
    BY <1>1, ConstantesOK
  <2>2. /\ EnServidor(c)' = EnServidor(c) /\ Leidas(c)' = 0 /\ Leidas(c) = 0
        /\ EnServidor(c).toca = "len" /\ EnServidor(c) \in Marcas
    BY <1>1, <1>3, <2>1, MarcaEnServidor DEF EnServidor, Leidas, Marca
  <2>3. ~ Perdido(c)
    BY <2>1 DEF Perdido
  <2>4. EstadoOrden(c)' /\ Catalogo(c)'
    BY <1>1 DEF DeCadaUno, EstadoOrden, Catalogo
  <2>5. \A m : Final(c, m) => Final(c, m)'
    BY <1>1 DEF Final, EnCliente, Descolocado
  <2>6. Encuadre(c)'
    BY <1>1, <2>2, <2>3, <2>5 DEF DeCadaUno, Encuadre
  <2>7. SUFFICES ASSUME ~ Descolocado(c), estado[c] \notin {"fin", "fuera"}
                 PROVE  Etiquetas(c)' /\ Forma(c)' /\ (abierta[c] => Turno(c)')
    BY <1>1, <2>4, <2>6 DEF DeCadaUno, Compas, Descolocado
  <2>8. Etiquetas(c)' /\ Forma(c)'
    BY <1>1, <2>7 DEF DeCadaUno, Compas, Etiquetas, Forma
  <2>9. ASSUME abierta[c]
        PROVE  Turno(c)'
    <3>1. Turno(c)
      BY <2>7, <2>9 DEF DeCadaUno, Compas
    <3>2. ~ Perdido(c)'
      <4>1. SUFFICES ASSUME aServidor[c] # << >>
                     PROVE  Head(aServidor[c]) # "texto"
        BY <1>1 DEF Perdido
      <4>2. PICK n \in Marcas : Lectura(EnServidor(c), Head(aServidor[c]), n)
        BY <2>3, <2>9, <4>1, Cabeza DEF DeCadaUno
      <4>3. QED
        BY <2>2, <4>2 DEF Lectura, ConDatos, ConISBN
    <3>3. AlDia(c)'
      BY <1>1, <2>2, <2>3, <3>1 DEF Turno, AlDia, EnEspera
    <3>4. Leyendo(c)' /\ Enviando(c)' /\ Extraviado(c)'
      BY <1>1, <3>2 DEF Leyendo, Enviando, Extraviado
    <3>5. Atendido(c)'
      BY <1>1, <2>1, <2>2, <3>1 DEF Turno, Atendido, Servido
    <3>6. QED
      BY <3>3, <3>4, <3>5 DEF Turno
  <2>10. QED
    BY <2>8, <2>9
<1>4. QED
  BY <1>2, <1>3

\* A connection that breaks leaves nothing to keep in step with.
LEMMA CorteDeCadaUno ==
  ASSUME Base, NEW c \in Clientes, DeCadaUno(c),
         UNCHANGED <<estado, orden, enviadas, porRecibir, cache, cacheado, aCliente, silencios,
                     desajustes, vistos>>,
         ~ abierta'[c], cortadas \subseteq cortadas'
  PROVE  DeCadaUno(c)'
<1>1. EstadoOrden(c)' /\ Catalogo(c)'
  BY DEF DeCadaUno, EstadoOrden, Catalogo
<1>2. Encuadre(c)'
  BY DEF Encuadre
<1>3. Compas(c)'
  <2>1. (Etiquetas(c) => Etiquetas(c)') /\ (Forma(c) => Forma(c)')
    BY DEF Etiquetas, Forma
  <2>2. QED
    BY <2>1 DEF DeCadaUno, Compas, Descolocado
<1>4. QED
  BY <1>1, <1>2, <1>3 DEF DeCadaUno

LEMMA DespedirDeCadaUno ==
  ASSUME Base, Despedir, NEW c \in Clientes, DeCadaUno(c)
  PROVE  DeCadaUno(c)'
<1>1. /\ UNCHANGED <<estado, orden, enviadas, porRecibir, cache, cacheado, aCliente, silencios,
                    desajustes, largas, vistos>>
      /\ atiende' = Nadie /\ cortadas' = cortadas \cup {atiende} /\ atiende \in Clientes
      /\ abierta' = [abierta EXCEPT ![atiende] = FALSE]
      /\ aServidor' = [aServidor EXCEPT ![atiende] = << >>]
      /\ abierta \in [Clientes -> BOOLEAN] /\ aServidor \in [Clientes -> Seq(Enviables)]
  BY DEF Despedir, Base, ConversacionOK
<1>2. CASE c = atiende
  BY <1>1, <1>2, CorteDeCadaUno
<1>3. CASE c # atiende
  <2>1. atiende' # c
    BY <1>1, ConstantesOK
  <2>2. aServidor'[c] = aServidor[c] /\ abierta'[c] = abierta[c]
    BY <1>1, <1>3
  <2>3. QED
    BY <1>1, <1>3, <2>1, <2>2, Ajeno DEF Igual
<1>4. QED
  BY <1>2, <1>3

LEMMA CaidaDeCadaUno ==
  ASSUME Base, CaidaServidor, NEW c \in Clientes, DeCadaUno(c)
  PROVE  DeCadaUno(c)'
BY CorteDeCadaUno DEF CaidaServidor, cliente, listado

LEMMA ServidorDeCadaUno ==
  ASSUME Base, TablaOK, PasoDeServidor, NEW c \in Clientes, DeCadaUno(c)
  PROVE  DeCadaUno(c)'
<1>1. DelServidor /\ atiende' = atiende /\ cortadas' = cortadas
  BY BaseServidor DEF PasoDeServidor, LeerUna, LeerId, LeerCadena, Terminar, ListarMal, ContarBien,
     EnviarBien, ListarOtras, Listar, historia, listado
<1>2. CASE c # atiende
  BY <1>1, <1>2, Ajeno DEF DelServidor, Igual, cliente
<1>3. CASE c = atiende
  <2>1. Encuadre(c) /\ Compas(c) /\ Catalogo(c)
    BY DEF DeCadaUno
  <2>2. EstadoOrden(c)' /\ Catalogo(c)'
    BY <1>1, <1>3, <2>1, CatalogoServidor DEF DelServidor, cliente, DeCadaUno, EstadoOrden
  <2>3. Encuadre(c)'
    <3>1. CASE LeerUna \/ LeerId \/ LeerCadena
      BY <1>3, <2>1, <3>1, EncuadreLeerUna, EncuadreLeerId, EncuadreLeerCadena
    <3>2. CASE ~ (LeerUna \/ LeerId \/ LeerCadena)
      <4>1. /\ UNCHANGED <<estado, orden, enviadas, aServidor, abierta, atiende, comando, leidas,
                           faltan, largas>>
            /\ paso = "cadenas" => faltan = 0 /\ paso' = "orden"
            /\ paso \in {"cadenas", "contar", "enviar"} /\ paso' \in {"enviar", "orden"}
        BY <3>2 DEF PasoDeServidor, Terminar, ListarMal, ContarBien,
           EnviarBien, ListarOtras, Listar
      <4>2. silencios \subseteq silencios' /\ desajustes \subseteq desajustes'
        BY <1>1 DEF DelServidor
      <4>3. QED
        BY <1>3, <2>1, <4>1, <4>2, EncuadreContestar
    <3>3. QED
      BY <3>1, <3>2
  <2>4. Compas(c)'
    BY <1>3, <2>1, CompasLeerUna, CompasLeer, CompasTerminar, CompasListarMal, CompasContarBien,
       CompasEnviarBien, CompasMenos DEF PasoDeServidor
  <2>5. QED
    BY <2>2, <2>3, <2>4 DEF DeCadaUno
<1>4. QED
  BY <1>2, <1>3

LEMMA ClienteDeCadaUno ==
  ASSUME Base, TablaOK, NEW d \in Clientes, PasoCliente(d) \/ Conectar(d),
         NEW c \in Clientes, DeCadaUno(c), DeCadaUno(d)
  PROVE  DeCadaUno(c)'
<1>1. CASE c = d
  BY <1>1, EstadoOrdenCliente, CatalogoCliente, EncuadreCliente, EncuadreConectar, CompasCliente,
     CompasConectar DEF DeCadaUno
<1>2. CASE c # d
  <2>1. CASE PasoCliente(d)
    <3>1. DeCliente(d)
      BY <2>1, SoloDeCliente DEF Base
    <3>2. Igual(c) /\ UNCHANGED <<atiende, paso, comando, leidas, faltan>>
      BY <1>2, <3>1 DEF DeCliente, Igual, servidor
    <3>3. QED
      BY <3>2, Ajeno
  <2>2. CASE Conectar(d)
    <3>1. Igual(c) /\ UNCHANGED <<atiende, paso, comando, leidas, faltan>>
      BY <1>2, <2>2 DEF Conectar, Pasa, Igual, historia, listado, Base, ConversacionOK
    <3>2. QED
      BY <3>1, Ajeno
  <2>3. QED
    BY <2>1, <2>2
<1>3. QED
  BY <1>1, <1>2

LEMMA ConsolaDeCadaUno ==
  ASSUME Consola, NEW c \in Clientes, DeCadaUno(c)
  PROVE  DeCadaUno(c)'
<1>1. UNCHANGED <<cliente, conexion, servidor, historia>>
  BY DEF Consola, Arrancar, Importar, PerderLineas, Fuera
<1>2. Igual(c) /\ UNCHANGED <<atiende, paso, comando, leidas, faltan>>
  BY <1>1 DEF cliente, conexion, servidor, historia, listado, Igual
<1>3. QED
  BY <1>2, Ajeno

-----------------------------------------------------------------------------
(* The table that is listed *)

\* Only a count and the consoles have to do with it.
LEMMA QueTocaLaTabla ==
  ASSUME [Next]_vars
  PROVE  UNCHANGED <<tabla, listado>> \/ Contar \/ Consola
<1>1. CASE UNCHANGED vars
  BY <1>1 DEF vars, historia
<1>2. ASSUME NEW c \in Clientes, Recibe(c) \/ Teclea(c) \/ CaidaCliente(c)
      PROVE  UNCHANGED <<tabla, listado>>
  <2>1. CASE Recibe(c)
    BY <2>1 DEF Recibe, RecibirRespuesta, RecibirId, RecibirCantidad, RecibirLibro, RecibirBytes,
       Cachear, historia
  <2>2. CASE Teclea(c)
    BY <2>2 DEF Teclea, Conectar, EscribirId, Salir, Elegir, EscribirISBN, EscribirDatos, historia
  <2>3. CASE CaidaCliente(c)
    BY <2>3 DEF CaidaCliente, historia
  <2>4. QED
    BY <1>2, <2>1, <2>2, <2>3
<1>3. CASE PasoServidor /\ ~ Contar
  BY <1>3 DEF PasoServidor, Aceptar, LeerOrden, LeerId, LeerCadena, ContestarLogin,
     ContestarRegistrar, ContestarISBN, EnviarLineas, historia
<1>4. CASE CaidaServidor
  BY <1>4 DEF CaidaServidor
<1>5. QED
  BY <1>1, <1>2, <1>3, <1>4 DEF Next

LEMMA LaTablaCuenta ==
  ASSUME TablaOK, TablaEntera, Contar, atiende \in Clientes
  PROVE  TablaOK' /\ TablaEntera'
<1>1. UNCHANGED tabla
  BY DEF Contar
<1>2. \/ UNCHANGED listado
      \/ /\ vistos' = [vistos EXCEPT ![atiende] = libros]
         /\ aMedias' = aMedias \cup {c \in {atiende} : roto \/ porImportar > 0}
  BY DEF Contar
<1>3. CASE UNCHANGED listado
  BY <1>1, <1>3 DEF tabla, listado, TablaOK, TablaEntera
<1>4. CASE /\ vistos' = [vistos EXCEPT ![atiende] = libros]
           /\ aMedias' = aMedias \cup {c \in {atiende} : roto \/ porImportar > 0}
  <2>1. /\ vistos' \in [Clientes -> Nat] /\ aMedias' \subseteq Clientes /\ aMedias \subseteq aMedias'
        /\ vistos'[atiende] = libros
        /\ \A c \in Clientes \ {atiende} : vistos'[c] = vistos[c]
    BY <1>4 DEF TablaOK
  <2>2. TablaOK'
    BY <1>1, <2>1 DEF tabla, TablaOK
  <2>3. libros >= Libros \/ atiende \in aMedias'
    <3>1. libros \in Nat /\ porImportar \in Nat /\ Libros \in Nat
      BY ConstantesOK DEF TablaOK
    <3>2. ~ roto => libros + porImportar >= Libros
      BY DEF TablaEntera
    <3>3. atiende \notin aMedias' => ~ roto /\ ~ (porImportar > 0)
      BY <1>4
    <3>4. QED
      BY <3>1, <3>2, <3>3
  <2>4. TablaEntera'
    <3>1. (~ roto => libros + porImportar >= Libros)'
      BY <1>1 DEF tabla, TablaEntera
    <3>2. \A c \in Clientes : vistos'[c] >= Libros \/ c \in aMedias'
      BY <2>1, <2>3 DEF TablaEntera
    <3>3. QED
      BY <3>1, <3>2 DEF TablaEntera
  <2>5. QED
    BY <2>2, <2>4
<1>5. QED
  BY <1>2, <1>3, <1>4

LEMMA LaTablaImporta ==
  ASSUME TablaOK, TablaEntera, Consola
  PROVE  TablaOK' /\ TablaEntera'
<1>1. /\ libros \in Nat /\ porImportar \in Nat /\ roto \in BOOLEAN /\ arranques \in 0 .. MaxArranques
      /\ Libros \in Nat /\ MaxArranques \in Nat
      /\ ~ roto => libros + porImportar >= Libros
  BY ConstantesOK DEF TablaOK, TablaEntera
<1>2. UNCHANGED <<vistos, aMedias>>
  BY DEF Consola, Arrancar, Importar, PerderLineas, Fuera, historia, listado
<1>3. SUFFICES /\ libros' \in Nat /\ porImportar' \in Nat /\ roto' \in BOOLEAN
               /\ arranques' \in 0 .. MaxArranques
               /\ ~ roto' => libros' + porImportar' >= Libros
  BY <1>2 DEF TablaOK, TablaEntera
<1>4. CASE Arrancar
  <2>1. arranques' \in 0 .. MaxArranques
    BY <1>1, <1>4 DEF Arrancar
  <2>2. CASE libros' = 0 /\ porImportar' = Libros /\ roto' = FALSE
    <3>1. 0 \in Nat /\ 0 + Libros >= Libros
      BY <1>1
    <3>2. libros' + porImportar' = 0 + Libros
      BY <2>2
    <3>3. QED
      BY <1>1, <2>1, <2>2, <3>1, <3>2
  <2>3. CASE porImportar' = porImportar + Libros /\ UNCHANGED <<libros, roto>>
    <3>1. /\ porImportar + Libros \in Nat
          /\ libros + porImportar >= Libros => libros + (porImportar + Libros) >= Libros
      BY <1>1
    <3>2. QED
      BY <1>1, <2>1, <2>3, <3>1
  <2>4. QED
    BY <1>4, <2>2, <2>3 DEF Arrancar
<1>5. CASE Importar
  BY <1>1, <1>5 DEF Importar
<1>6. CASE PerderLineas
  BY <1>1, <1>6 DEF PerderLineas
<1>7. QED
  BY <1>4, <1>5, <1>6 DEF Consola

LEMMA LaTablaSigue ==
  ASSUME Base, TablaOK, TablaEntera, [Next]_vars
  PROVE  TablaOK' /\ TablaEntera'
<1>1. CASE UNCHANGED <<tabla, listado>>
  BY <1>1 DEF tabla, listado, TablaOK, TablaEntera
<1>2. CASE Contar
  <2>1. atiende \in Clientes
    BY <1>2 DEF Contar, Base, ConversacionOK
  <2>2. QED
    BY <1>2, <2>1, LaTablaCuenta
<1>3. CASE Consola
  BY <1>3, LaTablaImporta
<1>4. QED
  BY <1>1, <1>2, <1>3, QueTocaLaTabla

-----------------------------------------------------------------------------
(* The invariant holds *)

LEMMA InvInicial ==
  ASSUME Init
  PROVE  Inv
<1>1. Base
  BY BaseInicial
<1>2. TablaOK /\ TablaEntera
  <2>1. /\ libros = Libros /\ porImportar = 0 /\ roto = FALSE /\ arranques = 0
        /\ vistos = [c \in Clientes |-> Libros] /\ aMedias = {}
        /\ Libros \in Nat /\ MaxArranques \in Nat
    BY ConstantesOK DEF Init
  <2>2. 0 \in 0 .. MaxArranques /\ 0 \in Nat /\ Libros + 0 >= Libros /\ Libros >= Libros
    BY <2>1
  <2>3. QED
    BY <2>1, <2>2 DEF TablaOK, TablaEntera
<1>3. ASSUME NEW c \in Clientes
      PROVE  EstadoOrden(c) /\ Encuadre(c) /\ Compas(c) /\ Catalogo(c)
  BY DEF Init, EstadoOrden, Encuadre, Compas, Catalogo
<1>4. QED
  BY <1>1, <1>2, <1>3 DEF Base, Inv

LEMMA InvSigue ==
  ASSUME Inv, [Next]_vars
  PROVE  Inv'
<1>1. Base /\ TablaOK /\ TablaEntera /\ \A c \in Clientes : DeCadaUno(c)
  BY DEF Inv, Base, DeCadaUno
<1>2. Base' /\ TablaOK' /\ TablaEntera'
  BY <1>1, BaseSigue, LaTablaSigue
<1>3. \A c \in Clientes : DeCadaUno(c)'
  <2>1. ASSUME NEW d \in Clientes, Conectar(d) \/ PasoCliente(d)
        PROVE  \A c \in Clientes : DeCadaUno(c)'
    BY <1>1, <2>1, ClienteDeCadaUno
  <2>2. CASE PasoDeServidor
    BY <1>1, <2>2, ServidorDeCadaUno
  <2>3. CASE Aceptar
    BY <1>1, <2>3, AceptarDeCadaUno
  <2>4. CASE Despedir
    BY <1>1, <2>4, DespedirDeCadaUno
  <2>5. CASE CaidaServidor
    BY <1>1, <2>5, CaidaDeCadaUno
  <2>6. CASE Consola
    BY <1>1, <2>6, ConsolaDeCadaUno
  <2>7. CASE UNCHANGED vars
    <3>1. ASSUME NEW c \in Clientes
          PROVE  DeCadaUno(c)'
      <4>1. Igual(c) /\ UNCHANGED <<atiende, paso, comando, leidas, faltan>>
        BY <2>7 DEF vars, cliente, conexion, servidor, historia, listado, cotas, Igual
      <4>2. QED
        BY <1>1, <4>1, Ajeno
    <3>2. QED
      BY <3>1
  <2>8. QED
    BY <1>1, <2>1, <2>2, <2>3, <2>4, <2>5, <2>6, <2>7, Pasos
<1>4. QED
  BY <1>2, <1>3 DEF Inv, Base, DeCadaUno

LEMMA InvSiempre == Spec => []Inv
BY InvInicial, InvSigue, PTL DEF Spec

(***************************************************************************)
(* The shape of the variables, for any number of clients and books.        *)
(***************************************************************************)
THEOREM Tipos == Spec => []TypeOK
<1>1. Inv => TypeOK
  BY DEF Inv, TypeOK
<1>2. QED
  BY <1>1, InvSiempre, PTL

(***************************************************************************)
(* Framing.  Where LeerOrden looks for a command there is a command,       *)
(* whatever the client typed and the server could not read: what is left   *)
(* in the stream takes the server to where the client is.                  *)
(***************************************************************************)
THEOREM LaOrdenDondeToca == Spec => []Alineado
<1>1. Inv => Alineado
  <2>1. SUFFICES ASSUME Inv, paso = "orden", aServidor[atiende] # << >>, atiende \notin largas
                 PROVE  Lee \in Ordenes
    BY DEF Alineado
  <2>2. Base /\ atiende \in Clientes /\ aServidor[atiende] \in Seq(Enviables)
    BY <2>1 DEF Inv, Base, ConversacionOK
  <2>3. abierta[atiende] /\ Encuadre(atiende)
    BY <2>1, <2>2, ConstantesOK DEF Inv, Conexiones
  <2>4. ~ Perdido(atiende)
    BY <2>1 DEF Perdido
  <2>5. PICK n \in Marcas : Lectura(EnServidor(atiende), Head(aServidor[atiende]), n)
    BY <2>1, <2>2, <2>3, <2>4, Cabeza
  <2>6. EnServidor(atiende).toca = "len" /\ EnServidor(atiende).textos = 0
    BY <2>1 DEF EnServidor, Marca
  <2>7. QED
    BY <2>5, <2>6 DEF Lectura, Lee, Ordenes
<1>2. QED
  BY <1>1, InvSiempre, PTL

(***************************************************************************)
(* The server waits for a command and the client for an answer only after  *)
(* one of the branches of servidor.c that leave it without one: otherwise  *)
(* nothing in the stream means that every command was read, and what was   *)
(* answered is on its way or was all that the client expected.             *)
(***************************************************************************)
THEOREM AbrazoExplicado == Spec => []BloqueoExplicado
<1>1. Inv => BloqueoExplicado
  <2>1. SUFFICES ASSUME Inv, NEW c \in Clientes, Bloqueado(c), c \notin silencios \cup desajustes
                 PROVE  FALSE
    BY DEF BloqueoExplicado
  <2>2. /\ atiende = c /\ paso = "orden" /\ aServidor[c] = << >> /\ aCliente[c] = << >>
        /\ \/ estado[c] \in {"espera", "espera_id", "bytes"}
           \/ estado[c] = "lista" /\ porRecibir[c] > 0
    BY <2>1 DEF Bloqueado
  <2>3. Base /\ Encuadre(c) /\ Compas(c) /\ porRecibir[c] \in Nat
    BY <2>1 DEF Inv, Base, ConversacionOK
  <2>4. ~ Descolocado(c) /\ estado[c] # "fin"
    BY <2>1, <2>2 DEF Descolocado
  <2>5. Turno(c) /\ abierta[c]
    BY <2>2, <2>3, <2>4, CompasDe
  <2>6. PICK m \in Marcas : Final(c, m) /\ Recorrido(aServidor[c], EnServidor(c), m)
    BY <2>2, <2>3, <2>4, <2>5 DEF Encuadre, Perdido
  <2>7. m = EnServidor(c)
    BY <2>2, <2>6, RecorridoDeNada
  <2>8. m = EnCliente(c)
    BY <2>3, <2>4, <2>6, <2>7, MarcaEnServidor DEF Final
  <2>9. Leidas(c) = enviadas[c]
    BY <2>3, <2>7, <2>8, MarcaEnServidor, MarcaEnCliente DEF Base
  <2>10. Servido(c)
    BY <2>1, <2>2, <2>5, <2>9 DEF Turno, Atendido
  <2>11. Len(aCliente[c]) = 0
    BY <2>2
  <2>12. \A k \in Nat : k > 0 => 0 # 2 * k
    OBVIOUS
  <2>13. QED
    BY <2>2, <2>3, <2>10, <2>11, <2>12 DEF Servido
<1>2. QED
  BY <1>1, InvSiempre, PTL

(***************************************************************************)
(* What Cachear keeps for the rest of the client's life is what LibrosBd   *)
(* held when its rows were counted, unless the two queries of a listing    *)
(* differed or the connection broke; and that was the whole catalogue      *)
(* unless a console was importing it, or an import had lost some of it.    *)
(***************************************************************************)
THEOREM LaCacheEsElCatalogo == Spec => []CacheFiel
<1>1. Inv => CacheFiel
  BY DEF Inv, CacheFiel, Catalogo, TablaEntera
<1>2. QED
  BY <1>1, InvSiempre, PTL

(***************************************************************************)
(* RecibirRespuesta, RecibirId, RecibirCantidad and RecibirLibro take for  *)
(* the answer of a command what the server sent for that command.          *)
(***************************************************************************)
THEOREM CadaRespuestaASuOrden == Spec => RespuestaPropia
<1> DEFINE Propia ==
      \A c \in Clientes :
        estado[c] \in {"espera", "espera_id", "lista"} /\ estado'[c] # "fin"
          /\ Len(aCliente'[c]) < Len(aCliente[c]) =>
            Head(aCliente[c]).orden = enviadas[c] \/ c \in desajustes
<1>1. ASSUME Inv, Inv'
      PROVE  Propia
  <2>1. SUFFICES ASSUME NEW c \in Clientes, estado[c] \in {"espera", "espera_id", "lista"},
                        Len(aCliente'[c]) < Len(aCliente[c]), c \notin desajustes
                 PROVE  Head(aCliente[c]).orden = enviadas[c]
    OBVIOUS
  <2>2. aCliente[c] \in Seq(Respuestas) /\ aCliente'[c] \in Seq(Respuestas)
    BY <1>1 DEF Inv, ConversacionOK
  <2>3. Etiquetas(c)
    BY <1>1, <2>1 DEF Inv, Compas, Descolocado
  <2>4. 1 \in 1 .. Len(aCliente[c]) /\ Head(aCliente[c]) = aCliente[c][1]
    BY <2>1, <2>2
  <2>5. QED
    BY <2>3, <2>4 DEF Etiquetas
<1>2. (Inv /\ Inv') => [Propia]_vars
  BY <1>1
<1>3. QED
  BY <1>2, InvSiempre, PTL DEF RespuestaPropia
=============================================================================
