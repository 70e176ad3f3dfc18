------------------------------- MODULE Entrada -------------------------------
(***************************************************************************)
(* What a console program reads from the keyboard, and what it does with   *)
(* it: the menu of main, the forms of registro.c and menuPrincipal.        *)
(*                                                                         *)
(* main reads its option with scanf and one getchar; the others are read   *)
(* with fgets into arrays of different sizes.  What one reader leaves in   *)
(* stdin the next one takes: the rest of a long line, the end of a line    *)
(* that fills its array, the letters that are not a number.  A variable    *)
(* into which nothing was read keeps what it had.                          *)
(*                                                                         *)
(* A line is the number of its signs and the question it was typed for;    *)
(* which sign comes first shows when somebody reads it.  The user types    *)
(* when the program waits for a line, and may close the input.  What the   *)
(* operations do is in Prestamos and in Registro; those that only print    *)
(* are left out.                                                           *)
(***************************************************************************)
EXTENDS Naturals

CONSTANTS
  Largos   \* the lengths of the lines that are typed

ASSUME ConstantesOK == Largos \subseteq Nat

VARIABLES
  donde,    \* the question the program asks
  stdin,    \* what is left of the line
  fin,      \* the input is closed
  opcion,   \* main's opcion, and where it comes from
  str,      \* menuPrincipal's str, and where it comes from
  propio,   \* the texts of the operation were typed for it
  \* history variables, read by no action
  ultima,   \* the last operation: where its option came from, and propio
  causas    \* what the user has done out of measure

usuario == <<fin, causas>>
vars    == <<donde, stdin, usuario, opcion, str, propio, ultima>>

Formulario == {"nombre", "apellido", "correo", "telefono", "contrasena"}
Sesion     == {"login_correo", "login_contrasena"}
Busquedas  == {"titulo", "autor", "isbn"}
Operables  == {"pedir", "devolver"}
Opciones   == {"menu", "buscar"}
Textos     == Formulario \cup Sesion \cup Busquedas \cup Operables

\* The first sign of an answer: a digit that is an option, or another.
Cifras(p) ==
  CASE p = "principal" -> {"1", "3", "4"}
    [] p = "menu"      -> {"1", "4", "5", "6"}
    [] p = "buscar"    -> {"1", "2", "3"}

Signos(p) == Cifras(p) \cup {"otra"}

\* An ISBN has 13 signs.
DeISBN    == {"isbn"} \cup Operables
LargoISBN == 13

\* Mutant of Cabida: char isbn[13].
CabidaSinSalto(p) ==
  CASE p \in {"correo", "login_correo", "titulo"} -> 99
    [] p \in {"nombre", "apellido", "contrasena", "login_contrasena"} -> 49
    [] p = "autor" -> 29 [] p = "telefono" -> 19 [] p \in DeISBN -> 12
    [] p = "menu" -> 9   [] p = "buscar" -> 4

\* The signs that fgets puts into each array.
Cabida(p) ==
  CASE p \in {"correo", "login_correo", "titulo"} -> 99
    [] p \in {"nombre", "apellido", "contrasena", "login_contrasena"} -> 49
    [] p = "autor" -> 29 [] p = "telefono" -> 19 [] p \in DeISBN -> 13
    [] p = "menu" -> 9   [] p = "buscar" -> 4

Nada   == [n |-> 0, para |-> "nadie"]
Basura == [v |-> "otra", de |-> "basura"]

Hay     == stdin # Nada
Termino == ~ Hay /\ fin

\* Mutant of Tras: fread, which does not stop at the end of the line.
TrasFread(k) == [n |-> stdin.n - k, para |-> stdin.para]

\* Mutant of Tras: scanf("%[^\n]"), which leaves the end of the line.
TrasSinFinal(k) == [n |-> IF k > stdin.n THEN 0 ELSE stdin.n - k, para |-> stdin.para]

(***************************************************************************)
(* stdin after k signs of it, the end of the line being the last one.      *)
(***************************************************************************)
Tras(k) == IF k > stdin.n THEN Nada ELSE [n |-> stdin.n - k, para |-> stdin.para]

\* Was the line typed for the question p?
De(p) == IF stdin.para = p THEN "propia" ELSE "ajena"

Init ==
  /\ donde = "principal"
  /\ stdin = Nada
  /\ fin = FALSE
  /\ opcion = Basura /\ str = Basura
  /\ propio = TRUE
  /\ ultima = [op |-> "ninguna", opcion |-> "nadie", propio |-> TRUE]
  /\ causas = {}

-----------------------------------------------------------------------------
(* The user *)

Desmedida(p, n) ==
  IF p \in DeISBN THEN IF n > LargoISBN THEN {"larga"} ELSE {}
  ELSE IF n > Cabida(p) THEN {"larga"} ELSE IF n = Cabida(p) THEN {"justa"} ELSE {}

\* What main or Enter leave is read by a form, or by the next option.
DeMas(m, n) ==
  (IF n > m THEN {"respuesta"} ELSE {}) \cup (IF n > Cabida("nombre") THEN {"larga"} ELSE {})

\* main asks for one digit, and the end of menuPrincipal for Enter.
Teclear(n) ==
  /\ ~ Hay /\ ~ fin /\ donde # "cerrado"
  /\ stdin' = [n |-> n, para |-> donde]
  /\ causas' = causas \cup
       CASE donde = "principal" -> DeMas(1, n)
         [] donde = "enter"     -> DeMas(0, n)
         [] OTHER               -> Desmedida(donde, n)
  /\ UNCHANGED <<donde, fin, opcion, str, propio, ultima>>

CerrarEntrada ==
  /\ ~ fin /\ donde # "cerrado"
  /\ fin' = TRUE
  /\ causas' = causas \cup {"fin"}
  /\ UNCHANGED <<donde, stdin, opcion, str, propio, ultima>>

-----------------------------------------------------------------------------
(* The program *)

Lee(k) == Hay /\ stdin' = Tras(k)

\* What a variable holds when nothing was read into it.
Queda(o) ==
  IF o.de = "basura" THEN {[v |-> c, de |-> "basura"] : c \in Signos(donde)}
  ELSE {[v |-> o.v, de |-> "vieja"]}

Hace(op, o) == ultima' = [op |-> op, opcion |-> o.de, propio |-> propio']

(***************************************************************************)
(* The menu of main: scanf("%d") skips ends of lines and takes digits,     *)
(* zeros before the number among them ("01" is 1); it leaves opcion as it  *)
(* was if it meets another sign, or the end of the                         *)
(* input.  getchar takes one sign more.  A form whose file does not open    *)
(* asks nothing.                                                           *)
(***************************************************************************)
Elige ==
  /\ propio' = TRUE
  /\ donde' \in CASE opcion'.v = "1" -> {"nombre", "principal"}
                  [] opcion'.v = "3" -> {"login_correo", "principal"}
                  [] opcion'.v = "4" -> {"cerrado"}
                  [] OTHER           -> {"principal"}

\* Mutant of Principal: without getchar.
PrincipalSinGetchar ==
  /\ donde = "principal"
  /\ \/ /\ Hay /\ stdin.n = 0
        /\ stdin' = Nada
        /\ UNCHANGED <<donde, causas, opcion, propio>>
     \/ /\ \E k \in 1 .. stdin.n, c \in Signos(donde) :
             /\ Lee(k)
             /\ opcion' = [v |-> c, de |-> De(donde)]
        /\ Elige
        /\ UNCHANGED causas
     \/ /\ Hay /\ stdin.n > 0
        /\ UNCHANGED stdin
        /\ causas' = IF stdin.para = "principal" THEN causas \cup {"respuesta"} ELSE causas
        /\ opcion' \in Queda(opcion)
        /\ Elige
     \/ /\ Termino
        /\ opcion' \in Queda(opcion)
        /\ Elige
        /\ UNCHANGED <<stdin, causas>>
  /\ UNCHANGED <<fin, str, ultima>>

Principal ==
  /\ donde = "principal"
  /\ \/ /\ Hay /\ stdin.n = 0
        /\ stdin' = Nada
        /\ UNCHANGED <<donde, causas, opcion, propio>>
     \/ /\ \E k \in 1 .. stdin.n, c \in Signos(donde) :
             /\ Lee(k + 1)
             /\ opcion' = [v |-> c, de |-> De(donde)]
        /\ Elige
        /\ UNCHANGED causas
     \/ /\ Hay /\ stdin.n > 0
        /\ stdin' = Tras(1)
        /\ causas' = IF stdin.para = "principal" THEN causas \cup {"respuesta"} ELSE causas
        /\ opcion' \in Queda(opcion)
        /\ Elige
     \/ /\ Termino
        /\ opcion' \in Queda(opcion)
        /\ Elige
        /\ UNCHANGED <<stdin, causas>>
  /\ UNCHANGED <<fin, str, ultima>>

(***************************************************************************)
(* fgets of a text.  Without a line the array keeps what the stack had.    *)
(***************************************************************************)
Texto(p) ==
  /\ donde = p
  /\ \/ /\ Lee(Cabida(p))
        /\ propio' = (propio /\ stdin.para = p)
     \/ /\ Termino
        /\ propio' = FALSE
        /\ UNCHANGED stdin
  /\ UNCHANGED <<usuario, opcion>>

\* registrarUsuario: the five texts, and then the line of usuarios.csv.
Rellenar(p, siguiente) ==
  /\ Texto(p)
  /\ donde' = siguiente
  /\ UNCHANGED <<str, ultima>>

Registrar ==
  /\ Texto("contrasena")
  /\ donde' = "principal"
  /\ Hace("registrar", opcion)
  /\ UNCHANGED str

(***************************************************************************)
(* iniciarSesion: the e-mail and the password are those of a user, or not. *)
(* menuPrincipal opens its database, or comes back; its str is a local.    *)
(***************************************************************************)
IniciarSesion ==
  /\ Texto("login_contrasena")
  /\ \/ /\ donde' \in {"menu", "principal"}
        /\ Hace("entrar", opcion)
        /\ str' = Basura
     \/ /\ donde' = "principal"
        /\ UNCHANGED <<str, ultima>>

\* The loop of menuPrincipal.
Menu ==
  /\ donde = "menu"
  /\ \/ /\ Lee(Cabida("menu"))
        /\ \E c \in Signos("menu") :
             /\ stdin.n = 0 => c = "otra"
             /\ str' = [v |-> c, de |-> De("menu")]
     \/ Termino /\ str' \in Queda(str) /\ UNCHANGED stdin
  /\ propio' = TRUE
  /\ donde' = CASE str'.v = "1" -> "buscar"
                [] str'.v = "4" -> "pedir"
                [] str'.v = "5" -> "devolver"
                [] str'.v = "6" -> "enter"
                [] OTHER        -> "menu"
  /\ UNCHANGED <<usuario, opcion, ultima>>

\* Option 1: str2 is a local of the block.
Buscar ==
  /\ donde = "buscar"
  /\ \E c \in Signos("buscar") :
       /\ \/ Lee(Cabida("buscar")) /\ (stdin.n = 0 => c = "otra")
          \/ Termino /\ UNCHANGED stdin
       /\ donde' = CASE c = "1" -> "titulo"
                     [] c = "2" -> "autor"
                     [] c = "3" -> "isbn"
                     [] OTHER   -> "menu"
  /\ UNCHANGED <<usuario, opcion, str, propio, ultima>>

BuscarTexto(p) ==
  /\ Texto(p)
  /\ donde' = "menu"
  /\ UNCHANGED <<str, ultima>>

\* Options 4 and 5: the ISBN, and then pedir_libro or devolver_libro.
Operar(p) ==
  /\ Texto(p)
  /\ donde' = "menu"
  /\ Hace(p, str)
  /\ UNCHANGED str

\* Option 6: "Presione Enter para salir", and getchar.
Enter ==
  /\ donde = "enter"
  /\ \/ Lee(1)
     \/ Termino /\ UNCHANGED stdin
  /\ donde' = "principal"
  /\ str' = Basura
  /\ UNCHANGED <<usuario, opcion, propio, ultima>>

-----------------------------------------------------------------------------
Programa ==
  \/ Principal
  \/ Rellenar("nombre", "apellido") \/ Rellenar("apellido", "correo")
  \/ Rellenar("correo", "telefono") \/ Rellenar("telefono", "contrasena")
  \/ Registrar
  \/ Rellenar("login_correo", "login_contrasena")
  \/ IniciarSesion
  \/ Menu \/ Buscar \/ Enter
  \/ \E p \in Busquedas : BuscarTexto(p)
  \/ \E p \in Operables : Operar(p)

Next ==
  \/ Programa
  \/ \E n \in Largos : Teclear(n)
  \/ CerrarEntrada

\* The program is one thread that runs; the user need not type.
Spec == Init /\ [][Next]_vars /\ WF_vars(Programa)
-----------------------------------------------------------------------------
(* Properties *)

(***************************************************************************)
(* Every variable keeps its shape: a reader never goes past the line.      *)
(***************************************************************************)
Preguntas == Textos \cup Opciones \cup {"principal", "enter"}
Origenes  == {"propia", "ajena", "vieja", "basura"}

TypeOK ==
  /\ donde \in Preguntas \cup {"cerrado"}
  /\ stdin \in [n : Nat, para : Preguntas] \cup {Nada}
  /\ fin \in BOOLEAN
  /\ opcion \in [v : Signos("principal"), de : Origenes]
  /\ str \in [v : Signos("menu"), de : Origenes]
  /\ propio \in BOOLEAN
  /\ ultima \in [op : {"ninguna", "registrar", "entrar"} \cup Operables,
                 opcion : Origenes \cup {"nadie"}, propio : BOOLEAN]
  /\ causas \subseteq {"respuesta", "larga", "justa", "fin"}

(***************************************************************************)
(* A user who answers main with a digit and types texts that fit sees each *)
(* line taken by the question it answers, although two kinds of readers    *)
(* share stdin, and every ISBN fills its array and leaves the end of its   *)
(* line to the menu: a registration, a session, a loan or a return is the  *)
(* one that was chosen, with the texts typed for it.                       *)
(***************************************************************************)
TodoPropio ==
  causas = {} =>
    ultima.propio /\ ultima.opcion \in {"nadie", "propia"}

(***************************************************************************)
(* Letters typed for a number repeat the last option of main and are read  *)
(* as the texts of a form; so does what is typed with Enter.  A loan or a  *)
(* return is still the one chosen, with the ISBN typed for it.             *)
(***************************************************************************)
PrestamoPropio ==
  causas \subseteq {"respuesta"} /\ ultima.op \in Operables =>
    ultima.propio /\ ultima.opcion = "propia"

(***************************************************************************)
(* Unless a line is longer than its array, a loan or a return has been     *)
(* chosen in its menu: a form that shifts by one line never reaches it,    *)
(* and once the input is closed it is the last one chosen that is repeated *)
(* (or whatever the local variable held).                                  *)
(***************************************************************************)
PrestamoElegido ==
  "larga" \notin causas /\ ultima.op \in Operables =>
    \/ ultima.opcion = "propia"
    \/ ultima.opcion \in {"vieja", "basura"} /\ fin

(***************************************************************************)
(* Whatever was typed, the program comes to ask for a line again, or ends: *)
(* it never goes round on a sign that nobody takes.                        *)
(***************************************************************************)
SiempreVuelve == Hay ~> (~ Hay \/ donde = "cerrado")
=============================================================================
