------------------------------- MODULE Terms --------------------------------
(***************************************************************************)
(* The terms of src/smt/term.rs that the theories and the proofs share,    *)
(* with the constructors that simplify, and their meaning.  Terms are      *)
(* structural: a term is a tuple whose first component is its kind, so     *)
(* hash-consing is equality.  Sorts are "B", "U" (one uninterpreted sort), *)
(* "I" (integers, compared and chosen by ite only) and "A" (arrays from U  *)
(* to U).                                                                  *)
(***************************************************************************)
EXTENDS Integers, FiniteSets, Sequences, SequencesExt

CONSTANTS
  Signature,    \* user function name -> [domain : sequence of sorts, range : sort]
  MaxInt        \* bound: integers range over 0..MaxInt

Kind(t) == t[1]
True == <<"true">>
False == <<"false">>
Select(a, i) == <<"app", "select", <<a, i>>>>
Domain(f) == IF f = "select" THEN <<"A", "U">> ELSE Signature[f].domain
ResultSort(f) == IF f = "select" THEN "U" ELSE Signature[f].range

RECURSIVE Sort(_)
Sort(t) ==
  CASE Kind(t) \in {"const", "witness"} -> "U"
    [] Kind(t) = "num" -> "I"
    [] Kind(t) \in {"arr", "store", "constarr"} -> "A"
    [] Kind(t) = "app" -> ResultSort(t[2])
    [] Kind(t) = "ite" -> Sort(t[3])
    [] OTHER -> "B"

IsAbstract(t) == Sort(t) \in {"U", "A"}
IsAtom(t) == Kind(t) \in {"eq", "le", "atom"} \/ (Kind(t) = "app" /\ Sort(t) = "B")

Not(t) == CASE t = True -> False [] t = False -> True
            [] Kind(t) = "not" -> t[2] [] OTHER -> <<"not", t>>

And(T) ==
  LET rest == T \ {True}
  IN  IF False \in T \/ \E t \in T : Not(t) \in T THEN False
      ELSE IF Cardinality(rest) > 1 THEN <<"and", rest>>
      ELSE IF rest = {} THEN True ELSE CHOOSE t \in rest : TRUE

Or(T) == Not(And({Not(t) : t \in T}))

Le(l, r) == IF l = r THEN True ELSE <<"le", l, r>>

Equal(l, r) == IF l = r THEN True
               ELSE IF Sort(l) = "I" THEN And({Le(l, r), Le(r, l)})
               ELSE <<"eq", {l, r}>>

Ite(c, t, e) ==
  IF Sort(t) = "I" /\ c \in {True, False} THEN (IF c = True THEN t ELSE e)
  ELSE IF Sort(t) # "I" /\ t = e THEN t ELSE <<"ite", c, t, e>>

Children(t) ==
  CASE Kind(t) = "app" -> t[3]
    [] Kind(t) \in {"ite", "store", "le", "not", "constarr"} -> Tail(t)
    [] Kind(t) \in {"eq", "and", "or"} -> SetToSeq(t[2])
    [] OTHER -> <<>>

-----------------------------------------------------------------------------
(* Meaning.  An interpretation m gives the domain m.values of U and what    *)
(* the free terms of each sort denote.                                     *)

RECURSIVE Subterms(_)
Subterms(t) == {t} \cup UNION {Subterms(s) : s \in
                 IF Kind(t) = "witness" THEN t[2] ELSE Range(Children(t))}

\* The terms an interpretation chooses freely: constants, atoms, applications.
Free(T) == {t \in UNION {Subterms(x) : x \in T} :
              Kind(t) \in {"const", "num", "arr", "atom"}
              \/ (Kind(t) = "app" /\ t[2] # "select")}

RECURSIVE Meaning(_, _)
Meaning(t, m) ==
  CASE t = True -> TRUE
    [] t = False -> FALSE
    [] Kind(t) = "not" -> ~Meaning(t[2], m)
    [] Kind(t) = "and" -> \A x \in t[2] : Meaning(x, m)
    [] Kind(t) = "or" -> \E x \in t[2] : Meaning(x, m)
    [] Kind(t) = "eq" -> Cardinality({Meaning(x, m) : x \in t[2]}) = 1
    [] Kind(t) = "le" -> Meaning(t[2], m) <= Meaning(t[3], m)
    [] Kind(t) = "ite" -> IF Meaning(t[2], m) THEN Meaning(t[3], m) ELSE Meaning(t[4], m)
    [] Kind(t) = "constarr" -> [v \in m.values |-> Meaning(t[2], m)]
    [] Kind(t) = "store" -> [Meaning(t[2], m) EXCEPT ![Meaning(t[3], m)] = Meaning(t[4], m)]
    [] Kind(t) = "witness" ->
         LET differ == {v \in m.values : Cardinality({Meaning(a, m)[v] : a \in t[2]}) > 1}
         IN  CHOOSE v \in m.values : differ # {} => v \in differ
    [] Kind(t) = "app" /\ t[2] = "select" -> Meaning(t[3][1], m)[Meaning(t[3][2], m)]
    [] OTHER -> m[Sort(t)][t]

OfSort(T, s) == {t \in T : Sort(t) = s}

Functional(T, m) ==
  \A s, t \in {x \in T : Kind(x) = "app"} :
    (s[2] = t[2] /\ \A i \in DOMAIN s[3] : Meaning(s[3][i], m) = Meaning(t[3][i], m))
      => Meaning(s, m) = Meaning(t, m)

\* Some interpretation with a U domain of 0..top makes T true and has property P.
Modelled(T, top, P(_)) ==
  LET free == Free(T)
      values == 0..top
  IN  \E u \in [OfSort(free, "U") -> values], a \in [OfSort(free, "A") -> [values -> values]],
         i \in [OfSort(free, "I") -> 0..MaxInt], b \in [OfSort(free, "B") -> BOOLEAN] :
        LET m == [values |-> values, U |-> u, A |-> a, I |-> i, B |-> b]
        IN  (\A t \in T : Meaning(t, m)) /\ Functional(free, m) /\ P(m)

Satisfiable(T, top) == Modelled(T, top, LAMBDA m : TRUE)
=============================================================================
