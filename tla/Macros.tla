------------------------------- MODULE Macros -------------------------------
(***************************************************************************)
(* RenderJinja: the macro calls in the expressions of the model columns    *)
(* are replaced, pass after pass, until a pass changes nothing.            *)
(*                                                                         *)
(* A text is a sequence of words and of calls, whose arguments are words;  *)
(* a word is a path of names, such as r.c.  The code replaces a            *)
(* parameter's name wherever its letters occur; here no name occurs inside *)
(* another one.                                                            *)
(***************************************************************************)
EXTENDS Integers, SequencesExt

CONSTANTS
  Name,       \* names of macros, parameters, columns, relationships
  MaxText     \* bound: the items of an expression

ASSUME MacrosAssumption == MaxText \in Nat

Path == Seq(Name)

\* macroCallRegex takes a single name for the name of a call.
Item == {item \in [isCall : BOOLEAN, name : Path, args : Seq(Path)] :
           item.isCall => Len(item.name) = 1}

Text == Seq(Item)
MacroType == [name : Name, params : Path, body : Text]

Word(w) == [isCall |-> FALSE, name |-> w, args |-> <<>>]
Call(m, args) == [isCall |-> TRUE, name |-> m, args |-> args]

VARIABLES
  macros,      \* the manifest's macros: name, params, body
  original,    \* not in the code: the expressions as they were
  expressions, \* the expressions of the model columns
  column,      \* the column whose turn it is
  prev         \* the local variable of expandMacros

macrosVars == <<macros, original, expressions, column, prev>>

MacroNames == {<<macros[k].name>> : k \in DOMAIN macros}

\* The map keeps the last macro of a name.
MacroNamed(m) ==
  macros[CHOOSE k \in DOMAIN macros :
           <<macros[k].name>> = m /\ \A j \in DOMAIN macros : <<macros[j].name>> = m => j <= k]

MacrosInit ==
  /\ macros \in Seq(MacroType)
  /\ original \in Seq(Text) /\ expressions = original
  /\ column = 1 /\ prev = <<>>

-----------------------------------------------------------------------------
\* {{ p }} becomes the value; then so does p wherever it stands, in a path, as
\* an argument, as the name of a call, or in the value that was put for {{ p }}.
Replaced(p, v, w) == FlattenSeq([i \in DOMAIN w |-> IF w[i] = p THEN v ELSE <<w[i]>>])

Put(p, v, item) ==
  IF item = Call(<<p>>, <<>>) THEN Word(Replaced(p, v, v))
  ELSE [item EXCEPT !.name = Replaced(p, v, @), !.args = [i \in DOMAIN @ |-> Replaced(p, v, @[i])]]

\* The parameters that have an argument are replaced one after the other: what
\* was put for one is searched for the next.
Substituted(body, params, args) ==
  LET given == IF Len(params) <= Len(args) THEN Len(params) ELSE Len(args)
      after[i \in 0 .. given] ==
        IF i = 0 THEN body
        ELSE [k \in DOMAIN body |-> Put(params[i], args[i], after[i - 1][k])]
  IN  after[given]

\* A call of a name that is no macro is left alone.
IsMacroCall(item) == item.isCall /\ item.name \in MacroNames

Expansion(item) ==
  IF IsMacroCall(item)
    THEN LET m == MacroNamed(item.name) IN Substituted(m.body, m.params, item.args)
    ELSE <<item>>

\* ReplaceAllStringFunc: what it puts in is not searched in the same pass.
Pass(text) == FlattenSeq([i \in DOMAIN text |-> Expansion(text[i])])

Rendering == column \in DOMAIN expressions

\* Mutant: prev is not assigned.
ExpandPassForgetful ==
  /\ Rendering /\ expressions[column] # prev
  /\ Len(Pass(expressions[column])) <= MaxText
  /\ expressions' = [expressions EXCEPT ![column] = Pass(@)]
  /\ UNCHANGED <<macros, original, column, prev>>

\* A text longer than the bound stands for one that never stops growing.
ExpandPass ==
  /\ Rendering /\ expressions[column] # prev
  /\ Len(Pass(expressions[column])) <= MaxText
  /\ prev' = expressions[column]
  /\ expressions' = [expressions EXCEPT ![column] = Pass(@)]
  /\ UNCHANGED <<macros, original, column>>

\* Mutant: one pass for each column.
NextColumnAfterPass ==
  /\ Rendering /\ (prev # <<>> \/ expressions[column] = prev)
  /\ column' = column + 1
  /\ prev' = <<>>
  /\ UNCHANGED <<macros, original, expressions>>

NextColumn ==
  /\ Rendering /\ expressions[column] = prev
  /\ column' = column + 1
  /\ prev' = <<>>
  /\ UNCHANGED <<macros, original, expressions>>

MacrosNext == ExpandPass \/ NextColumn

MacrosSpec == MacrosInit /\ [][MacrosNext]_macrosVars

-----------------------------------------------------------------------------
Params(m) == {MacroNamed(m).params[i] : i \in DOMAIN MacroNamed(m).params}
Items(text) == {text[i] : i \in DOMAIN text}
Calls(text) == {c \in Items(text) : c.isCall}

\* {{ p }} calls nothing when p is a parameter that gets a value.
CalledBy(m) == {c.name : c \in Calls(MacroNamed(m).body)}

\* No macro comes back to itself, nor calls what a parameter names.
WellFounded ==
  /\ \A S \in SUBSET MacroNames : S # {} => \E m \in S : CalledBy(m) \cap S = {}
  /\ \A m \in MacroNames : \A c \in Calls(MacroNamed(m).body) :
       c.args # <<>> => Items(c.name) \cap Params(m) = {}

\* The names that are looked for in what was put: of a parameter after others,
\* and of one that stands as {{ p }}.
LookedFor(m) ==
  {m.params[i] : i \in {i \in DOMAIN m.params : i # 1 \/ Call(<<m.params[i]>>, <<>>) \in Items(m.body)}}

Later == UNION {LookedFor(MacroNamed(m)) : m \in MacroNames}

ArgWords(call) == UNION {Items(call.args[i]) : i \in DOMAIN call.args}
MacroCalls(text) == {c \in Calls(text) : c.name \in MacroNames}

\* The parameters of a macro that stand in an argument in its body.
PassedOn(m) == Params(m) \cap UNION {ArgWords(c) : c \in MacroCalls(MacroNamed(m).body)}

\* Arguments contain no name that is looked for in them, except parameters of
\* the macro they stand in; where these are passed on like that, the macro is
\* not called without them.
Tidy(text, own) ==
  \A c \in MacroCalls(text) :
    /\ ArgWords(c) \cap Later \subseteq own
    /\ \A i \in DOMAIN MacroNamed(c.name).params :
         MacroNamed(c.name).params[i] \in PassedOn(c.name) \cap Later => i <= Len(c.args)

Hygienic ==
  /\ \A k \in DOMAIN original : Tidy(original[k], {})
  /\ \A m \in MacroNames : Tidy(MacroNamed(m).body, Params(m))

\* Reference: the meaning of a text, all parameters replaced at once and each
\* macro followed to its end before the text goes on.
Given(params, args, n) == {i \in DOMAIN params : params[i] = n /\ i <= Len(args)}

ValueOf(params, args, n) ==
  IF Given(params, args, n) = {} THEN <<n>> ELSE args[Min(Given(params, args, n))]

AllReplaced(params, args, w) == FlattenSeq([i \in DOMAIN w |-> ValueOf(params, args, w[i])])

AtOnce(params, args, item) ==
  IF item.isCall /\ item.args = <<>> /\ Given(params, args, item.name[1]) # {}
    THEN Word(AllReplaced(params, args, item.name))
  ELSE [isCall |-> item.isCall, name |-> AllReplaced(params, args, item.name),
        args |-> [i \in DOMAIN item.args |-> AllReplaced(params, args, item.args[i])]]

Filled(m, args) == [j \in DOMAIN m.body |-> AtOnce(m.params, args, m.body[j])]

\* Macros that do not come back to themselves are no deeper than they are many.
Meaning(text) ==
  LET followed[d \in Nat] ==
        [t \in Text |->
           IF d = 0 THEN t
           ELSE FlattenSeq([k \in DOMAIN t |->
                  IF IsMacroCall(t[k]) THEN followed[d - 1][Filled(MacroNamed(t[k].name), t[k].args)]
                  ELSE <<t[k]>>])]
  IN  followed[Cardinality(MacroNames)][text]

\* Expanding pass after pass, one parameter after the other, gives each column
\* what its macros mean, however deep they are nested and whatever arguments
\* are missing or left over.  Where an argument is called like a parameter this
\* is not so: what is put for one parameter is taken for another one, or for
\* the same.
ExpansionExact ==
  WellFounded /\ Hygienic =>
    \A k \in DOMAIN original : k < column => expressions[k] = Meaning(original[k])
=============================================================================
