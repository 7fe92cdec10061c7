-------------------------------- MODULE StubGen --------------------------------
(***************************************************************************)
(* stubgen turns a description of a service into two stubs.  The client's  *)
(* stub serializes the arguments of a call and names the method by a hash; *)
(* the service's stub has a wrapper per method, which reads the arguments  *)
(* back and calls the method, and registers the wrappers under the hashes. *)
(* This module says what the generated code does, not how it is worded.    *)
(*                                                                         *)
(* Parameters and members live in std::maps, so that both stubs take them  *)
(* in the order of their names and never in that of the description.       *)
(* Names of parameters and members are numbers here: only their order      *)
(* matters.  A value is represented by the path of names it was given      *)
(* under, so that a value read under another name shows.                   *)
(***************************************************************************)
EXTENDS Integers, Sequences, FiniteSets

CONSTANTS
  Upper,     \* VarString::toupper: [names of methods -> names]
  Hash,      \* std::hash: [upper-case names -> Nat]
  IntBits    \* bits of an int

ASSUME StubGenAssumption == IntBits \in Nat \ {0}

-----------------------------------------------------------------------------
(* The description, as ServiceDef and ClassDef hold it.  "params" is null   *)
(* when there are none; "return" may be left out.                           *)

NoNames == [n \in {} |-> "none"]

FunctionOf(json) ==
  [name   |-> json.name,
   params |-> IF json.params.kind = "null" THEN NoNames ELSE json.params.fields,
   ret    |-> IF "return" \in DOMAIN json THEN json["return"] ELSE "void"]

DefinitionOf(json) ==
  [classes   |-> IF "classes" \in DOMAIN json THEN json.classes ELSE NoNames,
   functions |-> [i \in DOMAIN json.service |-> FunctionOf(json.service[i])]]

\* A class or an enum that declares a name twice does not compile.
Compiles(d) ==
  \A i, j \in DOMAIN d.functions :
    Upper[d.functions[i].name] = Upper[d.functions[j].name] => i = j

\* The methods are in a list, the parameters and members in a std::map each,
\* in the order of their names.
Named(fields) == IsFiniteSet(DOMAIN fields) /\ DOMAIN fields \subseteq Int

Described(d) ==
  /\ IsFiniteSet(DOMAIN d.classes)
  /\ \A t \in DOMAIN d.classes : Named(d.classes[t])
  /\ d.functions \in Seq({d.functions[i] : i \in DOMAIN d.functions})
  /\ \A i \in DOMAIN d.functions : Named(d.functions[i].params)

-----------------------------------------------------------------------------
(* The protocol: std::abs((int)hash_fn(upper_name)), whose two's complement *)
(* minimum is its own absolute value.                                       *)

AsInt(h) ==
  LET low == h % 2^IntBits
  IN IF low < 2^(IntBits - 1) THEN low ELSE low - 2^IntBits

AbsInt(i) == IF i < 0 /\ i # -(2^(IntBits - 1)) THEN -i ELSE i

Code(f) == AbsInt(AsInt(Hash[Upper[f.name]]))

-----------------------------------------------------------------------------
(* Serialization.  Of a value of a class its members are serialized, in the *)
(* order of the members' names.  A leaf is a value of a basic type: its     *)
(* place in the nested arrays, its type, and the path of names to it.       *)

Rank(n, names) == Cardinality({m \in names : m <= n})

Spread(fields, inner) ==
  UNION {{[at |-> <<Rank(n, DOMAIN fields)>> \o leaf.at, type |-> leaf.type,
           name |-> <<n>> \o leaf.name] : leaf \in inner[fields[n]]} :
         n \in DOMAIN fields}

TypesOf(fields) == {fields[n] : n \in DOMAIN fields}

\* "serializer & x" for each type, classes nested as deep as there are classes.
LeavesOf(classes, types) ==
  LET all == types \cup UNION {TypesOf(classes[k]) : k \in DOMAIN classes}
      nested[depth \in 0 .. Cardinality(DOMAIN classes)] ==
        [t \in all |->
           IF t \notin DOMAIN classes
             THEN {[at |-> <<>>, type |-> t, name |-> <<>>]}
             ELSE IF depth = 0 THEN {}
                               ELSE Spread(classes[t], nested[depth - 1])]
  IN nested[Cardinality(DOMAIN classes)]

Leaves(d, fields) == Spread(fields, LeavesOf(d.classes, TypesOf(fields)))

\* "sin & x" fails unless each leaf it wants is there with its type; what
\* else was sent is not looked at.
Fits(wanted, sent) ==
  \A w \in wanted : \E s \in sent : s.at = w.at /\ s.type = w.type

\* Which value each leaf gets.
Bound(wanted, sent) ==
  {<<p[1].name, p[2].name>> : p \in {q \in wanted \X sent : q[1].at = q[2].at}}

-----------------------------------------------------------------------------
(* The client's stub: what a call of f sends, and what it reads of a reply. *)

Arguments(d, f) == Leaves(d, f.params)
WantsResult(f) == f.ret # "void"
ResultOf(d, f) == IF WantsResult(f) THEN Leaves(d, <<f.ret>>) ELSE {}

-----------------------------------------------------------------------------
(* The service's stub.  reg() puts a handler into the map whether or not    *)
(* one was there; _reg_wrappers calls it for the methods in their order.    *)

reg(handlers, code, f) ==
  [c \in DOMAIN handlers \cup {code} |-> IF c = code THEN f ELSE handlers[c]]

\* Mutant: the last method is left out.
reg_wrappersShort(d) ==
  LET upTo[i \in 0 .. Len(d.functions)] ==
        IF i = 0 THEN NoNames
                 ELSE reg(upTo[i - 1], Code(d.functions[i]), d.functions[i])
  IN upTo[Len(d.functions) - 1]

reg_wrappers(d) ==
  LET upTo[i \in 0 .. Len(d.functions)] ==
        IF i = 0 THEN NoNames
                 ELSE reg(upTo[i - 1], Code(d.functions[i]), d.functions[i])
  IN upTo[Len(d.functions)]
=============================================================================
