------------------------------- MODULE MCRpcClient -------------------------------
(***************************************************************************)
(* Descriptions for the stubs: the one the client was generated from, and  *)
(* services of the same, of an older with another name of a parameter, of  *)
(* one with other members and types, and of a newer one in which two       *)
(* methods have the same code.                                             *)
(***************************************************************************)
EXTENDS RpcClient, TLC

MCUpper == [draw |-> "DRAW", ping |-> "PING", area |-> "AREA", size |-> "SIZE"]

\* With 4 bits to an int: 3, 5, 4 (the absolute value of -4), and 5 again.
MCHash == [DRAW |-> 3, PING |-> 21, AREA |-> 12, SIZE |-> 11]

Classes(member) ==
  [Point |-> (member :> "int") @@ (3 :> "string"),
   Rectangle |-> (1 :> "Point") @@ (2 :> "Point")]

Object(fields) == [kind |-> "object", fields |-> fields]

Draw(name) == [name |-> "draw", params |-> Object((name :> "Rectangle") @@ (2 :> "int"))]
Ping == [name |-> "ping", params |-> [kind |-> "null"]]
Area(type) == [name |-> "area", params |-> Object((1 :> type) @@ (2 :> "int")),
               return |-> "int"]

Size == [name |-> "size", params |-> [kind |-> "null"], return |-> "int"]

MCClientDef == DefinitionOf([classes |-> Classes(2), service |-> <<Draw(1), Ping, Area("int")>>])

MCServerDefs ==
  <<MCClientDef,
   DefinitionOf([classes |-> Classes(2), service |-> <<Draw(3), Area("int")>>]),
   DefinitionOf([classes |-> Classes(4), service |-> <<Draw(1), Ping, Area("string")>>]),
   DefinitionOf([classes |-> Classes(2),
                 service |-> <<Draw(1), Ping, Area("int"), Size>>])>>
=============================================================================
