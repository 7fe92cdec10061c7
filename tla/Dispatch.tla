-------------------------------- MODULE Dispatch --------------------------------
(***************************************************************************)
(* From a call to its method and back: the messages of Proto, the handler  *)
(* table of AbstractService and the errors they answer with.               *)
(***************************************************************************)
EXTENDS StubGen

RequestFields == {"clientno", "serverno", "version", "timestamp", "messageid",
                  "method", "params"}

\* Mutant: the arguments go out in the opposite order.
build_requestBackwards(d, f) ==
  LET n == Cardinality(DOMAIN f.params) IN
  [fields |-> [x \in RequestFields |-> IF x = "params" THEN "array" ELSE "integer"],
   method |-> Code(f),
   params |-> {[l EXCEPT !.at[1] = n + 1 - @] : l \in Arguments(d, f)}]

\* Proto::build_request on the client's side: the type of each field of the
\* JSON object, the code of the method and the arguments.
build_request(d, f) ==
  [fields |-> [x \in RequestFields |-> IF x = "params" THEN "array" ELSE "integer"],
   method |-> Code(f),
   params |-> Arguments(d, f)]

\* Proto::build_request on the server's side: every field is there, and each
\* is an integer but for the parameters.
Parsed(msg) ==
  \A x \in RequestFields :
    /\ x \in DOMAIN msg.fields
    /\ msg.fields[x] = IF x = "params" THEN "array" ELSE "integer"

\* AbstractService::on_request: the wrapper reads all its arguments before it
\* calls the method.
on_request(d, msg) ==
  LET handlers == reg_wrappers(d) IN
  IF msg.method \notin DOMAIN handlers THEN "METHOD_NOT_FOUND"
  ELSE IF Fits(Arguments(d, handlers[msg.method]), msg.params) THEN "result"
  ELSE "PARAM_MISMATCH"

\* The frame a message is answered with.
Answer(d, msg) == IF Parsed(msg) THEN on_request(d, msg) ELSE "JSON_NOT_PARSED"

\* The method that runs and the values its arguments get.
Execution(d, msg) ==
  LET f == reg_wrappers(d)[msg.method]
  IN [name |-> f.name, args |-> Bound(Arguments(d, f), msg.params)]

\* Can a caller of f, generated from dc, read what the method of ds returned?
Readable(dc, f, ds) ==
  Fits(ResultOf(dc, f), ResultOf(ds, reg_wrappers(ds)[Code(f)]))

\* A call that the two stubs agree about: the service declares the method as
\* the client does, and no other method has its code.
Agreed(dc, f, ds) ==
  /\ \E i \in DOMAIN ds.functions :
       /\ ds.functions[i] = f
       /\ \A j \in DOMAIN ds.functions :
            Code(ds.functions[j]) = Code(f) => j = i
  /\ dc.classes = ds.classes

\* What running f then means: every argument gets the value given for it.
Faithful(dc, f) ==
  [name |-> f.name, args |-> {<<l.name, l.name>> : l \in Arguments(dc, f)}]
=============================================================================
