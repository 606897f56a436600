-------------------------- MODULE MCSchemaExtraction ------------------------
(* Handlers and two blueprints: the Structs item and tree, with trees and  *)
(* an item; the dataclasses order, with an item, node, with a "Node" and a *)
(* part, and part; a list of nodes.                                        *)
EXTENDS SchemaExtraction

CONSTANTS t1, t2, order, item, tree, node, part, nodes, blob, begin, finish, walk, plain, bare, builtin

nested == [ty \in Types |-> CASE ty = order -> <<item>> [] ty = tree -> <<item, tree>>
                              [] ty = node -> <<node, part>>
                              [] ty = nodes -> <<node>> [] OTHER -> <<>>]
raw    == [ty \in Types |-> IF ty = node THEN <<part>> ELSE IF ty = order THEN <<item>> ELSE <<>>]

param(name, kind, type, default) == [name |-> name, kind |-> kind, type |-> type, default |-> default]

sign(params, returns, known, writable, text) ==
  [params |-> params, returns |-> returns, known |-> known, writable |-> writable, text |-> text]

signature == [f \in Functions |->
  CASE f = begin ->      \* begin(order: "Order", ctx, trace: "Annotated[str, Header]" = None)
         sign(<<param("order", "business", order, FALSE), param("ctx", "system", Unannotated, FALSE),
                param("trace", "header", Str, TRUE)>>, Unannotated, TRUE, TRUE, TRUE)
    [] f = finish ->     \* a method: finish(self, item: Item, note=None, *rest) -> Item
         sign(<<param("item", "business", item, FALSE), param("self", "system", Unannotated, FALSE),
                param("note", "business", Unannotated, TRUE), param("rest", "variadic", AnyType, TRUE)>>,
              item, TRUE, FALSE, FALSE)
    [] f = walk ->       \* walk(node: Node) -> list[Node]
         sign(<<param("node", "business", node, FALSE)>>, nodes, TRUE, TRUE, FALSE)
    [] f = plain ->      \* plain(value: Any = None) -> "Order"
         sign(<<param("value", "business", AnyType, TRUE)>>, order, TRUE, TRUE, TRUE)
    [] f = bare ->       \* bare(input: dict)
         sign(<<param("input", "business", Dict, FALSE)>>, NoneType, TRUE, TRUE, FALSE)
    [] f = builtin ->    \* has no signature
         sign(<<>>, Unannotated, FALSE, FALSE, FALSE)]

ordering ==
  [start |-> "init", handlers |-> "end" :> finish @@ "stop" :> plain,
   conditional |-> <<[state |-> "init", func |-> begin]>>,
   ends |-> <<"stop", "end">>, transitions |-> TRUE]
walking ==
  [start |-> "init", handlers |-> "init" :> walk @@ "end" :> walk @@ "stop" :> finish,
   conditional |-> <<>>, ends |-> <<"end", "none">>, transitions |-> FALSE]

contracts == {<<ordering, FALSE>>, <<walking, FALSE>>, <<walking, TRUE>>}

\* Every schema a function has, with extractors where one matters.
asks   == {<<begin, "input", FALSE>>, <<begin, "arg", FALSE>>,
           <<finish, "input", FALSE>>, <<finish, "output", FALSE>>,
           <<walk, "input", FALSE>>, <<walk, "output", FALSE>>,
           <<plain, "input", FALSE>>, <<plain, "output", FALSE>>,
           <<bare, "input", FALSE>>, <<builtin, "input", FALSE>>, <<builtin, "arg", FALSE>>}
direct == {<<blob, FALSE>>, <<tree, FALSE>>, <<part, FALSE>>}
=============================================================================
