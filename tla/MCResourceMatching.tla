-------------------------- MODULE MCResourceMatching ------------------------
(* Devices that differ in one number, in type, model and id, in a set and  *)
(* in a dict, and properties of every kind.                                *)
EXTENDS ResourceMatching, TLC

number(n)     == [kind |-> "number", v |-> n]
text(t)       == [kind |-> "text", v |-> t]
collection(s) == [kind |-> "collection", v |-> {text(t) : t \in s}]
mapping       == [kind |-> "dict", v |-> "a"]
unhashable    == [kind |-> "collection", v |-> {mapping}]
null          == [kind |-> "none", v |-> ""]

none == [k \in {} |-> number(0)]

gpu(vram) == [type |-> "gpu", model |-> NoText, id |-> NoText, properties |-> "vram" :> number(vram)]

devices ==
  {gpu(8), gpu(16),
   [gpu(16) EXCEPT !.model = "a100 80gb", !.id = "0"],
   [gpu(8) EXCEPT !.model = "a100", !.type = ""],
   [type |-> "cpu", model |-> "", id |-> "0", properties |-> "isa" :> collection({"avx", "sse"})],
   [type |-> "cpu", model |-> "", id |-> "", properties |-> "isa" :> text("avx")],
   [type |-> "cpu", model |-> "", id |-> "", properties |-> none],
   [type |-> "cpu", model |-> NoText, id |-> NoText, properties |-> "isa" :> mapping]}

contains == {<<"a100", "a100">>, <<"a100", "a100 80gb">>, <<"a100 80gb", "a100 80gb">>}

properties ==
  {none, "os" :> collection({"linux", "darwin"}), "os" :> number(2), "os" :> null,
   ("os" :> unhashable) @@ ("ram" :> number(1)), ("os" :> text("linux")) @@ ("ram" :> number(2))}

more == {"os" :> collection({}), "os" :> number(1), "os" :> mapping, "os" :> unhashable}

artifacts == [name : {"llm"}, version : {"unknown", "2"}, properties : properties \cup more]
skills    == [name : {"resize"}, type : {NoText, "", "image"}, version : {NoText, "2"}]

gpus == {gpu(8), gpu(16)}
noProperties == {none}
=============================================================================
