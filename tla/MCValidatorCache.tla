--------------------------- MODULE MCValidatorCache -------------------------
(* A small instance of ValidatorCache: a and a2 are one schema written in  *)
(* two key orders, b is another, x does not compile.                       *)
EXTENDS ValidatorCache, TLC

CONSTANTS t1, t2, d1, d2

mcSchemas == {"empty", "a", "a2", "b", "x"}
mcKey     == [s \in mcSchemas |-> CASE s = "empty"       -> NoValidator
                                    [] s \in {"a", "a2"} -> "ka"
                                    [] s = "b"           -> "kb"
                                    [] s = "x"           -> "kx"]
mcValid   == "ka" :> {d1} @@ "kb" :> {d2} @@ "kx" :> {}
=============================================================================
