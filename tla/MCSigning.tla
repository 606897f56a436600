------------------------------ MODULE MCSigning -----------------------------
(* Small payloads for Signing.                                             *)
EXTENDS Signing, TLC

order == <<"1", "[0]", "[1]", "_signature", "_tmp", "data", "id", "security", "step">>
names == {order[i] : i \in DOMAIN order}

\* A container with the given entries: a function from keys to values.
tree(node, es) ==
  [p \in {<<>>} \cup UNION {{<<k>> \o q : q \in DOMAIN es[k]} : k \in DOMAIN es} |->
     IF p = <<>> THEN node ELSE es[p[1]][Tail(p)]]

place  == <<"[0]", "[1]">>
list(vs) == tree(List, [k \in {place[i] : i \in DOMAIN vs} |-> vs[CHOOSE i \in DOMAIN vs : place[i] = k]])
dict(ks, es)  == tree(Dict(ks, {}), es)
model(es) == tree(Model, es)
one(k, v) == [x \in {k} |-> v]
atom(a)   == Leaf(Atom(a))

leaf == {atom(a) : a \in {"null", "one", "one.0", "half", "big.0", "nan", "obj", "text", "zero.0"}}
some == {Null, atom("one"), atom("one.0"), atom("text")}

\* Containers of one level, and nested ones up to and beyond the limit; the
\* key 1 is a string or a number.
flat   == {list(<<v>>) : v \in some} \cup {tree(Dict(<<"1">>, {"1"}), one("1", v)) : v \in some}
            \cup {list(<<>>), dict(<<>>, <<>>), dict(<<"id", "1">>, one("id", atom("one")) @@ one("1", Null)),
                  list(<<atom("one"), Null>>), dict(<<"1">>, one("1", atom("one")))}
nested == {list(<<v>>) : v \in flat} \cup {dict(<<"data">>, one("data", v)) : v \in flat}
            \cup {model([id |-> atom("text"), data |-> v, step |-> atom("zero")]) :
                    v \in {Null, atom("one.0"), list(<<Null>>)}}
            \cup {model([id |-> atom("text"), _tmp |-> atom("one")]), model([id |-> atom("obj")]),
                 model([id |-> atom("obj"), _tmp |-> atom("one")])}

values == leaf \cup flat \cup nested

\* Some that the model's fields cannot hold.
illTyped == {dict(<<"id", "step">>, [id |-> i, step |-> s]) :
               i \in {atom("text"), atom("one"), list(<<>>)}, s \in {atom("one.0"), atom("half"), atom("text")}}
            \cup {dict(<<"id", "security">>, [id |-> atom("text"), security |-> v]) :
                    v \in {Null, atom("one"), dict(<<>>, <<>>)}}
            \cup {model([id |-> i, data |-> Null, step |-> s, security |-> Null, _tmp |-> Null]) :
                    i \in {atom("text"), Null, atom("obj")}, s \in {atom("one"), atom("text")}}

dicts  == {dict(<<"id", "data">>, [id |-> atom("text"), data |-> v]) : v \in values}
            \cup {dict(<<"step", "id", "data">>, [step |-> s, id |-> atom("text"), data |-> v]) :
                    v \in values, s \in {atom("zero"), atom("one")}}
            \cup {dict(<<"data">>, one("data", v)) : v \in leaf}
models == {model([id |-> atom("text"), data |-> v, step |-> s, security |-> Null, _tmp |-> atom("text")]) :
             v \in values, s \in {atom("zero"), atom("one")}}
lists  == {list(<<>>), list(<<atom("text")>>), list(<<atom("text"), atom("text")>>)} \cup leaf

payloads == dicts \cup models \cup lists \cup illTyped

\* What arrives instead: other data, data beyond the limits, other payloads.
data     == some \cup {atom("big.0"), list(<<>>), list(<<atom("text")>>), list(<<Null>>)} \cup
            {list(<<list(<<list(<<>>)>>)>>), dict(<<"1">>, one("1", Null)), dict(<<"id">>, one("id", Null)),
             dict(<<"id", "data">>, [id |-> atom("text"), data |-> atom("one")]),
             dict(<<"id", "data">>, [id |-> atom("text"), data |-> list(<<list(<<atom("one")>>)>>)]),
             dict(<<"id", "step">>, [id |-> atom("text"), step |-> atom("half")])}
ignores  == {{}, {"step"}}
=============================================================================
