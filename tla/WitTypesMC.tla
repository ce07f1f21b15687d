----------------------------- MODULE WitTypesMC -----------------------------
(***************************************************************************)
(* The instance of WitTypes for TLC: three names, two of which have one    *)
(* Fajar name, and items that define and use them in every way.            *)
(***************************************************************************)
EXTENDS WitTypes

CONSTANTS a, b, c, A, C, read, write, exec, u8

MCName == {a, b, c}
MCPascalCase == [n \in MCName |-> IF n = c THEN C ELSE A]

RefTo(kind, name, args) == [kind |-> kind, name |-> name, args |-> args]
Primitive == RefTo("primitive", u8, <<>>)
Absent == RefTo("absent", None, <<>>)
NamedRef(n) == RefTo("named", n, <<>>)
Simple == {Primitive, Absent} \union {NamedRef(n) : n \in MCName}
Compound == {RefTo("own", None, <<NamedRef(a)>>), RefTo("list", None, <<NamedRef(b)>>),
             RefTo("result", None, <<NamedRef(a), Absent>>)}
MCRef == Simple \union Compound

Def(kind, n, members) == [kind |-> kind, name |-> n, members |-> members]
Alias(n, ref) == [kind |-> "alias", name |-> n, target |-> ref]
Use(n, m) == [kind |-> "use", name |-> n, as |-> m]
MCItem ==
    {Def("record", a, <<>>), Def("resource", a, <<>>),
     Def("flags", b, <<read, write>>), Def("flags", b, <<write, read, exec>>),
     Alias(c, RefTo("own", None, <<NamedRef(a)>>)), Alias(c, RefTo("list", None, <<NamedRef(b)>>)),
     Alias(b, RefTo("result", None, <<NamedRef(a), Absent>>)), Alias(a, NamedRef(c)),
     Use(a, b), Use(b, c), Use(c, a)}
=============================================================================
