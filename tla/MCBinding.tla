------------------------------ MODULE MCBinding ------------------------------
(***************************************************************************)
(* Types of up to four containers and JSON values of up to three levels    *)
(* over a few scalars; a wide and a narrow kind of each family for forms.  *)
(***************************************************************************)
EXTENDS Binding

TInt == [k |-> "int", w |-> 3, wide |-> FALSE, named |-> FALSE]
TUint == [k |-> "uint", w |-> 2, wide |-> FALSE, named |-> FALSE]
TFloat == [k |-> "float", w |-> 3, wide |-> FALSE, named |-> FALSE]
TBool == [k |-> "bool", named |-> FALSE]
TStr == [k |-> "string", named |-> FALSE]
TAny == [k |-> "any"]
TRole == [TStr EXCEPT !.named = TRUE]
TCount == [TInt EXCEPT !.named = TRUE]
Wide(t) == [t EXCEPT !.wide = TRUE]
Slice(t) == [k |-> "slice", e |-> t]
Map(t) == [k |-> "map", e |-> t]
Ptr(t) == [k |-> "ptr", e |-> t]
Struct(t) == [k |-> "struct", f |-> [tag \in {"a"} |-> t]]

Leaves == {TInt, TUint, TFloat, TBool, TStr, TAny}
Flat == {Slice(t) : t \in Leaves} \cup {Map(t) : t \in Leaves} \cup {Struct(t) : t \in Leaves}
Few == {Slice(TInt), Map(TUint), Struct(TInt), Slice(TAny)}
Deep == {Slice(t) : t \in Few} \cup {Map(t) : t \in Few} \cup {Struct(t) : t \in Few}
Deeper == {Slice(Slice(t)) : t \in Few} \cup {Map(Map(t)) : t \in Few}
              \cup {Slice(Slice(Map(Slice(TInt)))), Map(Slice(Struct(TInt)))}
Shallow == Leaves \cup Flat
\* The families the code does not carry.
Named == {TRole, TCount, Slice(TRole), Map(TCount), Struct(TRole)}
Pointers == {Ptr(TInt), Ptr(Struct(TInt)), Ptr(Slice(TInt))}
Lost == Named \cup {Ptr(t) : t \in Named \cup Pointers}
            \cup {Slice(t) : t \in Pointers} \cup {Map(t) : t \in Pointers}
            \cup {Ptr(Slice(t)) : t \in Pointers} \cup {Ptr(Map(t)) : t \in Pointers}
Odd == {Slice(TCount), Map(TCount), Slice(Ptr(TInt)), Map(Ptr(TInt)), Slice(Ptr(Slice(TInt)))}
LostDeep == {Slice(t) : t \in Odd} \cup {Map(t) : t \in Odd}
AllTypes == Shallow \cup {Ptr(t) : t \in Shallow} \cup Deep \cup Lost

Null == [j |-> "null"]
Num(h) == [j |-> "num", h |-> h]
JTrue == [j |-> "bool", b |-> TRUE]
JStr == [j |-> "str", v |-> "x"]
Arr(a) == [j |-> "arr", a |-> a]
Obj(keys, x) == [j |-> "obj", o |-> [key \in keys |-> x]]
Pair(x, y) == [j |-> "obj", o |-> [key \in {"a", "b"} |-> IF key = "a" THEN x ELSE y]]

Scalar == {Null, Num(-3), Num(3), Num(20), JTrue, JStr}
Lists(S) == {Arr(<<>>)} \cup {Arr(<<x>>) : x \in S} \cup {Arr(<<x, y>>) : x \in S, y \in S}
Objects(S) == {Obj({}, Null)} \cup {Obj({"a"}, x) : x \in S} \cup {Obj({"b"}, x) : x \in S}
                  \cup {Pair(x, y) : x \in S, y \in S}
Level1 == Scalar \cup Lists(Scalar) \cup Objects(Scalar)
Nested == {Arr(<<Num(3)>>), Arr(<<JStr, Num(2)>>), Obj({"a"}, Num(3)), Obj({"b"}, JStr), Num(3), Null}
Level2 == Lists(Nested) \cup Objects(Nested)
Nested2 == {Arr(<<Arr(<<Num(3)>>), Arr(<<>>)>>), Arr(<<Obj({"a"}, Num(3))>>),
            Obj({"a"}, Obj({"b"}, Num(3))), Obj({"a"}, Arr(<<Num(3)>>)), Num(3), Obj({"b"}, Null)}
Level3 == Lists(Nested2) \cup Objects(Nested2)

JSONOf(types, xs) == {[src |-> "json", sent |-> TRUE, t |-> t, x |-> x] : t \in types, x \in xs}
MCJSON == {[src |-> "json", sent |-> FALSE, t |-> t, x |-> Null] : t \in AllTypes}
          \cup JSONOf(AllTypes, Level1)
          \cup JSONOf(Deep \cup LostDeep, Level2) \cup JSONOf(Deeper, Level3)

FormScalars == {TInt, Wide(TInt), TUint, Wide(TUint), TFloat, Wide(TFloat), TBool, TStr, TAny, TRole, TCount}
Strs == {[s |-> "num", n |-> n] : n \in {-40, -2, 0, 2, 3, 40}}
            \cup {[s |-> "bool", v |-> TRUE], [s |-> "word"]}
MCForm == {[src |-> "form", sent |-> TRUE, t |-> t, strs |-> strs, i |-> i] :
              t \in FormScalars \cup {Slice(u) : u \in FormScalars},
              strs \in {<<>>} \cup {<<x>> : x \in Strs} \cup {<<x, y>> : x \in Strs, y \in Strs},
              i \in {-1, 0, 1}}
          \cup {[src |-> "form", sent |-> FALSE, t |-> t, strs |-> <<>>, i |-> 0] : t \in FormScalars}

F(n, valid, opens) == [id |-> n, valid |-> valid, opens |-> opens]
Fields == {[k |-> k, key |-> key, i |-> i] : k \in {"ptr", "slice"}, key \in {"p", "q"}, i \in {0, 1}}
MCFiles ==
    {[src |-> "file", fields |-> <<f, g>>, files |-> files, validates |-> v, stores |-> w] :
        f \in Fields, g \in Fields, v \in BOOLEAN, w \in BOOLEAN,
        files \in {[key \in {"p", "q"} |-> IF key = "p" THEN <<F(1, a, o), F(2, b, TRUE)>>
                                          ELSE <<F(3, TRUE, o)>>] : a \in BOOLEAN, b \in BOOLEAN, o \in BOOLEAN}
                   \cup {[key \in {"p"} |-> <<>>]}}
=============================================================================
