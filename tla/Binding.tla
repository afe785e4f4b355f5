------------------------------ MODULE Binding ------------------------------
(***************************************************************************)
(* Binding of a request's data to a typed structure: Bind of a JSON body   *)
(* or a WebSocket payload (ctx/binding.go, bindArray and bindMap of        *)
(* ctx/fn.go), of a form, query, header or path parameter                  *)
(* (ctx/binding_str_arr.go) and of uploaded files (ctx/binding_file.go,    *)
(* ctx/http_file.go).                                                      *)
(*                                                                         *)
(* A Go type is a record whose k is its kind.  The integer kinds keep a    *)
(* width; the fifteen numeric kinds of the code are the three families     *)
(* int, uint and float, which is all the code distinguishes.  A JSON value *)
(* is a record whose j is its JSON kind; a number is counted in halves, so *)
(* that truncation shows.  A conversion of a float to an integer it does   *)
(* not fit has no specified result in Go: Unspecified stands for any.      *)
(* A scalar type is named when the program defines it (type Role string):  *)
(* the code switches on the kind and builds values of the built-in type,   *)
(* which reflect refuses to assign to it.  Structures have names, and      *)
(* slices and maps have none.                                              *)
(***************************************************************************)
EXTENDS Integers, Sequences, FiniteSets, SequencesExt, FiniteSetsExt

CONSTANTS
    JSONCases,    \* pairs of a field's type and the value sent under its tag
    FormCases,    \* a field, the strings sent under its tag, and its index
    FileCases,    \* the fields bound to uploads, the uploads, and the hooks
    Unspecified

VARIABLES
    input,        \* what was sent and what it is bound to
    result,       \* what Bind left in the field, NotYet before the call
    pc,           \* where File.Bind is
    todo,         \* DataFiles its current loop has still to visit
    checked,      \* DataFiles IsValid accepted
    stored        \* DataFiles handed to Store

vars == <<input, result, pc, todo, checked, stored>>

Panic == [panic |-> TRUE]

\* The nil that bindArray and bindMap return for an element kind they have no
\* case for: a pointer.
Nil == [nil |-> TRUE]

----------------------------------------------------------------------------
(* Numbers.                                                                 *)

Trunc(h) == IF h >= 0 THEN h \div 2 ELSE -((-h) \div 2)

\* The integers of a kind.
IntsOf(t) == IF t.k = "int" THEN (-(2^(t.w - 1)))..(2^(t.w - 1) - 1) ELSE 0..(2^t.w - 1)

\* int8(f64) and the like.
ConvertF64(h, t) ==
    CASE t.k = "float" -> h
      [] t.k # "float" /\ Trunc(h) \in IntsOf(t) -> Trunc(h)
      [] OTHER -> Unspecified

\* num.F64ToAnyNum, used for a field that is a number or a pointer to one.
F64ToAnyNum(h, t) == IF t.k = "uint" /\ h < 0 THEN 0 ELSE ConvertF64(h, t)

Numeric == {"int", "uint", "float"}
Scalars == Numeric \cup {"bool", "string"}

\* The type assertion of each scalar case: el.(bool), el.(float64), el.(string).
Asserts(x, t) ==
    \/ t.k = "bool" /\ x.j = "bool"
    \/ t.k \in Numeric /\ x.j = "num"
    \/ t.k = "string" /\ x.j = "str"

\* An element of an array or a map also has to be non-negative for uint.
ElemFits(x, t) == Asserts(x, t) /\ (t.k = "uint" => x.h >= 0)

ElemValue(x, t) ==
    CASE x.j = "num" -> ConvertF64(x.h, t)
      [] x.j = "bool" -> x.b
      [] x.j = "str" -> x.v

RECURSIVE Zero(_)
Zero(t) ==
    CASE t.k \in Numeric -> 0
      [] t.k = "bool" -> FALSE
      [] t.k = "string" -> ""
      [] t.k = "slice" -> <<>>
      [] t.k = "map" -> [x \in {} |-> 0]
      [] t.k = "struct" -> [tag \in DOMAIN t.f |-> Zero(t.f[tag])]
      [] t.k \in {"any", "ptr"} -> "nil"

----------------------------------------------------------------------------
(* JSON.  Every operator returns the bound value and the FieldLevels it     *)
(* appended, each with the path its nestedTag spells.                       *)

Bound(x, levels) == [v |-> x, fl |-> levels]

Level(path) == [path |-> path, isVal |-> TRUE]
NoLevel(path) == [path |-> path, isVal |-> FALSE]

\* The value built for the type is of another type: it, or its elements, are
\* of the built-in type of the kind.
Misfit(t) ==
    \/ t.k \in Scalars /\ t.named
    \/ t.k \in {"slice", "map"} /\ t.e.k \in Scalars /\ t.e.named

\* reflect's Set and Append of what was built for a place of type t.
Assign(r, t) == IF r \in {Panic, Nil} \/ Misfit(t) THEN Panic ELSE r

Panics(part) == \E i \in DOMAIN part : part[i] = Panic

\* The parts of a value put together.
Gather(part, x) == Bound(x, UNION {part[i].fl : i \in DOMAIN part})

\* An element's index, as the path spells it.
Index(i) == ToString(i - 1)

RECURSIVE BindArray(_, _, _), BindMap(_, _, _), BindStruct(_, _, _), IterNested(_, _, _, _)

\* bindArray for elements of a scalar kind: one element of another type
\* empties the whole array.
BindScalarArray(arr, t) ==
    IF \A i \in DOMAIN arr : ElemFits(arr[i], t)
    THEN Bound([i \in DOMAIN arr |-> ElemValue(arr[i], t)], {})
    ELSE Bound(<<>>, {})

\* Mutant: only the first nested dimension is counted.
Dimensions_One(t) == IF t.e.k = "slice" THEN 1 ELSE 0

\* The dimensions below a slice of slices, and the type its last one declares.
RECURSIVE Dimensions(_)
Dimensions(t) == IF t.e.k = "slice" THEN 1 + Dimensions(t.e) ELSE 0
RECURSIVE Declared(_)
Declared(t) == IF t.e.k = "slice" THEN Declared(t.e) ELSE t.e

\* The code counts dimensions by the "[]" of the type's name, so a slice inside
\* a map, or behind a pointer, adds one that reflect.MakeSlice cannot make.
RECURSIVE NamesSlice(_)
NamesSlice(t) == t.k \in {"map", "ptr"} /\ (t.e.k = "slice" \/ NamesSlice(t.e))

\* slice.Iter with bindArray's callback over one array, `left` dimensions
\* above the declared elements: a nested array becomes an element when its own
\* elements are done; a scalar of another type is skipped; a value where the
\* type has another dimension, or none left, makes reflect.Append or the index
\* panic, and so does the type of a null.  Nothing is appended for elements
\* that are pointers.
IterNested(arr, left, t, path) ==
    LET one(x) ==
            CASE x.j = "null" -> Panic
              [] x.j = "arr" -> IF left = 0 THEN Panic
                                ELSE LET r == IterNested(x.a, left - 1, t, path)
                                     IN IF r = Panic THEN Panic ELSE Bound(<<r.v>>, r.fl)
              [] x.j = "obj" /\ t.k \in {"map", "struct"} ->
                    IF left > 0 THEN Panic
                    ELSE LET r == IF t.k = "map" THEN Assign(BindMap(x.o, t, path), t)
                                  ELSE BindStruct(x.o, t, path)
                         IN IF r = Panic THEN Panic ELSE Bound(<<r.v>>, r.fl)
              [] t.k \in Scalars /\ ElemFits(x, t) ->
                    IF left > 0 THEN Panic ELSE Assign(Bound(<<ElemValue(x, t)>>, {}), t)
              [] OTHER -> Bound(<<>>, {})
        parts == [i \in DOMAIN arr |-> one(arr[i])]
    IN IF Panics(parts) THEN Panic
       ELSE Gather(parts, FlattenSeq([i \in DOMAIN parts |-> parts[i].v]))

\* Mutant: the path counts the bound elements, not those of the body.
BindObjectArray_Dense(arr, t, path) ==
    LET objs == SelectSeq(arr, LAMBDA x : x.j = "obj")
        part == [i \in DOMAIN objs |->
                    IF t.k = "map" THEN Assign(BindMap(objs[i].o, t, Append(path, Index(i))), t)
                    ELSE BindStruct(objs[i].o, t, Append(path, Index(i)))]
    IN IF Panics(part) THEN Panic ELSE Gather(part, [i \in DOMAIN part |-> part[i].v])

\* bindArray for elements that are maps or structures: elements that are not
\* objects are left out; the path keeps the element's index in the body.
BindObjectArray(arr, t, path) ==
    LET objs == {i \in DOMAIN arr : arr[i].j = "obj"}
        part == [i \in objs |->
                    IF t.k = "map" THEN Assign(BindMap(arr[i].o, t, Append(path, Index(i))), t)
                    ELSE BindStruct(arr[i].o, t, Append(path, Index(i)))]
        order == SetToSortSeq(objs, <)
    IN IF Panics(part) THEN Panic
       ELSE Gather(part, [n \in DOMAIN order |-> part[order[n]].v])

BindArray(arr, t, path) ==
    CASE t.e.k \in Scalars -> BindScalarArray(arr, t.e)
      [] t.e.k = "any" -> Bound(arr, {})
      [] t.e.k = "slice" -> IF NamesSlice(Declared(t)) THEN Panic
                            ELSE IterNested(arr, Dimensions(t), Declared(t), path)
      [] t.e.k \in {"map", "struct"} -> BindObjectArray(arr, t.e, path)
      [] t.e.k = "ptr" -> Nil

BindScalarMap(obj, t) ==
    IF \A key \in DOMAIN obj : ElemFits(obj[key], t)
    THEN Bound([key \in DOMAIN obj |-> ElemValue(obj[key], t)], {})
    ELSE Bound([x \in {} |-> 0], {})

\* bindMap for elements that are slices or structures, and the last level of a
\* map of maps of them: members of another type are left out, and so are those
\* whose value is nil, which SetMapIndex takes for a deletion.
BindMembers(obj, t, path) ==
    LET kind == IF t.k = "slice" THEN "arr" ELSE "obj"
        keys == {key \in DOMAIN obj : obj[key].j = kind}
        part == [key \in keys |->
                    CASE t.k = "slice" -> BindArray(obj[key].a, t, Append(path, key))
                      [] t.k = "map" -> BindMap(obj[key].o, t, Append(path, key))
                      [] t.k = "struct" -> BindStruct(obj[key].o, t, Append(path, key))]
        kept == {key \in keys : part[key] # Nil}
    IN IF Panics(part) \/ (Misfit(t) /\ keys # {}) THEN Panic
       ELSE Gather([key \in kept |-> part[key]], [key \in kept |-> part[key].v])

\* bindMap for a map of maps: objValue.(map[string]any) panics for a member
\* that is not an object; scalars of another type are left out one by one.
\* The path of what lies below names the inner key only.  Inner elements that
\* are pointers have no case, so that no member is even looked at.
BindMapOfMaps(obj, t, path) ==
    LET inner(o) ==
            CASE t.e.k \in Scalars ->
                    LET fit == {key \in DOMAIN o : ElemFits(o[key], t.e)}
                    IN Bound([key \in fit |-> ElemValue(o[key], t.e)], {})
              [] t.e.k = "any" -> Bound(o, {})
              [] OTHER -> BindMembers(o, t.e, path)
    IN IF t.e.k = "ptr" THEN Bound([x \in {} |-> 0], {})
       ELSE IF \E key \in DOMAIN obj : obj[key].j # "obj" \/ Misfit(t) THEN Panic
       ELSE LET part == [key \in DOMAIN obj |-> inner(obj[key].o)]
            IN IF Panics(part) THEN Panic
               ELSE Gather(part, [key \in DOMAIN obj |-> part[key].v])

BindMap(obj, t, path) ==
    CASE t.e.k \in Scalars -> BindScalarMap(obj, t.e)
      [] t.e.k = "any" -> Bound(obj, {})
      [] t.e.k \in {"slice", "struct"} -> BindMembers(obj, t.e, path)
      [] t.e.k = "map" -> BindMapOfMaps(obj, t.e, path)
      [] t.e.k = "ptr" -> Nil

\* A field whose value was bound is set and reported; an unbound one is
\* neither.
SetField(r, t, path) ==
    LET set == Assign(r, t)
    IN IF set = Panic THEN Panic ELSE Bound(set.v, set.fl \cup {Level(path)})

ScalarValue(x, t) == IF x.j = "num" THEN F64ToAnyNum(x.h, t) ELSE ElemValue(x, t)

Unset(t) == Bound(Zero(t), {})

\* A field that is a pointer: null, another type, a second pointer and a nil
\* slice or map leave it nil.
BindPointer(x, t, path) ==
    LET set(r) == IF r = Nil THEN Bound("nil", {}) ELSE SetField(r, t, path)
    IN CASE t.k \in Scalars /\ Asserts(x, t) -> set(Bound(ScalarValue(x, t), {}))
         [] t.k = "any" -> set(Bound(x, {}))
         [] t.k = "slice" /\ x.j = "arr" -> set(BindArray(x.a, t, path))
         [] t.k = "map" /\ x.j = "obj" -> set(BindMap(x.o, t, path))
         [] t.k = "struct" /\ x.j = "obj" -> set(BindStruct(x.o, t, path))
         [] OTHER -> Bound("nil", {})

\* One field of BindStruct whose tag is in the data.
BindField(x, t, path) ==
    LET set(r) == SetField(r, t, path)
    IN CASE t.k \in Scalars ->
                IF Asserts(x, t) THEN set(Bound(ScalarValue(x, t), {})) ELSE Unset(t)
         [] t.k = "any" -> set(IF x.j = "null" THEN Nil ELSE Bound(x, {}))
         [] t.k = "slice" -> IF x.j = "arr" THEN set(BindArray(x.a, t, path)) ELSE Unset(t)
         [] t.k = "map" -> IF x.j = "obj" THEN set(BindMap(x.o, t, path)) ELSE Unset(t)
         [] t.k = "struct" -> IF x.j = "obj" THEN set(BindStruct(x.o, t, path)) ELSE Panic
         [] t.k = "ptr" -> BindPointer(x, t.e, path)

\* A structure is a function from the tags of its fields to their types.
BindStruct(d, t, path) ==
    LET part == [tag \in DOMAIN t.f |->
                    IF tag \in DOMAIN d THEN BindField(d[tag], t.f[tag], Append(path, tag))
                    ELSE Bound(Zero(t.f[tag]), {NoLevel(Append(path, tag))})]
    IN IF Panics(part) THEN Panic
       ELSE Gather(part, [tag \in DOMAIN t.f |-> part[tag].v])

\* Body.Bind and WSPayload.Bind of a structure with the one field f.
BindJSON(sent, x, t) ==
    LET s == [k |-> "struct", f |-> [tag \in {"f"} |-> t]]
        d == [tag \in IF sent THEN {"f"} ELSE {} |-> x]
    IN BindStruct(d, s, <<>>)

----------------------------------------------------------------------------
(* Forms, queries, headers and path parameters.  A string is the number it  *)
(* spells (in halves, n), a word, or the spelling of a Boolean.  The kinds  *)
(* int, int64, uint64, float64 and complex128 are wide: their result is     *)
(* used whatever strconv's error, and strconv returns the nearest value of  *)
(* the type with a range error.                                             *)

Infinity == 1000

Spells(str) == str.s = "num"

\* strconv.ParseInt, ParseUint, Atoi, ParseFloat: value and error.
Parse(str, t) ==
    LET ok(n) == [n |-> n, err |-> FALSE]
        bad(n) == [n |-> n, err |-> TRUE]
        whole == Spells(str) /\ str.n % 2 = 0
        limit == 2 ^ t.w
    IN CASE t.k = "float" /\ Spells(str) ->
                IF str.n \in (-limit)..limit THEN ok(str.n)
                ELSE bad(IF str.n > 0 THEN Infinity ELSE -Infinity)
         [] t.k = "int" /\ whole ->
                IF Trunc(str.n) \in IntsOf(t) THEN ok(Trunc(str.n))
                ELSE bad(IF str.n > 0 THEN Max(IntsOf(t)) ELSE Min(IntsOf(t)))
         [] t.k = "uint" /\ whole /\ str.n >= 0 ->
                IF Trunc(str.n) \in IntsOf(t) THEN ok(Trunc(str.n)) ELSE bad(Max(IntsOf(t)))
         [] OTHER -> bad(0)

\* strconv.ParseBool takes 1 and 0 too.
ParseBool(str) == (str.s = "bool" /\ str.v) \/ (Spells(str) /\ str.n = 2)

StrZero(t) == IF t.k \in {"string", "any"} THEN [s |-> "empty"] ELSE Zero(t)

\* Mutant: the string is parsed with more bits than the field has, and cut.
StrScalar_Cut(str, t) ==
    IF t.k # "int" THEN StrZero(t)
    ELSE ((Parse(str, [t EXCEPT !.w = 8]).n + 2 ^ (t.w - 1)) % 2 ^ t.w) - 2 ^ (t.w - 1)

\* One string bound to a scalar field.
StrScalar(str, t) ==
    CASE t.k = "bool" -> ParseBool(str)
      [] t.k \in {"string", "any"} -> str
      [] t.k \in Numeric ->
            LET p == Parse(str, t) IN IF p.err /\ ~t.wide THEN 0 ELSE p.n

\* slice.StrParseInt and the like: an element with an error is zero.
StrElem(str, t) ==
    CASE t.k = "bool" -> ParseBool(str)
      [] t.k \in {"string", "any"} -> str
      [] t.k \in Numeric -> LET p == Parse(str, t) IN IF p.err THEN 0 ELSE p.n

\* One string after the other, whatever the tag's index.
StrSlice(strs, t) == [n \in DOMAIN strs |-> StrElem(strs[n], t)]

\* GetTagParamIndex: an index below zero, or none, is the first.
GetTagParamIndex(i) == IF i > -1 THEN i ELSE 0

BindStrArr(sent, strs, t, i) ==
    IF ~sent THEN Bound(StrZero(t), {NoLevel(<<"f">>)})
    ELSE LET at == GetTagParamIndex(i) + 1
             x == IF t.k = "slice" THEN StrSlice(strs, t.e)
                  ELSE IF at \in DOMAIN strs THEN StrScalar(strs[at], t)
                  ELSE StrZero(t)
         IN SetField(Bound(x, {}), t, <<"f">>)

----------------------------------------------------------------------------
(* Uploaded files.  A field is bound to a key: one file by its index, or    *)
(* all of them.                                                             *)

\* The files one field takes; none leaves the field nil.
FieldFiles(field, files) ==
    LET sent == IF field.key \in DOMAIN files THEN files[field.key] ELSE <<>>
        at == GetTagParamIndex(field.i) + 1
    IN IF field.k = "slice" THEN sent
       ELSE IF at \in DOMAIN sent THEN <<sent[at]>> ELSE <<>>

\* BindFile's filteredFile: the fields write it one after the other.
BindFile(fields, files) ==
    LET sets(n) == /\ fields[n].key \in DOMAIN files
                   /\ fields[n].k = "slice" \/ FieldFiles(fields[n], files) # <<>>
        writers(key) == {n \in DOMAIN fields : fields[n].key = key /\ sets(n)}
        keys == {key \in DOMAIN files : writers(key) # {}}
    IN [key \in keys |-> FieldFiles(fields[Max(writers(key))], files)]

\* Mutant: the loop ends after one key.
Visits_OneKey(filtered) == {filtered[key] : key \in DOMAIN filtered}

\* A loop over filteredFile visits its keys in any order.
Visits(filtered) ==
    {FlattenSeq([n \in DOMAIN order |-> filtered[order[n]]]) :
        order \in SetToSeqs(DOMAIN filtered)}

Filtered == BindFile(input.fields, input.files)

----------------------------------------------------------------------------

Init ==
    /\ \/ \E c \in JSONCases : input = c
       \/ \E c \in FormCases : input = c
       \/ \E c \in FileCases : input = c
    /\ pc = "call"
    /\ result = Bound("none", {})
    /\ todo = <<>>
    /\ checked = {}
    /\ stored = {}

Return(r) ==
    IF r = Panic THEN pc' = "panic" /\ UNCHANGED result
    ELSE pc' = "done" /\ result' = r

CallBindJSON ==
    /\ pc = "call" /\ input.src = "json"
    /\ Return(BindJSON(input.sent, input.x, input.t))
    /\ UNCHANGED <<input, todo, checked, stored>>

CallBindStrArr ==
    /\ pc = "call" /\ input.src = "form"
    /\ Return(BindStrArr(input.sent, input.strs, input.t, input.i))
    /\ UNCHANGED <<input, todo, checked, stored>>

\* File.Bind: BindFile, then the loop over IsValid if the structure has one.
CallBindFile ==
    /\ pc = "call" /\ input.src = "file"
    /\ \E order \in Visits(Filtered) : todo' = order
    /\ pc' = IF input.validates THEN "validate" ELSE "stores"
    /\ UNCHANGED <<input, result, checked, stored>>

Validate ==
    /\ pc = "validate"
    /\ IF todo = <<>>
       THEN /\ \E order \in Visits(Filtered) : todo' = order
            /\ pc' = "stores" /\ UNCHANGED checked
       ELSE /\ IF Head(todo).valid THEN pc' = pc /\ checked' = checked \cup {Head(todo)}
               ELSE pc' = "bad request" /\ UNCHANGED checked
            /\ todo' = Tail(todo)
    /\ UNCHANGED <<input, result, stored>>

\* Open, Store and Close of one file, if the structure has a Store.
Store ==
    /\ pc = "stores"
    /\ IF todo = <<>> \/ ~input.stores THEN pc' = "done" /\ UNCHANGED <<todo, stored>>
       ELSE /\ IF Head(todo).opens THEN pc' = pc /\ stored' = stored \cup {Head(todo)}
               ELSE pc' = "bad request" /\ UNCHANGED stored
            /\ todo' = Tail(todo)
    /\ UNCHANGED <<input, result, checked>>

Next == CallBindJSON \/ CallBindStrArr \/ CallBindFile \/ Validate \/ Store

Spec == Init /\ [][Next]_vars

----------------------------------------------------------------------------
(* Reference definitions.                                                   *)

\* A value of the type: what encoding/json would decode without an error.
RECURSIVE Fits(_, _)
Fits(x, t) ==
    CASE t.k \in Numeric -> /\ x.j = "num"
                            /\ t.k # "float" => Trunc(x.h) \in IntsOf(t)
                            /\ t.k = "uint" => x.h >= 0
      [] t.k \in {"bool", "string"} -> Asserts(x, t)
      [] t.k = "any" -> x.j # "null"
      [] t.k = "ptr" -> (x.j = "null" /\ t.e.k # "any") \/ Fits(x, t.e)
      [] t.k = "slice" -> x.j = "arr" /\ \A i \in DOMAIN x.a : Fits(x.a[i], t.e)
      [] t.k = "map" -> x.j = "obj" /\ \A key \in DOMAIN x.o : Fits(x.o[key], t.e)
      [] t.k = "struct" -> /\ x.j = "obj"
                           /\ \A tag \in DOMAIN x.o \cap DOMAIN t.f : Fits(x.o[tag], t.f[tag])

\* The value of the type that it is.
RECURSIVE Decode(_, _)
Decode(x, t) ==
    CASE t.k = "float" -> x.h
      [] t.k \in {"int", "uint"} -> Trunc(x.h)
      [] t.k = "bool" -> x.b
      [] t.k = "string" -> x.v
      [] t.k = "any" -> x
      [] t.k = "ptr" -> IF x.j = "null" THEN "nil" ELSE Decode(x, t.e)
      [] t.k = "slice" -> [i \in DOMAIN x.a |-> Decode(x.a[i], t.e)]
      [] t.k = "map" -> [key \in DOMAIN x.o |-> Decode(x.o[key], t.e)]
      [] t.k = "struct" -> [tag \in DOMAIN t.f |->
                              IF tag \in DOMAIN x.o THEN Decode(x.o[tag], t.f[tag])
                              ELSE Zero(t.f[tag])]

\* The types whose values the code carries.  It does not carry four families:
\* named scalars, alone or as elements, are refused by reflect; the elements of
\* a slice or a map that are pointers, and pointers to pointers, are dropped or
\* end in a panic; the scalars of a slice of slices of any are dropped; slices
\* of slices of maps of slices have no dimensions.
RECURSIVE Carried(_)
Carried(t) ==
    CASE t.k \in Scalars -> ~t.named
      [] t.k = "any" -> TRUE
      [] t.k = "struct" -> \A tag \in DOMAIN t.f : Carried(t.f[tag])
      [] OTHER ->
            /\ t.e.k # "ptr" /\ Carried(t.e)
            /\ (t.k = "slice" /\ t.e.k = "slice") =>
                    Declared(t).k # "any" /\ ~NamesSlice(Declared(t))

\* Paths are complete unless a slice of slices or a map of maps lies on them.
RECURSIVE NamesAllKeys(_)
NamesAllKeys(t) ==
    CASE t.k \in {"slice", "map"} -> t.e.k # t.k /\ NamesAllKeys(t.e)
      [] t.k = "ptr" -> NamesAllKeys(t.e)
      [] t.k = "struct" -> \A tag \in DOMAIN t.f : NamesAllKeys(t.f[tag])
      [] OTHER -> TRUE

RECURSIVE Present(_, _)
Present(path, x) ==
    \/ path = <<>>
    \/ /\ x.j = "obj" /\ Head(path) \in DOMAIN x.o
       /\ Present(Tail(path), x.o[Head(path)])
    \/ /\ x.j = "arr"
       /\ \E i \in DOMAIN x.a : Index(i) = Head(path) /\ Present(Tail(path), x.a[i])

----------------------------------------------------------------------------

\* A body whose value fits the field's type, and whose type the code carries,
\* is bound without a panic and to the value it is: nested arrays, maps of maps,
\* pointers and structures lose, reorder and overflow nothing.  Nothing is
\* claimed of the types Carried leaves out, which encoding/json decodes and
\* BindStruct does not: []*T, map[string]*T and a field of a named scalar type
\* panic.  BindStruct, bindArray and bindMap, against a decoder that follows
\* the type alone.
DecodesFitting ==
    (/\ input.src = "json" /\ pc # "call" /\ input.sent
     /\ Fits(input.x, input.t) /\ Carried(input.t)) =>
            /\ pc = "done"
            /\ result.v["f"] = Decode(input.x, input.t)

\* A FieldLevel says that a value was sent exactly when one was sent at the
\* place its nested tag spells, whatever else of the body has another type.
\* Validators tell a missing field from a zero one by it.
LevelsLocate ==
    (input.src = "json" /\ pc = "done" /\ NamesAllKeys(input.t)) =>
        \A l \in result.fl :
            l.isVal <=> /\ input.sent
                        /\ Present(Tail(l.path), input.x)

\* A string that spells a number of the field's type is bound to it; any other
\* leaves zero, or in a wide field the type's limit on the number's side.  No
\* value wraps around, and a missing index leaves zero.  A field of a named
\* scalar type is not bound at all: its Set panics.  BindStrArr and the
\* StrParse functions.
FormNeverWraps ==
    (input.src = "form" /\ pc = "done" /\ input.sent) =>
        LET t == input.t
            exact(str, u) == /\ Spells(str)
                             /\ IF u.k = "float" THEN str.n \in (-(2 ^ u.w))..(2 ^ u.w)
                                ELSE str.n % 2 = 0 /\ str.n \div 2 \in IntsOf(u)
            spelled(str, u) == IF u.k = "float" THEN str.n ELSE str.n \div 2
            right(y, str, u) ==
                \/ exact(str, u) /\ y = spelled(str, u)
                \/ ~exact(str, u) /\ y = 0
                \/ /\ ~exact(str, u) /\ u.wide /\ t.k # "slice" /\ Spells(str)
                   /\ IF str.n > 0 THEN y >= 0 /\ 2 * y <= Max({str.n, 2 * Infinity})
                      ELSE y < 0
                   /\ u.k # "float" => y \in {Max(IntsOf(u)), Min(IntsOf(u))}
            at == IF input.i > 0 THEN input.i + 1 ELSE 1
        IN /\ t.k \in Numeric =>
                IF at <= Len(input.strs) THEN right(result.v, input.strs[at], t)
                ELSE result.v = 0
           /\ (t.k = "slice" /\ t.e.k \in Numeric) =>
                /\ Len(result.v) = Len(input.strs)
                /\ \A n \in DOMAIN input.strs : right(result.v[n], input.strs[n], t.e)

\* A structure that validates its files gets no file that was not accepted, and
\* nothing is stored before all were: unless two fields name one key, when
\* only the files of the later field are looked at.  File.Bind.
FilesChecked ==
    (input.src = "file" /\ input.validates) =>
        /\ stored \subseteq checked
        /\ pc \in {"stores", "done"} =>
            \A n \in DOMAIN input.fields :
                LET taken == FieldFiles(input.fields[n], input.files)
                    shadowed == \E later \in DOMAIN input.fields :
                                    later > n /\ input.fields[later].key = input.fields[n].key
                IN shadowed \/ \A i \in DOMAIN taken : taken[i] \in checked
=============================================================================
