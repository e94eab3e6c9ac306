------------------------------ MODULE WrittenForms ------------------------------
(***************************************************************************)
(* The forms of annotations and declarations, as the instances write them. *)
(***************************************************************************)
EXTENDS Sequences

Primitive(name) == [kind |-> "primitive", name |-> name]
Number == Primitive("number")
String == Primitive("string")
Null == Primitive("null")
Lit(value) == [kind |-> "literal", base |-> "string", value |-> value]
ArrayOf(of) == [kind |-> "array", of |-> of]
UnionOf(of) == [kind |-> "union", of |-> of]
Both(of) == [kind |-> "intersection", of |-> of]
Nullable(of) == UnionOf(<<of, Null>>)

Apply_(name, args) == [kind |-> "name", name |-> name, args |-> args]
Name(name) == Apply_(name, << >>)

Field(name, of) == [name |-> name, optional |-> FALSE, method |-> FALSE, of |-> of]
MaybeField(name, of) == [Field(name, of) EXCEPT !.optional = TRUE]
MethodOf(name, of) == [Field(name, of) EXCEPT !.method = TRUE]
Shape(members) == [kind |-> "object", members |-> members]

Param(of) == [of |-> of, optional |-> FALSE, rest |-> FALSE]
OptionalParam(of) == [Param(of) EXCEPT !.optional = TRUE]
RestParam(of) == [Param(of) EXCEPT !.rest = TRUE]
Arrow(params, returns) ==
    [kind |-> "function", binders |-> << >>, params |-> params, returns |-> returns]
GenericArrow(binders, params, returns) == [Arrow(params, returns) EXCEPT !.binders = binders]

NoForm == [kind |-> "none"]
TypeParam(name) == [name |-> name, id |-> name, bound |-> NoForm, default |-> NoForm]
Extends(name, bound) == [TypeParam(name) EXCEPT !.bound = bound]
Defaults(name, default) == [TypeParam(name) EXCEPT !.default = default]

Declare(body) == [params |-> << >>, body |-> body]
Generic(params, body) == [params |-> params, body |-> body]
=============================================================================
