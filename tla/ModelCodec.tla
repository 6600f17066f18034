----------------------------- MODULE ModelCodec -----------------------------
(***************************************************************************)
(* The generated model codec of acapy_backchannel/models: every model      *)
(* class has a to_dict (encode) and a from_dict (decode) built from the    *)
(* same few per-field patterns.  This module states those patterns once,   *)
(* over an abstract JSON value domain; Models.tla gives each class's field *)
(* table.                                                                  *)
(*                                                                         *)
(* A JSON object (a dict) is a TLA+ function from wire keys (strings) to   *)
(* abstract values.  The values a model field can hold on the wire are     *)
(* abstracted to what decoding tells apart: a string, null, an enum        *)
(* literal that is a member of the enum or one that is not, a JSON object  *)
(* accepted by a nested model, an empty and a non-empty array.  Nested     *)
(* models are abstracted to the value Obj: their own codec is checked as   *)
(* a model of its own.                                                     *)
(***************************************************************************)
LOCAL INSTANCE FiniteSets
LOCAL INSTANCE Sequences
LOCAL INSTANCE Functions
LOCAL INSTANCE TLC

\* The UNSET sentinel of acapy_backchannel.types: "not provided".
UNSET == "UNSET"
\* JSON null / Python None.
Null == "null"
\* Two distinct JSON strings, so that a stale value differs from a new one.
Str == {"s1", "s2"}
\* An enum field's value: a literal of the enum class, and a string that
\* is not one.
Lit == "lit"
BadLit == "badlit"
\* A JSON object that the nested model's from_dict accepts.
Obj == "obj"
\* Empty and non-empty JSON arrays (of strings or of nested-model objects).
Arr0 == "arr0"
Arr1 == "arr1"

JsonValues == Str \cup {Null, Lit, BadLit, Obj, Arr0, Arr1}

\* What decoding turns them into on the Python side: the enum member
\* E(lit), the nested model instance X.from_dict(obj), and lists of such
\* instances.  Strings, None and List[str] are kept as they are.
Member == "Member"
Instance == "Instance"
Items0 == "Items0"
Items1 == "Items1"

\* The exceptions from_dict can raise.
Errors == {"KeyError", "ValueError", "AttributeError", "TypeError"}

(***************************************************************************)
(* Field kinds, one per generated pattern:                                 *)
(*   "plain"     str/int/bool/Dict[str, Any]: d.pop(k) or d.pop(k, UNSET)  *)
(*   "strlist"   List[str]: cast(List[str], d.pop(...))                     *)
(*   "enum"      an Enum subclass: Enum(d.pop(k)) / .value                 *)
(*   "model"     a nested model: X.from_dict(...) / .to_dict()             *)
(*   "nullmodel" Optional[X]: required key, None kept, else X.from_dict    *)
(*   "modellist" List[X]: a loop over `_x or []` building a list           *)
(* A field: attr is the Python attribute, key its wire key, req whether    *)
(* the annotation lacks Union[Unset, ...], nullable whether it admits None.*)
(* A model: its fields in declared order, and the type of the values of    *)
(* its additional_properties ("any", "model" or "strlist").                *)
(***************************************************************************)
Kinds == {"plain", "strlist", "enum", "model", "nullmodel", "modellist"}
ExtraKinds == {"any", "model", "strlist"}

Field(a, k, kind, req, nullable) ==
    [attr |-> a, key |-> k, kind |-> kind, req |-> req, nullable |-> nullable]

Model(fields, extra) == [fields |-> fields, extra |-> extra]

Keys(s) == {s.fields[i].key : i \in DOMAIN s.fields}

(***************************************************************************)
(* The values an instance attribute may hold after from_dict or after an   *)
(* assignment its annotation allows.                                       *)
(***************************************************************************)
InstanceValues(f) ==
    CASE f.kind = "plain"     -> Str \cup {Null} \cup (IF f.req THEN {} ELSE {UNSET})
      [] f.kind = "strlist"   -> {Arr0, Arr1, Null} \cup (IF f.req THEN {} ELSE {UNSET})
      [] f.kind = "enum"      -> {Member} \cup (IF f.req THEN {} ELSE {UNSET})
      [] f.kind = "model"     -> {Instance} \cup (IF f.req THEN {} ELSE {UNSET})
      [] f.kind = "nullmodel" -> {Instance, Null}
      [] f.kind = "modellist" -> {Items0, Items1} \cup (IF f.req THEN {} ELSE {UNSET})

\* What a caller may assign to the attribute: its annotation's types.
AssignValues(f) ==
    CASE f.kind = "plain" ->
            Str \cup (IF f.nullable THEN {Null} ELSE {})
                \cup (IF f.req THEN {} ELSE {UNSET})
      [] f.kind = "strlist" -> {Arr0, Arr1} \cup (IF f.req THEN {} ELSE {UNSET})
      [] OTHER -> InstanceValues(f)

\* Wire values of an additional property, and what decoding keeps of them.
ExtraWire(x) ==
    CASE x = "any" -> Str \cup {Null}
      [] x = "model" -> {Obj, Null}
      [] x = "strlist" -> {Arr1, Null}

ExtraValues(x) ==
    CASE x = "any" -> Str \cup {Null}
      [] x = "model" -> {Instance}
      [] x = "strlist" -> {Arr1, Null}

(***************************************************************************)
(* Well-formed wire objects: a valid value for each kind, and the object  *)
(* with only the required keys (full = FALSE) or with every declared key. *)
(***************************************************************************)
\* The empty JSON object {}.
EmptyDict == [k \in {} |-> Null]

ValidWire(f) ==
    CASE f.kind = "plain" -> "s1"
      [] f.kind = "strlist" -> Arr1
      [] f.kind = "enum" -> Lit
      [] f.kind \in {"model", "nullmodel"} -> Obj
      [] f.kind = "modellist" -> Arr1

WireChoices(f) ==
    CASE f.kind = "plain" -> {"s1", Null}
      [] f.kind = "strlist" -> {Arr1, Null}
      [] f.kind = "enum" -> {Lit, BadLit, Null}
      [] f.kind \in {"model", "nullmodel"} -> {Obj, Null}
      [] f.kind = "modellist" -> {Arr0, Arr1, Null}

FieldAt(s, k) == s.fields[CHOOSE i \in DOMAIN s.fields : s.fields[i].key = k]

Base(s, full) ==
    LET ks == {s.fields[i].key : i \in {j \in DOMAIN s.fields : full \/ s.fields[j].req}}
    IN [k \in ks |-> ValidWire(FieldAt(s, k))]

(***************************************************************************)
(* from_dict, per field.  `present` is whether the key is in the dict and  *)
(* w its value.  The result is the attribute value or an exception name.   *)
(***************************************************************************)
\* Mutant of DecodeScalar: an optional field popped without its UNSET
\* default, d.pop("alias").
DecodeScalarNoDefault(f, present, w) ==
    IF present THEN w ELSE "KeyError"

\* name = d.pop("name") / alias = d.pop("alias", UNSET); also the cast of
\* a List[str] field, which does not look at the value.
DecodeScalar(f, present, w) ==
    IF present THEN w ELSE IF f.req THEN "KeyError" ELSE UNSET

\* p_type = E(d.pop("p_type")): the Enum constructor rejects a non-member.
DecodeEnum(f, present, w) ==
    CASE ~present -> IF f.req THEN "KeyError" ELSE UNSET
      [] w = Lit -> Member
      [] OTHER -> "ValueError"

\* X.from_dict(v) starts with v.copy() and then pops string keys: None and
\* strings have no copy(), a list's pop() takes no string.
FromDictOf(w) ==
    CASE w = Obj -> Instance
      [] w \in {Arr0, Arr1} -> "TypeError"
      [] OTHER -> "AttributeError"

\* x = X.from_dict(d.pop("x")) / guarded by isinstance(_x, Unset).
DecodeModel(f, present, w) ==
    IF present THEN FromDictOf(w) ELSE IF f.req THEN "KeyError" ELSE UNSET

\* taa_accepted = None; _x = d.pop("x"); if _x is not None: X.from_dict(_x)
DecodeNullableModel(f, present, w) ==
    CASE ~present -> "KeyError"
      [] w = Null -> Null
      [] OTHER -> FromDictOf(w)

\* Mutant of DecodeModelList: the List[str] pattern, cast(List[X], ...),
\* applied to a list of models, which keeps the raw dicts.
DecodeModelListAsCast(f, present, w) ==
    IF present THEN w ELSE IF f.req THEN "KeyError" ELSE UNSET

\* x = []; for item in d.pop("x") (required) or in `_x or []` (optional):
\* absent, null and [] all give [] when optional; a required null is
\* iterated and fails; iterating a string or an object yields strings,
\* which X.from_dict rejects.
DecodeModelList(f, present, w) ==
    CASE ~present -> IF f.req THEN "KeyError" ELSE Items0
      [] w = Null -> IF f.req THEN "TypeError" ELSE Items0
      [] w = Arr0 -> Items0
      [] w = Arr1 -> Items1
      [] OTHER -> "AttributeError"

DecodeField(f, m) ==
    LET present == f.key \in DOMAIN m
        w == IF present THEN m[f.key] ELSE UNSET
    IN CASE f.kind \in {"plain", "strlist"} -> DecodeScalar(f, present, w)
         [] f.kind = "enum" -> DecodeEnum(f, present, w)
         [] f.kind = "model" -> DecodeModel(f, present, w)
         [] f.kind = "nullmodel" -> DecodeNullableModel(f, present, w)
         [] f.kind = "modellist" -> DecodeModelList(f, present, w)

\* A typed additional_properties map decodes every remaining value.
DecodeExtra(x, w) ==
    IF x = "model" THEN FromDictOf(w) ELSE w

(***************************************************************************)
(* from_dict of a whole model: d = src_dict.copy(); the declared fields    *)
(* are popped in order (the first exception propagates); what is left of   *)
(* d becomes additional_properties.                                        *)
(***************************************************************************)
NoInstance == [fields |-> <<>>, extras |-> <<>>]

Decode(s, m) ==
    LET vals == [i \in DOMAIN s.fields |-> DecodeField(s.fields[i], m)]
        bad == {i \in DOMAIN vals : vals[i] \in Errors}
        rest == Restrict(m, DOMAIN m \ Keys(s))
        extras == [k \in DOMAIN rest |-> DecodeExtra(s.extra, rest[k])]
        badExtra == {k \in DOMAIN extras : extras[k] \in Errors}
        first == CHOOSE i \in bad : \A j \in bad : i <= j
    IN CASE bad # {} -> [err |-> vals[first], inst |-> NoInstance]
         [] badExtra # {} ->
               [err |-> extras[CHOOSE k \in badExtra : TRUE], inst |-> NoInstance]
         [] OTHER -> [err |-> "none", inst |-> [fields |-> vals, extras |-> extras]]

(***************************************************************************)
(* to_dict: each attribute is converted (enum to .value, nested model to   *)
(* .to_dict(), list element-wise); field_dict starts as a copy of          *)
(* additional_properties, the required fields are written over it, then    *)
(* every optional field that is not UNSET.                                 *)
(***************************************************************************)
\* enum: self.x.value; model: self.x.to_dict(); nullmodel:
\* `self.x.to_dict() if self.x else None`; modellist: a list of the
\* items' to_dict(); plain and List[str] fields are written as they are.
EncodeValue(v) ==
    CASE v = Member -> Lit
      [] v = Instance -> Obj
      [] v = Items0 -> Arr0
      [] v = Items1 -> Arr1
      [] OTHER -> v

EncodeField(f, v) ==
    IF f.kind \in {"plain", "strlist"} THEN v ELSE EncodeValue(v)

\* `if x is not UNSET: field_dict[k] = x`; required fields always.
Emitted(f, v) == f.req \/ v # UNSET

\* Mutant of Encode: field_dict not seeded with additional_properties.
EncodeNoExtras(s, inst) ==
    LET out == {i \in DOMAIN s.fields : Emitted(s.fields[i], inst.fields[i])}
        outKeys == {s.fields[i].key : i \in out}
        at(k) == CHOOSE i \in out : s.fields[i].key = k
    IN [k \in outKeys |-> EncodeField(s.fields[at(k)], inst.fields[at(k)])]

\* Mutant of Encode: additional_properties merged after the fields, so a
\* stale extra overwrites the attribute with the same wire key.
EncodeExtrasLast(s, inst) ==
    LET out == {i \in DOMAIN s.fields : Emitted(s.fields[i], inst.fields[i])}
        outKeys == {s.fields[i].key : i \in out}
        at(k) == CHOOSE i \in out : s.fields[i].key = k
    IN [k \in DOMAIN inst.extras \cup outKeys |->
            IF k \in DOMAIN inst.extras THEN EncodeValue(inst.extras[k])
            ELSE EncodeField(s.fields[at(k)], inst.fields[at(k)])]

Encode(s, inst) ==
    LET out == {i \in DOMAIN s.fields : Emitted(s.fields[i], inst.fields[i])}
        outKeys == {s.fields[i].key : i \in out}
        at(k) == CHOOSE i \in out : s.fields[i].key = k
    IN [k \in DOMAIN inst.extras \cup outKeys |->
            IF k \in outKeys THEN EncodeField(s.fields[at(k)], inst.fields[at(k)])
                             ELSE EncodeValue(inst.extras[k])]

=============================================================================
