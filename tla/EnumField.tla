---------------------------- MODULE EnumField ----------------------------
(*************************************************************************)
(* One enum-valued field of a model instance over its life: a member is  *)
(* assigned (the attrs field), to_dict writes `self.f.value`, and         *)
(* from_dict rebuilds the field from a JSON string with `X(d.pop("f"))`. *)
(* The class varies over the 32 classes of Enums; the strings read are   *)
(* the class's literals, the wire string just written, and the probes.  *)
(*************************************************************************)
EXTENDS Enums

CONSTANTS
    Classes,    \* names of the enum classes checked (a subset of DOMAIN AllEnums)
    Probes      \* strings outside the literals a JSON body may hold

VARIABLES
    cls,        \* the field's class
    set,        \* the member last assigned, or NoMember
    wire,       \* the string to_dict wrote, or NoText
    raw,        \* the string from_dict read, or NoText
    field,      \* the member from_dict built, or NoMember
    exc         \* "none", or the exception from_dict raised

vars == <<cls, set, wire, raw, field, exc>>

NoMember == Member("", "")
NoText == "<none>"

TypeOK ==
    /\ cls \in Classes
    /\ set \in {NoMember} \cup {AllEnums[cls][i] : i \in DOMAIN AllEnums[cls]}
    /\ field \in {NoMember} \cup {AllEnums[cls][i] : i \in DOMAIN AllEnums[cls]}
    /\ exc \in {"none", "ValueError"}

Init ==
    /\ cls \in Classes
    /\ set = NoMember /\ wire = NoText /\ raw = NoText
    /\ field = NoMember /\ exc = "none"

\* Construction or attribute assignment with a member of the class.
SetAttr ==
    \E c \in Classes : \E i \in DOMAIN AllEnums[c] :
        /\ cls' = c /\ set' = AllEnums[c][i]
        /\ wire' = NoText /\ raw' = NoText /\ field' = NoMember /\ exc' = "none"

\* to_dict: `f = self.f.value` and field_dict["f"] = f.
ToDict ==
    /\ set # NoMember
    /\ wire' = Value(set)
    /\ UNCHANGED <<cls, set, raw, field, exc>>

\* from_dict: `f = X(d.pop("f"))` on the string s of the JSON body.
FromDict ==
    \E s \in Literals(AllEnums[cls]) \cup Probes \cup ({wire} \ {NoText}) :
        LET r == Construct(AllEnums[cls], s) IN
        /\ raw' = s
        /\ field' = IF r.ok THEN r.member ELSE NoMember
        /\ exc' = IF r.ok THEN "none" ELSE r.err
        /\ UNCHANGED <<cls, set, wire>>

Next == SetAttr \/ ToDict \/ FromDict

Spec == Init /\ [][Next]_vars

\* What to_dict writes for an assigned member, read back by from_dict, is
\* that same member: no alias or name/value mix-up loses it.
MemberRoundTrip ==
    (wire # NoText /\ raw = wire) => field = set

=============================================================================
