---------------------------- MODULE ModelInstance ----------------------------
(***************************************************************************)
(* The life of one instance of a generated model class: it is built by     *)
(* from_dict from a JSON object (a response body), changed by attribute    *)
(* assignment and by the additional-properties item protocol               *)
(* (__setitem__, __delitem__), and written out by to_dict (a request       *)
(* body).  Each from_dict starts a fresh instance.                         *)
(*                                                                         *)
(* The JSON objects offered to from_dict are bounded: starting from the    *)
(* object with only the required keys, or with every declared key, at one  *)
(* declared key at a time the value is replaced by each value of its kind  *)
(* (including null) or the key is dropped, and at most one undeclared key  *)
(* is added.  Decoding treats the declared keys one at a time and the      *)
(* undeclared ones together, so these objects reach every per-key case    *)
(* and every way a key's value meets the additional properties.           *)
(***************************************************************************)
EXTENDS Models, Naturals
LOCAL INSTANCE Functions
LOCAL INSTANCE TLC

CONSTANTS
    ModelNames,     \* the model classes checked, a subset of DOMAIN AllModels
    ExtraKeys,      \* undeclared wire keys, e.g. {"foo"}
    MaxMutations    \* per class, the bound on assignments and item changes

ASSUME ModelNames \subseteq DOMAIN AllModels
ASSUME MaxMutations \in [ModelNames -> Nat]

VARIABLES
    model,      \* the class of the instance
    phase,      \* "idle" before any from_dict, "live" or "failed" after one
    src,        \* the dict given to the last from_dict
    err,        \* the exception that from_dict raised, or "none"
    obj,        \* the instance: [fields |-> attribute values, extras |-> ...]
    muts,       \* changes made to the instance since from_dict
    encoded,    \* whether to_dict has been called since from_dict
    sent,       \* the instance as it was at the last to_dict
    out         \* the dict the last to_dict returned

vars == <<model, phase, src, err, obj, muts, encoded, sent, out>>

Cls == AllModels[model]

(***************************************************************************)
(* The JSON objects offered to from_dict.                                  *)
(***************************************************************************)
\* The key of f set to w, or removed when w is UNSET.
Vary(m, f, w) ==
    IF w = UNSET THEN Restrict(m, DOMAIN m \ {f.key}) ELSE (f.key :> w) @@ m

Variants(s) ==
    IF s.fields = <<>> THEN {EmptyDict}
    ELSE UNION {{Vary(Base(s, full), s.fields[i], w) :
                   w \in WireChoices(s.fields[i]) \cup {UNSET}} :
                 full \in BOOLEAN, i \in DOMAIN s.fields}

Inputs(s) ==
    UNION {{m} \cup {(k :> v) @@ m : k \in ExtraKeys, v \in ExtraWire(s.extra)} :
             m \in Variants(s)}

(***************************************************************************)
(* Operations.                                                             *)
(***************************************************************************)
Init ==
    /\ model \in ModelNames
    /\ phase = "idle"
    /\ src = EmptyDict
    /\ err = "none"
    /\ obj = NoInstance
    /\ muts = 0
    /\ encoded = FALSE
    /\ sent = NoInstance
    /\ out = EmptyDict

\* cls.from_dict(src_dict): a new instance, or the exception it raises.
FromDict ==
    \E m \in Inputs(Cls) :
        LET r == Decode(Cls, m) IN
        /\ src' = m
        /\ err' = r.err
        /\ obj' = r.inst
        /\ phase' = IF r.err = "none" THEN "live" ELSE "failed"
        /\ muts' = 0
        /\ encoded' = FALSE
        /\ sent' = NoInstance
        /\ out' = EmptyDict
        /\ UNCHANGED model

\* instance.to_dict()
ToDict ==
    /\ phase = "live"
    /\ out' = Encode(Cls, obj)
    /\ sent' = obj
    /\ encoded' = TRUE
    /\ UNCHANGED <<model, phase, src, err, obj, muts>>

\* instance.<attr> = v, for a value the attribute's annotation admits.
SetAttr ==
    /\ phase = "live"
    /\ muts < MaxMutations[model]
    /\ \E i \in DOMAIN Cls.fields :
         \E v \in AssignValues(Cls.fields[i]) \ {obj.fields[i]} :
            obj' = [obj EXCEPT !.fields[i] = v]
    /\ muts' = muts + 1
    /\ UNCHANGED <<model, phase, src, err, encoded, sent, out>>

\* instance[key] = value: additional_properties[key] = value.
SetItem ==
    /\ phase = "live"
    /\ muts < MaxMutations[model]
    /\ \E k \in Keys(Cls) \cup ExtraKeys, v \in ExtraValues(Cls.extra) :
         obj' = [obj EXCEPT !.extras = (k :> v) @@ @]
    /\ muts' = muts + 1
    /\ UNCHANGED <<model, phase, src, err, encoded, sent, out>>

\* del instance[key]: del additional_properties[key] (KeyError if absent,
\* so only present keys are deleted).
DelItem ==
    /\ phase = "live"
    /\ muts < MaxMutations[model]
    /\ \E k \in DOMAIN obj.extras :
         obj' = [obj EXCEPT !.extras = Restrict(@, DOMAIN @ \ {k})]
    /\ muts' = muts + 1
    /\ UNCHANGED <<model, phase, src, err, encoded, sent, out>>

Next == FromDict \/ ToDict \/ SetAttr \/ SetItem \/ DelItem

Spec == Init /\ [][Next]_vars

(***************************************************************************)
(* Properties.                                                             *)
(***************************************************************************)
InstanceOK(s, x) ==
    /\ DOMAIN x.fields = DOMAIN s.fields
    /\ \A i \in DOMAIN s.fields : x.fields[i] \in InstanceValues(s.fields[i])
    /\ \A k \in DOMAIN x.extras : x.extras[k] \in ExtraValues(s.extra)

TypeOK ==
    /\ model \in ModelNames
    /\ phase \in {"idle", "live", "failed"}
    /\ err \in Errors \cup {"none"}
    /\ \A k \in DOMAIN src : src[k] \in JsonValues
    /\ phase = "live" => InstanceOK(Cls, obj)
    /\ muts \in 0..MaxMutations[model]
    /\ encoded \in BOOLEAN
    /\ encoded => /\ InstanceOK(Cls, sent)
                  /\ \A k \in DOMAIN out : out[k] \in JsonValues

\* The optional List[X] fields: from_dict gives [] for absent, null and [].
OptionalListKeys(s) ==
    {s.fields[i].key : i \in {j \in DOMAIN s.fields :
                                 s.fields[j].kind = "modellist" /\ ~s.fields[j].req}}

\* src as to_dict writes it back: unchanged but for the optional model lists,
\* which come back as [] when they were absent or null.
Canonical(s, m) ==
    [k \in DOMAIN m \cup OptionalListKeys(s) |->
        IF k \in OptionalListKeys(s) /\ (k \notin DOMAIN m \/ m[k] = Null)
        THEN Arr0 ELSE m[k]]

(***************************************************************************)
(* RoundTrip (spec 4.3, round-trip law, with the code's list policy): the  *)
(* to_dict of an instance that from_dict built and nobody changed is the   *)
(* source object: every declared key under the same wire key with the same *)
(* value, every undeclared key kept verbatim, no key for an omitted field, *)
(* except that an omitted or null optional List[X] comes back as [].       *)
(***************************************************************************)
RoundTrip ==
    encoded /\ muts = 0 => out = Canonical(Cls, src)

(***************************************************************************)
(* SpecRoundTrip (spec 4.3 and 8, as written): encode(decode(m)) = m for   *)
(* every m that from_dict accepts.                                         *)
(***************************************************************************)
SpecRoundTrip ==
    encoded /\ muts = 0 => out = src

MissingRequired(s, m) ==
    \E i \in DOMAIN s.fields : s.fields[i].req /\ s.fields[i].key \notin DOMAIN m

BadEnum(s, m) ==
    \E i \in DOMAIN s.fields :
        /\ s.fields[i].kind = "enum"
        /\ s.fields[i].key \in DOMAIN m
        /\ m[s.fields[i].key] # Lit

HasNull(m) == \E k \in DOMAIN m : m[k] = Null

(***************************************************************************)
(* DecodeContract (spec 4.3 and 7): from_dict fails on a missing required  *)
(* key and on an enum value outside the enum, never substituting a        *)
(* default, and accepts every object whose required keys are present and  *)
(* whose values are of their declared types.  (Objects holding null are   *)
(* the subject of NullAccepted.)                                           *)
(***************************************************************************)
DecodeContract ==
    phase # "idle" =>
        /\ MissingRequired(Cls, src) \/ BadEnum(Cls, src) => phase = "failed"
        /\ ~MissingRequired(Cls, src) /\ ~BadEnum(Cls, src) /\ ~HasNull(src)
             => phase = "live"

NullOptionalKeys(s, m) ==
    {s.fields[i].key : i \in {j \in DOMAIN s.fields :
                                 /\ ~s.fields[j].req
                                 /\ s.fields[j].kind # "enum"
                                 /\ s.fields[j].key \in DOMAIN m
                                 /\ m[s.fields[j].key] = Null}}

(***************************************************************************)
(* NullAccepted (spec 3, Omittable Value and 9): an explicit null for an   *)
(* omittable field is a value distinct from "not provided": from_dict      *)
(* accepts it and to_dict writes it back as null.                          *)
(***************************************************************************)
NullAccepted ==
    phase # "idle" /\ ~MissingRequired(Cls, src) /\ ~BadEnum(Cls, src)
        => /\ phase = "live"
           /\ encoded /\ muts = 0 =>
                \A k \in NullOptionalKeys(Cls, src) : out[k] = Null

\* An additional property that reuses the wire key of an unset attribute.
Shadows(s, x) ==
    \E i \in DOMAIN s.fields :
        x.fields[i] = UNSET /\ s.fields[i].key \in DOMAIN x.extras

(***************************************************************************)
(* SentIsReceived: whatever assignments and item changes were made, the    *)
(* object to_dict wrote is read back by from_dict (the agent's and the     *)
(* next caller's view) with every set attribute at the value it was set    *)
(* to and every undeclared additional property verbatim -- provided no     *)
(* additional property reuses the wire key of an unset attribute.          *)
(***************************************************************************)
SentIsReceived ==
    encoded /\ ~Shadows(Cls, sent) =>
        LET r == Decode(Cls, out) IN
        /\ r.err = "none"
        /\ \A i \in DOMAIN Cls.fields :
              sent.fields[i] # UNSET => r.inst.fields[i] = sent.fields[i]
        /\ \A k \in DOMAIN sent.extras \ Keys(Cls) :
              k \in DOMAIN r.inst.extras /\ r.inst.extras[k] = sent.extras[k]

(***************************************************************************)
(* FieldsPrevail (spec 4.3: the extras are merged first and "overwritten   *)
(* by the fields just computed, ensuring structured fields take precedence *)
(* over stale extras sharing the same key"): what to_dict writes is read   *)
(* back by from_dict with every attribute as it was, set or unset, so an   *)
(* additional property never stands in for an attribute.                   *)
(***************************************************************************)
FieldsPrevail ==
    encoded =>
        LET r == Decode(Cls, out) IN
        r.err = "none" /\ \A i \in DOMAIN Cls.fields : r.inst.fields[i] = sent.fields[i]

=============================================================================
