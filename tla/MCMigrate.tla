------------------------------ MODULE MCMigrate ------------------------------
(***************************************************************************)
(* An instance of Migrate.  The first version requires `a`; the second     *)
(* drops it and gains a required `b`, a unique nullable `u` and an index   *)
(* `i` on `b`; the third has `a` back, as a required document, `u` still   *)
(* unique, a key grown by `k`, the index `i` on `k` now and a unique one   *)
(* on `b`, and a unique `c` with a default.                                *)
(***************************************************************************)
EXTENDS Migrate

MCVersions == {"v1", "v2", "v3"}
MCColumns == {"run_id", "id", "k", "a", "b", "c", "u"}

FieldsOf ==
    [v1 |-> [id |-> "key", a |-> "required"],
     v2 |-> [id |-> "key", b |-> "required", u |-> "nullable"],
     v3 |-> [id |-> "key", k |-> "key", a |-> "document", b |-> "defaulted",
             u |-> "nullable", c |-> "defaulted"]]
UniqueOf == [v1 |-> {}, v2 |-> {"u"}, v3 |-> {"u", "c"}]
MCIndexNames == {"i", "j"}
IndexOn(name, columns, unique) == [name |-> <<"index", name>>, on |-> columns, unique |-> unique]
IndexedOf ==
    [v1 |-> {},
     v2 |-> {IndexOn("i", {"b"}, FALSE)},
     v3 |-> {IndexOn("i", {"k"}, FALSE), IndexOn("j", {"b"}, TRUE)}]

MCFields == [v \in MCVersions |-> [o \in Objects |-> FieldsOf[v]]]
MCUnique == [v \in MCVersions |-> [o \in Objects |-> UniqueOf[v]]]
MCIndexed == [v \in MCVersions |-> [o \in Objects |-> IndexedOf[v]]]
=============================================================================
