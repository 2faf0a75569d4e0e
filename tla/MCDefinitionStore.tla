-------------------------- MODULE MCDefinitionStore --------------------------
(***************************************************************************)
(* Instances of DefinitionStore: an int and a json document; a fraction,   *)
(* an infinity that is a whole number and does not encode, and a           *)
(* json.Number beyond float64, a document that does not decode.            *)
(***************************************************************************)
EXTENDS DefinitionStore

MCNames == {"limit", "rate"}
MCVersions == {"v1"}
MCValues == {"int1", "float1", "half", "huge", "inf"}
MCDeclares == [v \in MCVersions |-> MCNames]
MCShape ==
    [v \in MCVersions |-> [n \in MCNames |->
        IF n = "limit" THEN {"int1", "float1", "inf"} ELSE MCValues \ {"inf"}]]
MCDefault == [v \in MCVersions |-> [n \in MCNames |-> "float1"]]
MCDocument ==
    [x \in MCValues \ {"inf"} |->
        CASE x = "int1" -> "float1"
          [] x = "huge" -> Unreadable
          [] OTHER -> x]
=============================================================================
