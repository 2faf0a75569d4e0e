--------------------------- MODULE MCOverrideStore ---------------------------
(***************************************************************************)
(* Instances of OverrideStore.  Version "v1" declares the setting as a     *)
(* json document, "v2" narrows it to an int.  Values: the Go int 1, the    *)
(* float it reads back as, a fraction, a json.Number beyond float64, which *)
(* is a document that does not decode, and an infinity, which is a whole   *)
(* number that does not encode.                                            *)
(***************************************************************************)
EXTENDS OverrideStore

MCVersions == {"v1", "v2"}
MCValues == {"int1", "float1", "half", "huge", "inf"}
MCDeclares == [v \in MCVersions |-> Names]
MCShape ==
    [v \in MCVersions |-> [n \in Names |->
        IF v = "v1" THEN MCValues \ {"inf"} ELSE {"int1", "float1", "inf"}]]
MCDefault == [v \in MCVersions |-> [n \in Names |-> "float1"]]
MCDocument ==
    [x \in MCValues \ {"inf"} |->
        CASE x = "int1" -> "float1"
          [] x = "huge" -> Unreadable
          [] OTHER -> x]
=============================================================================
