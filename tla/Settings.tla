------------------------------ MODULE Settings ------------------------------
(***************************************************************************)
(* The pure part of a module's settings: src/spec/settings.go and          *)
(* src/spec/settings_change.go.                                            *)
(*                                                                         *)
(* A module declares settings; a value for one comes from the owner's      *)
(* override, else the agency definition, else the declared default.  The   *)
(* declaration changes when a module is republished, and instances of two  *)
(* versions run side by side over the same tables, so every operator takes *)
(* the version whose declaration the running process was built with.       *)
(***************************************************************************)

CONSTANTS
    Names,      \* setting names
    Values,     \* values a caller may hand over, as the Go value it holds
    Versions,   \* published versions of the module
    Declares,   \* the names each version declares
    Shape,      \* the values each version's declaration of a name accepts
    Default,    \* the value each version's declaration falls back to
    Document,   \* what an encodable value reads back as
    Unreadable, \* the document that json.Marshal writes and json.Unmarshal refuses
    Nil,        \* the Go nil, and the empty text it is stored as
    Absent      \* no row, no map entry, nobody

Maybe(S) == S \cup {Absent}

\* settingsProblems lets a declaration load only when its default fits; the
\* other conjuncts say what json.Marshal and json.Unmarshal do to a value: a
\* whole number comes back a float, which the shape still accepts, and what
\* came back once comes back unchanged.  Some documents do not come back: a
\* json.Number beyond float64, such as 1e400, is a document to the check of a
\* json setting and to json.Marshal, and an error to json.Unmarshal.
ASSUME SettingsAssumption ==
    /\ Absent \notin Values \cup {Unreadable}
    /\ Unreadable \notin Values
    /\ Declares \in [Versions -> SUBSET Names]
    /\ Shape \in [Versions -> [Names -> SUBSET Values]]
    /\ Default \in [Versions -> [Names -> Values]]
    /\ \A v \in Versions : \A n \in Declares[v] : Default[v][n] \in Shape[v][n]
    /\ DOMAIN Document \subseteq Values
    /\ \A x \in DOMAIN Document :
        /\ Document[x] \in DOMAIN Document \cup {Unreadable}
        /\ Document[x] # Unreadable =>
            /\ Document[Document[x]] = Document[x]
            /\ \A v \in Versions, n \in Names :
                x \in Shape[v][n] => Document[x] \in Shape[v][n]

\* What a value column may hold, as it reads back.
Documents == Values \cup {Unreadable}

\* Setting.check after findSetting: the name is declared and the value fits.
Fits(v, n, x) == n \in Declares[v] /\ x \in Shape[v][n]

\* encodeSetting succeeds.  A value may fit and still not encode: an infinite
\* float is a whole number to check and no JSON document to json.Marshal.
Encodable(x) == x \in DOMAIN Document

\* Resolve: the value served and the layer that set it.
Resolve(v, definition, override, n) ==
    IF override # Absent /\ Fits(v, n, override)
    THEN [layer |-> "override", value |-> override]
    ELSE IF definition # Absent /\ Fits(v, n, definition)
    THEN [layer |-> "definition", value |-> definition]
    ELSE [layer |-> "module", value |-> Default[v][n]]

\* The from_value a change row gets when the override read was x.
FromOf(x) == IF x = Absent THEN Nil ELSE x
=============================================================================
