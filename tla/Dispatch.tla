------------------------------ MODULE Dispatch ------------------------------
(***************************************************************************)
(* The dispatcher (src/dispatch): a declared table of operations, served   *)
(* over HTTP as routes and to agents as tools, both calling one manager.   *)
(* A table is loaded, mounted, and then answers requests at its two doors. *)
(*                                                                         *)
(* A JSON value and a Go value are a kind and a sequence of texts: "s" a   *)
(* text, "n" a number, "ls" and "ln" lists of them, "null".  A struct is a *)
(* function of its fields' names.  A nil and an empty slice are one value, *)
(* keys differ in more than their case, mounts supply an authorizer, and a *)
(* whole body is a struct's.                                               *)
(***************************************************************************)
EXTENDS Integers, Sequences, SequencesExt, FiniteSets

CONSTANTS
    Specs,        \* tables that are tried, each a set of operations
    Methods,      \* the manager's methods, by name
    PathParams,   \* the parameters of each address
    Anonymous,    \* allowlists of public actions that are tried
    Requests,     \* HTTP requests
    Sessions,     \* callers: name, device, rights, the host's conversation
    Outcomes,     \* what a manager call may answer: None or an error
    Errors,       \* the status the tables give each named error
    Sentinels,    \* what a named error matches, and the detail it tells: [typed, matches, detail]
    ToolNames,    \* each action with its dots made underscores: strings.ReplaceAll
    Alphabet,     \* the place of each query parameter name in the alphabet
    Literals,     \* the JSON value of the texts that are JSON, by text
    Ids,          \* texts that are conversation ids
    None,
    Error

\* What a caller is told of an error the table gives no status of its own.
Opaque == "internal error"

ASSUME DispatchAssumption ==
    /\ Error # None
    /\ \A s \in Specs :
        /\ IsFiniteSet(s)
        /\ \A op \in s :
            /\ op.args \in Seq(Range(op.args))
            /\ op.whenQuery # "" => Alphabet[op.whenQuery] \in Nat

VARIABLES
    spec,         \* the table in use, or None
    split,        \* its routes: [anonymous, gated]
    tools,        \* its tools
    served,       \* the last HTTP request and what came of it, or None
    invoked       \* the last tool call and what came of it, or None

vars == <<spec, split, tools, served, invoked>>
-----------------------------------------------------------------------------
(* Validation: spec.go, validate.go, alternatives.go, refers.go. *)

Sources == {"path", "query", "body", "caller", "device"}
SessionSources == {"caller", "device"}

fromSession(a) == a.from \in SessionSources
positional(a) == a.into = "" /\ ~a.ignored

checkRefers(a) ==
    a.refers # "" => ~a.whole /\ ~a.ignored /\ ~fromSession(a)

SessionArg(a) == ~(a.whole \/ a.repeated \/ a.ignored) /\ a.as # "" /\ ~a.required

IgnoredArg(a, declared) ==
    a.from = "path" /\ ~(a.whole \/ a.repeated) /\ a.into = "" /\ a.as \in declared

IntoArg(a, declared) == a.from = "path" /\ ~a.whole /\ a.as \in declared

WholeArg(a) == a.from # "path" /\ a.as = "" /\ ~a.repeated

NamedArg(a, declared) ==
    /\ a.as # ""
    /\ a.from = "path" => a.as \in declared
    /\ a.repeated => a.from = "query"

ValidArg(a, declared) ==
    /\ a.from \in Sources
    /\ checkRefers(a)
    /\ CASE fromSession(a) -> SessionArg(a)
         [] a.ignored /\ ~fromSession(a) -> IgnoredArg(a, declared)
         [] a.into # "" /\ ~a.ignored /\ ~fromSession(a) -> IntoArg(a, declared)
         [] a.whole /\ positional(a) /\ ~fromSession(a) -> WholeArg(a)
         [] OTHER -> NamedArg(a, declared)

Args(op) == Range(op.args)
Positional(op) == {i \in DOMAIN op.args : positional(op.args[i])}
Wholes(op) == {i \in Positional(op) : op.args[i].whole}
Overwrites(op) == {a \in Args(op) : a.into # "" /\ ~a.ignored}

ValidReturns(op) ==
    LET bodies == {i \in DOMAIN op.returns : op.returns[i].body}
    IN  /\ op.returns = <<>> => op.handled
        /\ Cardinality(bodies) <= 1
        /\ bodies # {} => Len(op.returns) = 1
        /\ bodies = {} => \A i \in DOMAIN op.returns : op.returns[i].as # ""

validate(op) ==
    LET declared == PathParams[op.path]
    IN  /\ \A a \in Args(op) : ValidArg(a, declared)
        /\ op.handled \/ declared \subseteq {a.as : a \in {b \in Args(op) : b.from = "path"}}
        /\ \A i, j \in Wholes(op) : i = j
        /\ Overwrites(op) # {} => Wholes(op) # {}
        /\ ValidReturns(op)
        /\ op.status \in {0} \cup 100..599

addressOf(op) == <<op.method, op.path>>

\* One operation per selector of an address, and a default, which the
\* dispatcher serves, for every address that has selectors.
checkAlternatives(s) ==
    /\ \A op, other \in s :
        op # other /\ addressOf(op) = addressOf(other) => op.whenQuery # other.whenQuery
    /\ \A op \in s : op.whenQuery # "" =>
        \E def \in s : addressOf(def) = addressOf(op) /\ def.whenQuery = "" /\ ~def.handled

toolName(action) == ToolNames[action]

publishedName(op) == IF op.tool # "" THEN op.tool ELSE toolName(op.action)

Publishes(op) == op.tool # "" \/ ~(op.handled \/ op.noTool)

\* The returns of a table that are told once: their operation, place and name.
Onces(s) ==
    {o \in UNION {{[op |-> op, at |-> i, as |-> op.returns[i].as] : i \in DOMAIN op.returns} : op \in s} :
        o.op.returns[o.at].once}

Validate(s) ==
    /\ s # {}
    /\ \A op \in s :
        /\ op.method \in {"GET", "POST", "PUT", "PATCH", "DELETE"}
        /\ (op.call = "") = op.handled
        /\ op.action # ""
        /\ ~(op.noTool /\ op.tool # "")
        /\ op.whenQuery # "" => ~op.handled
        /\ validate(op)
    /\ \A op, other \in s : op # other =>
        /\ op.action # other.action
        /\ Publishes(op) /\ Publishes(other) => publishedName(op) # publishedName(other)
    /\ \A o, other \in Onces(s) : o.op.method # "GET" /\ (o.as = other.as => o = other)
    /\ checkAlternatives(s)
-----------------------------------------------------------------------------
(* Mounting: dispatch.go, alternatives.go, gate.go, mount.go, shape.go. *)

checkSignature(op) ==
    LET m == Methods[op.call]
        declared == Cardinality(Positional(op))
    IN  /\ m.ctx /\ m.err
        /\ IF m.variadic THEN declared >= Len(m.in) - 1 ELSE declared = Len(m.in)
        /\ \/ Len(op.returns) = m.out
           \/ m.out = 0 /\ Len(op.returns) = 1 /\ op.returns[1].body

Built(s) == {op \in s : ~op.handled}

Dispatchable(s) ==
    \A op \in Built(s) : op.call \in DOMAIN Methods /\ checkSignature(op)

\* One route per address.  guarded says whether its handlers ask an authorizer.
mergeAlternatives(s, guarded) ==
    LET Group(op) == {other \in Built(s) : addressOf(other) = addressOf(op)}
        RouteOf(group) ==
            LET def == CHOOSE op \in group : op.whenQuery = "" \/ Cardinality(group) = 1
            IN  [address |-> addressOf(def), action |-> def.action, def |-> def,
                 others |-> group \ {def}, guarded |-> guarded]
    IN  {RouteOf(Group(op)) : op \in Built(s)}

Alternatives(route) == {op.action : op \in route.others}

allAllowed(allowed, actions) == actions \subseteq allowed

\* Mutant: a route is public if the action it carries is.
IsAnonymousByAction(route, allowed) == route.action \in allowed

IsAnonymous(route, allowed) ==
    route.action \in allowed /\ allAllowed(allowed, Alternatives(route))

\* The public half is built without an authorizer, the other one with it.
Split(s, allowed) ==
    [anonymous |-> {r \in mergeAlternatives(s, FALSE) : IsAnonymous(r, allowed)},
     gated |-> {r \in mergeAlternatives(s, TRUE) : ~IsAnonymous(r, allowed)}]
-----------------------------------------------------------------------------
(* Values: package json, and the helpers of bind.go and tools_bind.go. *)

Value(kind, texts) == [t |-> kind, v |-> texts]
Lists == {"ls", "ln"}
ElemOf(kind) == IF kind = "ls" THEN "s" ELSE "n"

Zero(kind) ==
    Value(kind, CASE kind = "s" -> <<"">> [] kind = "n" -> <<"0">> [] OTHER -> <<>>)

Unmarshal(json, kind) ==
    IF json.t = kind THEN json ELSE IF json.t = "null" THEN Zero(kind) ELSE Error

fromText(s, kind) ==
    CASE kind = "s" -> Value("s", <<s>>)
      [] kind # "s" /\ s = "" -> Zero(kind)
      [] kind # "s" /\ s # "" /\ s \in DOMAIN Literals -> Unmarshal(Literals[s], kind)
      [] OTHER -> Error

fromTexts(texts, kind) ==
    IF kind \in Lists
    THEN LET items == [i \in DOMAIN texts |-> fromText(texts[i], ElemOf(kind))]
         IN  IF Error \in Range(items) THEN Error
             ELSE Value(kind, [i \in DOMAIN items |-> items[i].v[1]])
    ELSE IF texts = <<>> THEN Zero(kind) ELSE fromText(texts[1], kind)

Get(f, key, default) == IF key \in DOMAIN f THEN f[key] ELSE default
First(texts) == IF texts = <<>> THEN "" ELSE texts[1]

\* A tag is None where a field has none.
jsonKey(f) ==
    CASE f.json = "-" -> "" [] f.json \in {None, ""} -> f.name [] OTHER -> f.json

queryKey(f) ==
    CASE f.query = "-" -> "" [] f.query = None -> f.snake [] OTHER -> f.query

FieldNames(fields) == {f.name : f \in fields}
Field(fields, name) == CHOOSE f \in fields : f.name = name

\* A struct filled field by field, or Error where one field does not read.
Struct(fields, ValueOf(_)) ==
    LET v == [name \in FieldNames(fields) |-> ValueOf(Field(fields, name))]
    IN  IF \E name \in DOMAIN v : v[name] = Error THEN Error ELSE v

Known(fields) == {jsonKey(f) : f \in fields} \ {""}
-----------------------------------------------------------------------------
(* Binding an HTTP request: bind.go.  The path, the query and the body are
   functions of their names, raw is the query as it was written; a body that
   is no JSON object is None. *)

callerOf(a, who) == IF a.from = "device" THEN who.device ELSE who.name

\* A parameter's kind, and whether it is one of a variadic's.
paramType(m, i) ==
    IF m.variadic /\ i >= Len(m.in) THEN [type |-> Last(m.in), spread |-> TRUE]
    ELSE [type |-> m.in[i], spread |-> FALSE]

\* The slot of each argument that has one, by its place in the table.
planFor(op) ==
    [i \in Positional(op) |->
        LET p == paramType(Methods[op.call], Cardinality({j \in Positional(op) : j <= i}))
        IN  [arg |-> op.args[i], kind |-> p.type.kind, fields |-> p.type.fields,
             spread |-> p.spread]]

needsBody(op) == \E a \in Args(op) : a.from = "body" /\ ~a.whole

\* A body that was read for named arguments has nothing left for a whole one.
wholeBody(op, fields, r) ==
    IF r.body = None \/ needsBody(op) THEN Error
    ELSE IF DOMAIN r.body \subseteq Known(fields)
         THEN Struct(fields, LAMBDA f :
                IF jsonKey(f) \in DOMAIN r.body THEN Unmarshal(r.body[jsonKey(f)], f.kind)
                ELSE Zero(f.kind))
         ELSE Error

wholeQuery(sl, r) ==
    IF sl.kind # "struct" THEN fromText(r.raw, sl.kind)
    ELSE Struct(sl.fields, LAMBDA f :
            IF queryKey(f) \in DOMAIN r.query \ {""} THEN fromTexts(r.query[queryKey(f)], f.kind)
            ELSE Zero(f.kind))

wholeValue(op, sl, r) ==
    IF sl.arg.from = "query" THEN wholeQuery(sl, r) ELSE wholeBody(op, sl.fields, r)

bindOne(a, kind, r, who) ==
    CASE fromSession(a) -> fromText(callerOf(a, who), kind)
      [] a.from = "path" -> fromText(r.path[a.as], kind)
      [] a.from = "query" /\ a.repeated -> fromTexts(Get(r.query, a.as, <<>>), kind)
      [] a.from = "query" /\ ~a.repeated -> fromText(First(Get(r.query, a.as, <<>>)), kind)
      [] a.from = "body" ->
            IF a.as \in DOMAIN r.body THEN Unmarshal(r.body[a.as], kind) ELSE Zero(kind)

\* The argument that overwrites a field last.
LastInto(op, name) == op.args[Max({i \in DOMAIN op.args : op.args[i].into = name})]

\* The overwrites of a whole request, in order, after it is read.
Overwritten(op, fields, target, Given(_, _)) ==
    LET kind(name) == Field(fields, name).kind
        into == {a.into : a \in Overwrites(op)}
    IN  IF \/ target = Error
           \/ ~(into \subseteq DOMAIN target)
           \/ \E a \in Overwrites(op) : Given(a, kind(a.into)) = Error
        THEN Error
        ELSE [name \in DOMAIN target |->
                IF name \in into THEN Given(LastInto(op, name), kind(name)) ELSE target[name]]

\* Mutant: an overwrite fills what the request left out.
overwriteIfZero(op, sl, target, r, who) ==
    IF target = Error THEN Error
    ELSE [name \in DOMAIN target |->
            LET into == {a \in Overwrites(op) : a.into = name}
                kind == Field(sl.fields, name).kind
                a == CHOOSE x \in into : TRUE
            IN  IF into = {} \/ target[name] # Zero(kind) THEN target[name]
                ELSE fromText(IF fromSession(a) THEN callerOf(a, who) ELSE r.path[a.as], kind)]

overwrite(op, sl, target, r, who) ==
    Overwritten(op, sl.fields, target, LAMBDA a, kind :
        fromText(IF fromSession(a) THEN callerOf(a, who) ELSE r.path[a.as], kind))

\* What a slot adds to the call's arguments.
Each(texts, kind) == [i \in DOMAIN texts |-> fromText(texts[i], kind)]

BindSlot(op, sl, r, who) ==
    CASE sl.arg.whole -> <<overwrite(op, sl, wholeValue(op, sl, r), r, who)>>
      [] ~sl.arg.whole /\ sl.arg.repeated /\ sl.spread ->
            Each(Get(r.query, sl.arg.as, <<>>), sl.kind)
      [] OTHER -> <<bindOne(sl.arg, sl.kind, r, who)>>

\* The call's arguments, slot by slot: a spread slot has any number of them.
Bound(slots) == IF \E i \in DOMAIN slots : Error \in Range(slots[i]) THEN Error ELSE slots

bind(op, r, who) ==
    IF needsBody(op) /\ r.body = None THEN Error
    ELSE LET plan == planFor(op)
         IN  Bound([i \in DOMAIN plan |-> BindSlot(op, plan[i], r, who)])
-----------------------------------------------------------------------------
(* Tools and their arguments: tools.go, tools_schema.go, tools_bind.go.  The
   arguments of a call are one JSON object; None is a call without any. *)

KeyOf(sl, f) == IF sl.arg.from = "query" THEN queryKey(f) ELSE jsonKey(f)

flatten(op, sl) ==
    {f \in sl.fields :
        KeyOf(sl, f) # "" /\ ~f.readOnly /\ f.name \notin {a.into : a \in Args(op)}}

\* Every argument is one property; by tells apart two that arrive as one key.
properties(op) ==
    LET plan == planFor(op)
        slots == {i \in DOMAIN plan : ~fromSession(plan[i].arg)}
        whole == {i \in slots : plan[i].arg.whole}
        Prop(key, required, i, name) == [key |-> key, required |-> required, by |-> <<i, name>>]
    IN  {Prop(plan[i].arg.as, plan[i].arg.required \/ plan[i].arg.from = "path", i, "") :
            i \in slots \ whole}
        \cup (UNION {{Prop(KeyOf(plan[i], f), f.required, i, f.name) : f \in flatten(op, plan[i])} :
                        i \in whole})
        \cup {Prop(a.as, TRUE, 0, a.into) : a \in {b \in Overwrites(op) : ~fromSession(b)}}

\* What Tools refuses a table for beyond what Dispatch does.
ToolFits(op) ==
    LET plan == planFor(op)
        whole == {i \in DOMAIN plan : plan[i].arg.whole}
    IN  /\ op.described
        /\ \A i \in whole : plan[i].kind = "struct"
        /\ \A a \in Overwrites(op) : ~fromSession(a) =>
            \E i \in whole : a.into \in FieldNames(plan[i].fields)
        /\ \A p, q \in properties(op) : p.key = q.key => p = q

Tools(s) ==
    LET public == {op \in Built(s) : ~op.noTool}
    IN  IF \A op \in public : ToolFits(op)
        THEN {[name |-> publishedName(op), op |-> op, props |-> properties(op)] : op \in public}
        ELSE None

Empty == [key \in {} |-> None]

arguments(raw) == IF raw = None THEN Empty ELSE raw

oneElementSlice(json, kind) ==
    LET one == Unmarshal(json, ElemOf(kind))
    IN  IF one = Error THEN Error ELSE Value(kind, one.v)

valueFromArgs(in, key, kind) ==
    IF key \notin DOMAIN in THEN Zero(kind)
    ELSE IF Unmarshal(in[key], kind) = Error /\ kind \in Lists
         THEN oneElementSlice(in[key], kind)
         ELSE Unmarshal(in[key], kind)

listOfOne(json) ==
    CASE json.t \in Lists -> [i \in DOMAIN json.v |-> Value(ElemOf(json.t), <<json.v[i]>>)]
      [] json.t = "null" -> <<>>
      [] OTHER -> <<json>>

spreadFromArgs(in, key, kind) ==
    IF key \notin DOMAIN in THEN <<>>
    ELSE LET items == listOfOne(in[key])
         IN  [i \in DOMAIN items |-> Unmarshal(items[i], kind)]

\* Mutant: a whole query is put together from json keys.
wholeFromArgsByJson(sl, in) ==
    Struct(sl.fields, LAMBDA f :
        IF jsonKey(f) \in DOMAIN in THEN Unmarshal(in[jsonKey(f)], f.kind) ELSE Zero(f.kind))

\* The struct is put together under its fields' json keys.
wholeFromArgs(sl, in) ==
    Struct(sl.fields, LAMBDA f :
        IF jsonKey(f) # "" /\ KeyOf(sl, f) \in DOMAIN in \ {""}
        THEN Unmarshal(in[KeyOf(sl, f)], f.kind) ELSE Zero(f.kind))

overwriteFromArgs(op, sl, target, in, who) ==
    Overwritten(op, sl.fields, target, LAMBDA a, kind :
        IF fromSession(a) THEN fromText(callerOf(a, who), kind)
        ELSE valueFromArgs(in, a.as, kind))

BindToolSlot(op, sl, in, who) ==
    CASE fromSession(sl.arg) -> <<fromText(callerOf(sl.arg, who), sl.kind)>>
      [] ~fromSession(sl.arg) /\ sl.arg.whole ->
            <<overwriteFromArgs(op, sl, wholeFromArgs(sl, in), in, who)>>
      [] sl.arg.repeated /\ sl.spread -> spreadFromArgs(in, sl.arg.as, sl.kind)
      [] OTHER -> <<valueFromArgs(in, sl.arg.as, sl.kind)>>

bindTool(tool, raw, who) ==
    IF raw = Error THEN Error
    ELSE LET in == arguments(raw)
             plan == planFor(tool.op)
             known == {p.key : p \in tool.props}
             required == {p.key : p \in {q \in tool.props : q.required}}
         IN  IF ~(DOMAIN in \subseteq known) \/ ~(required \subseteq DOMAIN in) THEN Error
             ELSE Bound([i \in DOMAIN plan |-> BindToolSlot(tool.op, plan[i], in, who)])
-----------------------------------------------------------------------------
(* Errors and conversations: typed_error.go, httpwire.StatusFor,
   conversation.go. *)

Fallback == 500

statusTable == {[sentinel |-> Sentinels[n], code |-> Errors[n]] : n \in DOMAIN Errors}

\* The outcomes an error may get: a match by type, which alone has a detail,
\* outranks one by identity, and among several the order of a map decides.
resolve(err) ==
    LET matched == {e \in statusTable : err \in e.sentinel.matches}
        typed == {e \in matched : e.sentinel.typed}
        Outcome(code, detail) == [code |-> code, detail |-> detail]
    IN  CASE typed # {} -> {Outcome(e.code, e.sentinel.detail) : e \in typed}
          [] typed = {} /\ matched # {} -> {Outcome(e.code, None) : e \in matched}
          [] OTHER -> {Outcome(Fallback, None)}

carry(id, host) == IF id = "" THEN host ELSE IF id \in Ids THEN id ELSE Error

conversationFromHeader(values, host) ==
    CASE Len(values) > 1 -> Error
      [] Len(values) = 0 -> host
      [] OTHER -> carry(values[1], host)

\* A meta entry that is no text is Error.
conversationFromMeta(id, host) ==
    CASE id = None -> host [] id = Error -> Error [] OTHER -> carry(id, host)
-----------------------------------------------------------------------------
(* The two doors. *)

Init ==
    /\ spec = None /\ split = None /\ tools = None
    /\ served = None /\ invoked = None

Load(s, allowed) ==
    /\ spec = None
    /\ Validate(s)
    /\ DOMAIN Errors \subseteq DOMAIN Sentinels
    /\ Dispatchable(s)
    /\ spec' = [ops |-> s, allowed |-> allowed]
    /\ split' = Split(s, allowed)
    /\ tools' = Tools(s)
    /\ UNCHANGED <<served, invoked>>

\* What came of a request: the call of the manager, if it was made, and the
\* manager's error; the status, the text and the detail that the caller is told.
Answer(op, call, err, code, text, detail) ==
    [op |-> op, call |-> call, err |-> err, code |-> code, text |-> text, detail |-> detail]

Refusal(op, code, text) == Answer(op, None, None, code, text, None)

status(op) == IF op.status = 0 THEN 200 ELSE op.status

\* handlerFor: an HTTP handler answers a typed error with its detail.
handlerFor(op, guarded, r, who) ==
    LET may == guarded => op.action \in who.rights
        conversation == conversationFromHeader(r.headers, who.host)
        args == bind(op, r, who)
        call == [args |-> args, conversation |-> conversation]
        Told(err, o) == IF o.code = Fallback THEN Answer(op, call, err, o.code, Opaque, None)
                        ELSE Answer(op, call, err, o.code, err, o.detail)
    IN  CASE ~may -> {Refusal(op, 403, "forbidden")}
          [] may /\ (conversation = Error \/ args = Error) -> {Refusal(op, 400, "bad request")}
          [] OTHER ->
                {Answer(op, call, err, status(op), "ok", None) : err \in Outcomes \cap {None}}
                \cup (UNION {{Told(err, o) : o \in resolve(err)} : err \in Outcomes \ {None}})

\* invokerFor: a tool answers with a value or an error, and no detail.
invokerFor(tool, raw, meta, who) ==
    LET op == tool.op
        may == op.action \in who.rights
        conversation == conversationFromMeta(meta, who.host)
        args == bindTool(tool, raw, who)
        call == [args |-> args, conversation |-> conversation]
        Told(err, o) == Answer(op, call, err, None, IF o.code = Fallback THEN Opaque ELSE err, None)
    IN  CASE ~may -> {Refusal(op, None, "forbidden")}
          [] may /\ (conversation = Error \/ args = Error) -> {Refusal(op, None, "bad request")}
          [] OTHER ->
                {Answer(op, call, err, None, "ok", None) : err \in Outcomes \cap {None}}
                \cup (UNION {{Told(err, o) : o \in resolve(err)} : err \in Outcomes \ {None}})

selecting(route, query) ==
    LET chosen == {op \in route.others : First(Get(query, op.whenQuery, <<>>)) # ""}
    IN  IF chosen = {} THEN route.def
        ELSE CHOOSE op \in chosen : \A other \in chosen :
            Alphabet[op.whenQuery] <= Alphabet[other.whenQuery]

\* The mux finds the route of a request's address, whose handler answers.
Serve(r, who) ==
    /\ spec # None /\ served = None
    /\ \E route \in split.anonymous \cup split.gated :
        /\ route.address = r.address
        /\ \E answer \in handlerFor(selecting(route, r.query), route.guarded, r, who) :
            served' = [request |-> r, who |-> who, answer |-> answer]
    /\ UNCHANGED <<spec, split, tools, invoked>>

(* A request said again at the other door: an agent that would call the
   operation that answered it says the values that were read from its texts. *)

ListKind(kind) == IF kind = "s" THEN "ls" ELSE "ln"

SaidSlot(sl, r) ==
    LET a == sl.arg IN
    CASE a.from = "path" -> {<<a.as, fromText(r.path[a.as], sl.kind)>>}
      [] a.from = "query" /\ ~a.whole ->
            {<<key, IF a.repeated THEN fromTexts(r.query[key], IF sl.spread THEN ListKind(sl.kind) ELSE sl.kind)
                    ELSE fromText(First(r.query[key]), sl.kind)>> :
                key \in {a.as} \cap DOMAIN r.query}
      [] a.from = "query" /\ a.whole ->
            {<<queryKey(f), fromTexts(r.query[queryKey(f)], f.kind)>> :
                f \in {g \in sl.fields : queryKey(g) \in DOMAIN r.query}}
      [] a.from = "body" /\ ~a.whole ->
            {<<key, r.body[key]>> : key \in {a.as} \cap DOMAIN r.body}
      [] OTHER -> {}

SaidBody(op, sl, r) ==
    {<<key, r.body[key]>> : key \in DOMAIN r.body
        \ {jsonKey(f) : f \in {g \in sl.fields : g.name \in {a.into : a \in Args(op)}}}}

\* A key of the address is said as the address has it.
ToolForm(op, r) ==
    LET plan == planFor(op)
        slots == {i \in DOMAIN plan : ~fromSession(plan[i].arg)}
        whole == CHOOSE i \in slots : plan[i].arg.whole
        into == {a \in Overwrites(op) : ~fromSession(a)}
        Addressed(key) == {a \in into : a.as = key}
        said == (UNION {SaidSlot(plan[i], r) : i \in slots})
            \cup (UNION {SaidBody(op, plan[i], r) :
                    i \in {j \in slots : plan[j].arg.whole /\ plan[j].arg.from = "body"}})
    IN  [key \in {p[1] : p \in said} \cup {a.as : a \in into} |->
            IF Addressed(key) # {}
            THEN fromText(r.path[key],
                          Field(plan[whole].fields, (CHOOSE a \in Addressed(key) : TRUE).into).kind)
            ELSE (CHOOSE p \in said : p[1] = key)[2]]

\* The call that reached the manager is made again as a tool call.
Repeat ==
    /\ served # None /\ tools # None /\ invoked = None
    /\ served.answer.call # None
    /\ \E tool \in tools :
        /\ tool.op = served.answer.op
        /\ \E answer \in invokerFor(tool, ToolForm(tool.op, served.request),
                IF served.request.headers = <<>> THEN None ELSE served.request.headers[1],
                served.who) :
            invoked' = [who |-> served.who, answer |-> answer]
    /\ UNCHANGED <<spec, split, tools, served>>

\* Nothing is kept from one request to the next.
Done ==
    /\ served # None
    /\ served' = None /\ invoked' = None
    /\ UNCHANGED <<spec, split, tools>>

Next ==
    \/ \E s \in Specs, allowed \in Anonymous : Load(s, allowed)
    \/ \E r \in Requests, who \in Sessions : Serve(r, who)
    \/ Repeat
    \/ Done

Spec == Init /\ [][Next]_vars
-----------------------------------------------------------------------------
Calls == {c \in {served, invoked} \ {None} : c.answer.call # None}

\* The manager is only called for an action that is public or that the caller
\* may perform: listing the default of a shared address as public opens none of
\* its alternatives, and what is public over HTTP is not for tools.
CalledIsAllowed ==
    /\ \A c \in Calls : c.answer.op.action \in c.who.rights \cup spec.allowed
    /\ \A c \in Calls \cap {invoked} : c.answer.op.action \in c.who.rights

\* The fields of a whole query that package json leaves out of a struct: a tool
\* call loses what it says of them.
Unmarshalled(sl, r) ==
    IF sl.arg.from # "query" THEN {}
    ELSE {f.name : f \in {g \in sl.fields : jsonKey(g) = "" /\ queryKey(g) \in DOMAIN r.query}}

\* The two doors bind alike: a request that reached the manager over HTTP and
\* is said again as a tool call reaches it, if the tool takes the call, in the
\* same conversation and with the same arguments, but for the fields of a whole
\* query that are tagged json:"-".
DoorsBindAlike ==
    {served, invoked} \subseteq Calls =>
        LET plan == planFor(served.answer.op)
            there == served.answer.call
            here == invoked.answer.call
        IN  /\ here.conversation = there.conversation
            /\ \A i \in DOMAIN plan :
                IF plan[i].arg.whole
                THEN \A name \in FieldNames(plan[i].fields) \ Unmarshalled(plan[i], served.request) :
                        here.args[i][1][name] = there.args[i][1][name]
                ELSE here.args[i] = there.args[i]

\* What the address and the session say outranks the body: a field that an
\* argument overwrites holds what the path or the session gives, at both doors.
AddressOutranksTheBody ==
    \A c \in Calls :
        LET op == c.answer.op
            plan == planFor(op)
        IN  \A i \in DOMAIN plan, name \in {a.into : a \in Overwrites(op)} : plan[i].arg.whole =>
                LET a == LastInto(op, name)
                IN  c.answer.call.args[i][1][name] =
                        fromText(IF fromSession(a) THEN callerOf(a, c.who)
                                 ELSE served.request.path[a.as],
                                 Field(plan[i].fields, name).kind)
=============================================================================
