--------------------------- MODULE StatelessProofs ---------------------------
(***************************************************************************)
(* Proofs about the two packages that keep nothing between calls, each for *)
(* any constants: the dispatcher (Dispatch) and schedules (Recur).         *)
(***************************************************************************)
EXTENDS Dispatch, Recur, FiniteSetTheorems, WellFoundedInduction, TLAPS

(* Dispatch: whatever the manager is called for is public or the caller's to
   do, with the fields that the address and the session give. *)

\* The routes and tools mounted are those of a table that was validated.
Mounted ==
    spec # None =>
        \E s \in Specs, allowed \in Anonymous :
            /\ Validate(s)
            /\ spec = [ops |-> s, allowed |-> allowed]
            /\ split = Split(s, allowed)
            /\ tools = Tools(s)

\* An HTTP call is of an operation of the address, public or the caller's, with
\* what was bound from the request.
CallInv(c) ==
    c.answer.call # None =>
        /\ c.answer.op.action \in c.who.rights \cup spec.allowed
        /\ c.answer.op \in spec.ops /\ addressOf(c.answer.op) = c.request.address
        /\ c.request \in Requests
        /\ c.answer.call.args = bind(c.answer.op, c.request, c.who)
        /\ c.answer.call.args # Error

\* What came of the last HTTP request.
ServedInv == served # None => CallInv(served)

\* A tool call is of the operation that answered over HTTP, is the caller's to do,
\* and has what was bound from the arguments that say the request again.
ToolCallInv(c) ==
    c.answer.call # None =>
        /\ c.answer.op.action \in c.who.rights
        /\ c.who = served.who /\ c.answer.op = served.answer.op
        /\ served.answer.call # None
        /\ tools # None
        /\ \E tool \in tools :
            /\ tool.op = c.answer.op
            /\ c.answer.call.args = bindTool(tool, ToolForm(tool.op, served.request), c.who)
        /\ c.answer.call.args # Error

\* What came of the last tool call.
InvokedInv == invoked # None => ToolCallInv(invoked)

\* The inductive invariant: what is answered was mounted.
DispatchInv ==
    /\ Mounted /\ ServedInv /\ InvokedInv
    /\ served # None => spec # None
    /\ invoked # None => served # None

\* An answer holds the call it is made with.
LEMMA AnswerHolds ==
  \A op, call, err, code, text, detail :
    LET reply == Answer(op, call, err, code, text, detail)
    IN  reply.op = op /\ reply.call = call
  BY DEF Answer

\* A guarded handler that answers with a call let the caller in.
LEMMA GuardedHandlerAsks ==
  ASSUME NEW op, NEW r, NEW who,
         NEW reply \in handlerFor(op, TRUE, r, who), reply.call # None
  PROVE  op.action \in who.rights
  <1> SUFFICES ASSUME ~(op.action \in who.rights) PROVE FALSE
    OBVIOUS
  <1>1. handlerFor(op, TRUE, r, who) = {Refusal(op, 403, "forbidden")}
    BY DEF handlerFor
  <1> QED
    <2>1. Refusal(op, 403, "forbidden").call = None
      BY DEF Refusal, Answer
    <2> QED
      BY <1>1, <2>1

\* A handler that answers with a call bound the request.
LEMMA HandlerCalls ==
  ASSUME NEW op, NEW guarded, NEW r, NEW who,
         NEW reply \in handlerFor(op, guarded, r, who), reply.call # None
  PROVE  reply.op = op /\ reply.call.args = bind(op, r, who) /\ bind(op, r, who) # Error
  <1> DEFINE may == guarded => op.action \in who.rights
             conversation == conversationFromHeader(r.headers, who.host)
             args == bind(op, r, who)
             call == [args |-> args, conversation |-> conversation]
             Told(err, o) == IF o.code = Fallback THEN Answer(op, call, err, o.code, Opaque, None)
                             ELSE Answer(op, call, err, o.code, err, o.detail)
             told == {Answer(op, call, err, status(op), "ok", None) : err \in Outcomes \cap {None}}
                     \cup (UNION {{Told(err, o) : o \in resolve(err)} : err \in Outcomes \ {None}})
  <1>1. handlerFor(op, guarded, r, who) =
          CASE ~may -> {Refusal(op, 403, "forbidden")}
            [] may /\ (conversation = Error \/ args = Error) -> {Refusal(op, 400, "bad request")}
            [] OTHER -> told
    BY Zenon DEF handlerFor
  <1>2. may \in BOOLEAN
    OBVIOUS
  <1>3. \A x \in told : x.op = op /\ x.call = call
    <2> HIDE DEF call
    <2> SUFFICES ASSUME NEW x \in told PROVE x.op = op /\ x.call = call
      OBVIOUS
    <2>1. \A err, o : Told(err, o).op = op /\ Told(err, o).call = call
      BY AnswerHolds
    <2>2. CASE x \in {Answer(op, call, err, status(op), "ok", None) : err \in Outcomes \cap {None}}
      BY <2>2, AnswerHolds
    <2>3. CASE x \in UNION {{Told(err, o) : o \in resolve(err)} : err \in Outcomes \ {None}}
      <3> HIDE DEF Told
      <3>1. PICK err \in Outcomes \ {None} : \E o \in resolve(err) : x = Told(err, o)
        BY <2>3
      <3> QED
        BY <2>1, <3>1
    <2> QED
      BY <2>2, <2>3
  <1>4. call.args = args
    OBVIOUS
  <1> HIDE DEF told, may, args, conversation, call
  <1>5. reply # Refusal(op, 403, "forbidden") /\ reply # Refusal(op, 400, "bad request")
    <2>1. Refusal(op, 403, "forbidden").call = None /\ Refusal(op, 400, "bad request").call = None
      BY DEF Refusal, Answer
    <2> QED
      BY <2>1
  <1>6. may /\ args # Error /\ reply \in told
    BY <1>1, <1>2, <1>5
  <1> QED
    BY <1>3, <1>4, <1>6 DEF args

\* A tool that answers with a call did both.
LEMMA InvokerCalls ==
  ASSUME NEW tool, NEW raw, NEW meta, NEW who,
         NEW reply \in invokerFor(tool, raw, meta, who), reply.call # None
  PROVE  /\ tool.op.action \in who.rights
         /\ reply.op = tool.op /\ reply.call.args = bindTool(tool, raw, who)
         /\ bindTool(tool, raw, who) # Error
  <1> DEFINE op == tool.op
             may == op.action \in who.rights
             conversation == conversationFromMeta(meta, who.host)
             args == bindTool(tool, raw, who)
             call == [args |-> args, conversation |-> conversation]
             Told(err, o) == Answer(op, call, err, None, IF o.code = Fallback THEN Opaque ELSE err, None)
             told == {Answer(op, call, err, None, "ok", None) : err \in Outcomes \cap {None}}
                     \cup (UNION {{Told(err, o) : o \in resolve(err)} : err \in Outcomes \ {None}})
  <1>1. invokerFor(tool, raw, meta, who) =
          CASE ~may -> {Refusal(op, None, "forbidden")}
            [] may /\ (conversation = Error \/ args = Error) -> {Refusal(op, None, "bad request")}
            [] OTHER -> told
    BY Zenon DEF invokerFor
  <1>2. may \in BOOLEAN
    OBVIOUS
  <1>3. \A x \in told : x.op = op /\ x.call = call
    <2> HIDE DEF call, op
    <2> SUFFICES ASSUME NEW x \in told PROVE x.op = op /\ x.call = call
      OBVIOUS
    <2>1. \A err, o : Told(err, o).op = op /\ Told(err, o).call = call
      BY AnswerHolds
    <2>2. CASE x \in {Answer(op, call, err, None, "ok", None) : err \in Outcomes \cap {None}}
      BY <2>2, AnswerHolds
    <2>3. CASE x \in UNION {{Told(err, o) : o \in resolve(err)} : err \in Outcomes \ {None}}
      <3> HIDE DEF Told
      <3>1. PICK err \in Outcomes \ {None} : \E o \in resolve(err) : x = Told(err, o)
        BY <2>3
      <3> QED
        BY <2>1, <3>1
    <2> QED
      BY <2>2, <2>3
  <1>4. call.args = args
    OBVIOUS
  <1> HIDE DEF told, may, args, conversation, call, op
  <1>5. reply # Refusal(op, None, "forbidden") /\ reply # Refusal(op, None, "bad request")
    <2>1. Refusal(op, None, "forbidden").call = None /\ Refusal(op, None, "bad request").call = None
      BY DEF Refusal, Answer
    <2> QED
      BY <2>1
  <1>6. may /\ args # Error /\ reply \in told
    BY <1>1, <1>2, <1>5
  <1> QED
    BY <1>3, <1>4, <1>6 DEF may, args, op

\* A route carries its default's action and the guard it was built with.
LEMMA RouteShape ==
  ASSUME NEW s, NEW guarded, NEW route \in mergeAlternatives(s, guarded)
  PROVE  route.action = route.def.action /\ route.guarded = guarded
  <1>1. PICK def, others :
          route = [address |-> addressOf(def), action |-> def.action, def |-> def,
                   others |-> others, guarded |-> guarded]
    BY Zenon DEF mergeAlternatives
  <1> QED
    BY <1>1

\* The operations of a route are the table's at its address.
LEMMA RouteServesItsAddress ==
  ASSUME NEW s \in Specs, Validate(s), NEW guarded,
         NEW route \in mergeAlternatives(s, guarded), NEW op \in route.others \cup {route.def}
  PROVE  op \in s /\ addressOf(op) = route.address
  <1> DEFINE Group(x) == {other \in Built(s) : addressOf(other) = addressOf(x)}
             IsDefault(x, group) == x.whenQuery = "" \/ Cardinality(group) = 1
             Def(group) == CHOOSE x \in group : IsDefault(x, group)
  <1>1. PICK base \in Built(s) :
          route = [address |-> addressOf(Def(Group(base))),
                   action |-> Def(Group(base)).action, def |-> Def(Group(base)),
                   others |-> Group(base) \ {Def(Group(base))}, guarded |-> guarded]
    BY DEF mergeAlternatives
  <1>2. \E x \in Group(base) : x.whenQuery = ""
    <2>1. CASE base.whenQuery = ""
      BY <2>1
    <2>2. CASE base.whenQuery # ""
      <3>1. base \in s /\ checkAlternatives(s)
        BY DEF Built, Validate
      <3>2. PICK x \in s : addressOf(x) = addressOf(base) /\ x.whenQuery = "" /\ ~x.handled
        BY <2>2, <3>1, Zenon DEF checkAlternatives
      <3> QED
        BY <3>2 DEF Built
    <2> QED
      BY <2>1, <2>2
  <1>3. Def(Group(base)) \in Group(base)
    BY <1>2
  <1>4. \A x \in Group(base) : x \in s /\ addressOf(x) = addressOf(base)
    BY DEF Built
  <1> QED
    BY <1>1, <1>3, <1>4

\* The operations behind an address but its default have a selector of their own.
LEMMA OthersSelect ==
  ASSUME NEW s \in Specs, Validate(s), NEW guarded,
         NEW route \in mergeAlternatives(s, guarded), NEW op \in route.others
  PROVE  op \in s /\ op.whenQuery # ""
  <1> DEFINE Group(x) == {other \in Built(s) : addressOf(other) = addressOf(x)}
             IsDefault(x, group) == x.whenQuery = "" \/ Cardinality(group) = 1
             Def(group) == CHOOSE x \in group : IsDefault(x, group)
  <1>1. PICK base \in Built(s) :
          route = [address |-> addressOf(Def(Group(base))),
                   action |-> Def(Group(base)).action, def |-> Def(Group(base)),
                   others |-> Group(base) \ {Def(Group(base))}, guarded |-> guarded]
    BY DEF mergeAlternatives
  <1> DEFINE group == Group(base)
             def == Def(group)
  <1>2. op \in group /\ op # def /\ group \subseteq s
    BY <1>1 DEF Built
  <1>3. SUFFICES ASSUME op.whenQuery = "" PROVE FALSE
    BY <1>2
  <1>4. def \in group /\ IsDefault(def, group)
    BY <1>2, <1>3
  <1>5. CASE def.whenQuery = ""
    <2>1. addressOf(op) = addressOf(def) /\ op \in s /\ def \in s
      BY <1>2, <1>4
    <2>2. checkAlternatives(s)
      BY DEF Validate
    <2>3. op.whenQuery # def.whenQuery
      BY <1>2, <2>1, <2>2, Zenon DEF checkAlternatives
    <2> QED
      BY <1>3, <1>5, <2>3
  <1>6. CASE Cardinality(group) = 1
    <2>1. IsFiniteSet(group)
      BY <1>2, DispatchAssumption, FS_Subset
    <2> HIDE DEF group, def
    <2>2. PICK x : group = {x}
      BY <1>6, <2>1, FS_Singleton
    <2> QED
      BY <1>2, <1>4, <2>2
  <1> QED
    BY <1>4, <1>5, <1>6

\* Of several operations that a query selects there is a first by the alphabet.
LEMMA ThereIsAFirst ==
  ASSUME NEW chosen, chosen # {},
         \A op \in chosen : Alphabet[op.whenQuery] \in Nat
  PROVE  \E op \in chosen : \A other \in chosen :
            Alphabet[op.whenQuery] <= Alphabet[other.whenQuery]
  <1> DEFINE places == {Alphabet[op.whenQuery] : op \in chosen}
  <1>1. places # {} /\ places \subseteq Nat
    OBVIOUS
  <1>2. PICK p \in places : \A q \in places : ~(<<q, p>> \in OpToRel(<, Nat))
    BY <1>1, WFMin, NatLessThanWellFounded
  <1>3. PICK op \in chosen : p = Alphabet[op.whenQuery]
    OBVIOUS
  <1>4. ASSUME NEW other \in chosen PROVE p <= Alphabet[other.whenQuery]
    <2> DEFINE q == Alphabet[other.whenQuery]
    <2>1. q \in places /\ q \in Nat /\ p \in Nat
      BY <1>1
    <2>2. ~(<<q, p>> \in OpToRel(<, Nat))
      BY <1>2, <2>1
    <2> HIDE DEF q
    <2>3. ~(q < p)
      BY <2>1, <2>2 DEF OpToRel
    <2> QED
      BY <2>1, <2>3 DEF q
  <1> QED
    BY <1>3, <1>4

\* A query selects one of the operations its address has.
LEMMA SelectingChooses ==
  ASSUME NEW s \in Specs, Validate(s), NEW guarded, NEW query,
         NEW route \in mergeAlternatives(s, guarded)
  PROVE  selecting(route, query) \in route.others \cup {route.def}
  <1> DEFINE chosen == {op \in route.others : First(Get(query, op.whenQuery, <<>>)) # ""}
             IsFirst(op) == \A other \in chosen :
                                Alphabet[op.whenQuery] <= Alphabet[other.whenQuery]
  <1>1. CASE chosen = {}
    BY <1>1 DEF selecting
  <1>2. CASE chosen # {}
    <2>1. \A op \in chosen : Alphabet[op.whenQuery] \in Nat
      BY OthersSelect, DispatchAssumption
    <2>2. \E op \in chosen : IsFirst(op)
      BY <1>2, <2>1, ThereIsAFirst
    <2>3. selecting(route, query) = CHOOSE op \in chosen : IsFirst(op)
      BY <1>2 DEF selecting
    <2> QED
      BY <2>2, <2>3
  <1> QED
    BY <1>1, <1>2

\* A request is answered by an operation the table has at its address.
LEMMA ServedAtItsAddress ==
  ASSUME NEW s \in Specs, NEW allowed, Validate(s), NEW query,
         NEW route \in Split(s, allowed).anonymous \cup Split(s, allowed).gated
  PROVE  /\ selecting(route, query) \in s
         /\ addressOf(selecting(route, query)) = route.address
  <1>1. PICK guarded : route \in mergeAlternatives(s, guarded)
    BY DEF Split
  <1> QED
    BY <1>1, SelectingChooses, RouteServesItsAddress

\* What is answered without asking an authorizer is on the list of public actions.
LEMMA UnguardedIsPublic ==
  ASSUME NEW s \in Specs, NEW allowed, Validate(s), NEW query,
         NEW route \in Split(s, allowed).anonymous \cup Split(s, allowed).gated
  PROVE  \/ route.guarded = TRUE
         \/ route.guarded = FALSE /\ selecting(route, query).action \in allowed
  <1>1. CASE route \in Split(s, allowed).gated
    <2>1. route \in mergeAlternatives(s, TRUE)
      BY <1>1 DEF Split
    <2> QED
      BY <2>1, RouteShape
  <1>2. CASE route \in Split(s, allowed).anonymous
    <2>1. route \in mergeAlternatives(s, FALSE) /\ IsAnonymous(route, allowed)
      BY <1>2 DEF Split
    <2>2. route.action = route.def.action /\ route.guarded = FALSE
      <3> DEFINE guarded == FALSE
      <3>1. route \in mergeAlternatives(s, guarded)
        BY <2>1
      <3>2. guarded = FALSE
        OBVIOUS
      <3> HIDE DEF guarded
      <3> QED
        BY <3>1, <3>2, RouteShape
    <2>3. \A op \in route.others \cup {route.def} : op.action \in allowed
      BY <2>1, <2>2 DEF IsAnonymous, allAllowed, Alternatives
    <2> QED
      BY <2>1, <2>2, <2>3, SelectingChooses
  <1> QED
    BY <1>1, <1>2

\* Nothing is mounted or asked at the start.
LEMMA InitDispatchInv == Init => DispatchInv
  BY DEF Init, DispatchInv, Mounted, ServedInv, InvokedInv

\* Loading mounts the routes of a table Validate accepts.
LEMMA LoadKeeps ==
  ASSUME DispatchInv, NEW s \in Specs, NEW allowed \in Anonymous, Load(s, allowed)
  PROVE  DispatchInv'
  <1>1. Mounted'
    BY DEF Load, Mounted
  <1>2. served = None /\ invoked = None
    BY DEF Load, DispatchInv
  <1>3. served' = None /\ invoked' = None
    BY <1>2 DEF Load
  <1> QED
    BY <1>1, <1>3 DEF DispatchInv, ServedInv, InvokedInv

\* An HTTP request is answered by an operation that is public or the caller's.
LEMMA ServeKeeps ==
  ASSUME DispatchInv, NEW r \in Requests, NEW who \in Sessions, Serve(r, who)
  PROVE  DispatchInv'
  <1>1. PICK s \in Specs, allowed \in Anonymous :
          Validate(s) /\ spec = [ops |-> s, allowed |-> allowed] /\ split = Split(s, allowed)
    BY Zenon DEF DispatchInv, Mounted, Serve
  <1>2. PICK route \in split.anonymous \cup split.gated :
          route.address = r.address /\
          \E reply \in handlerFor(selecting(route, r.query), route.guarded, r, who) :
            served' = [request |-> r, who |-> who, answer |-> reply]
    BY Zenon DEF Serve
  <1> DEFINE op == selecting(route, r.query)
  <1>3. PICK reply \in handlerFor(op, route.guarded, r, who) :
          served' = [request |-> r, who |-> who, answer |-> reply]
    BY <1>2, Zenon
  <1>4. \/ route.guarded = TRUE
        \/ route.guarded = FALSE /\ op.action \in allowed
    BY <1>1, UnguardedIsPublic
  <1>5. op \in spec.ops /\ addressOf(op) = r.address
    BY <1>1, <1>2, ServedAtItsAddress
  <1> HIDE DEF op
  <1>6. served'.answer = reply /\ served'.who = who /\ served'.request = r
    BY <1>3
  <1>7. UNCHANGED <<spec, split, tools, invoked>> /\ spec # None /\ invoked = None
    BY DEF Serve, DispatchInv
  <1>8. CallInv(served)'
    <2>1. SUFFICES ASSUME reply.call # None PROVE CallInv(served)'
      BY <1>6 DEF CallInv
    <2>2. /\ route.guarded = TRUE => op.action \in who.rights
          /\ reply.op = op /\ reply.call.args = bind(op, r, who) /\ bind(op, r, who) # Error
      <3>1. reply \in handlerFor(op, route.guarded, r, who)
        OBVIOUS
      <3>2. ASSUME route.guarded = TRUE PROVE op.action \in who.rights
        BY <2>1, <3>1, <3>2, GuardedHandlerAsks
      <3>3. reply.op = op /\ reply.call.args = bind(op, r, who) /\ bind(op, r, who) # Error
        BY <2>1, <3>1, HandlerCalls
      <3> QED
        BY <3>2, <3>3
    <2>3. op.action \in who.rights \cup spec.allowed
      BY <1>1, <1>4, <2>2
    <2> QED
      BY <1>5, <1>6, <1>7, <2>2, <2>3 DEF CallInv
  <1> QED
    BY <1>7, <1>8 DEF DispatchInv, Mounted, InvokedInv, ServedInv

\* A tool call is answered by an operation that is the caller's to do.
LEMMA RepeatKeeps ==
  ASSUME DispatchInv, Repeat
  PROVE  DispatchInv'
  <1> DEFINE Raw(tool) == ToolForm(tool.op, served.request)
             meta == IF served.request.headers = <<>> THEN None ELSE served.request.headers[1]
  <1>1. PICK tool \in tools :
          /\ tool.op = served.answer.op
          /\ \E reply \in invokerFor(tool, Raw(tool), meta, served.who) :
               invoked' = [who |-> served.who, answer |-> reply]
    BY Zenon DEF Repeat
  <1> HIDE DEF meta
  <1>2. PICK reply \in invokerFor(tool, Raw(tool), meta, served.who) :
          invoked' = [who |-> served.who, answer |-> reply]
    BY <1>1, Zenon
  <1>3. invoked'.answer = reply /\ invoked'.who = served.who
    BY <1>2
  <1>4. /\ UNCHANGED <<spec, split, tools, served>> /\ served # None /\ tools # None
        /\ served.answer.call # None
    BY DEF Repeat
  <1>5. ToolCallInv(invoked)'
    <2>1. SUFFICES ASSUME reply.call # None PROVE ToolCallInv(invoked)'
      BY <1>3 DEF ToolCallInv
    <2>2. /\ tool.op.action \in served.who.rights
          /\ reply.op = tool.op /\ reply.call.args = bindTool(tool, Raw(tool), served.who)
          /\ bindTool(tool, Raw(tool), served.who) # Error
      BY <1>2, <2>1, InvokerCalls
    <2>3. tool \in tools' /\ tool.op = invoked'.answer.op /\ served' = served
          /\ invoked'.answer.call.args
                = bindTool(tool, ToolForm(tool.op, served'.request), invoked'.who)
      BY <1>3, <1>4, <2>2
    <2>4. invoked'.answer.call.args # Error /\ invoked'.answer.op = served'.answer.op
          /\ invoked'.answer.op.action \in invoked'.who.rights
      BY <1>1, <1>3, <1>4, <2>2
    <2> QED
      BY <1>3, <1>4, <2>3, <2>4 DEF ToolCallInv
  <1> QED
    BY <1>4, <1>5 DEF DispatchInv, Mounted, ServedInv, CallInv, InvokedInv

\* DispatchInv holds in every state: the routes mounted are a validated table's,
\* and what a door answered was let in by it.
THEOREM DispatchInvariant == Spec => []DispatchInv
  <1>1. DispatchInv /\ [Next]_vars => DispatchInv'
    <2> SUFFICES ASSUME DispatchInv, [Next]_vars PROVE DispatchInv'
      OBVIOUS
    <2>1. CASE UNCHANGED vars
      BY <2>1 DEF vars, DispatchInv, Mounted, ServedInv, InvokedInv, CallInv, ToolCallInv
    <2>2. CASE Done
      BY <2>2 DEF Done, DispatchInv, Mounted, ServedInv, InvokedInv
    <2>3. CASE \E s \in Specs, allowed \in Anonymous : Load(s, allowed)
      BY <2>3, LoadKeeps
    <2>4. CASE \E r \in Requests, who \in Sessions : Serve(r, who)
      BY <2>4, ServeKeeps
    <2>5. CASE Repeat
      BY <2>5, RepeatKeeps
    <2> QED
      BY <2>1, <2>2, <2>3, <2>4, <2>5 DEF Next
  <1> QED
    BY <1>1, InitDispatchInv, PTL DEF Spec

\* The manager is called only for what is public or the caller's to do, whichever
\* alternative of a shared address the query selects; and a tool call, only for
\* what is the caller's.
THEOREM CallsAreAllowed == Spec => []CalledIsAllowed
  <1>1. DispatchInv => CalledIsAllowed
    BY DEF DispatchInv, ServedInv, InvokedInv, CallInv, ToolCallInv, CalledIsAllowed, Calls
  <1> QED
    BY <1>1, DispatchInvariant, PTL

\* An argument that overwrites a field is not an ignored one.
LEMMA IntoIsNotIgnored ==
  ASSUME NEW a, NEW declared, ValidArg(a, declared), a.into # ""
  PROVE  ~a.ignored
  <1>1. CASE fromSession(a)
    BY <1>1 DEF ValidArg, SessionArg
  <1>2. CASE ~fromSession(a) /\ a.ignored
    <2>1. ~positional(a)
      BY <1>2 DEF positional
    <2>2. IgnoredArg(a, declared)
      BY <1>2, <2>1 DEF ValidArg
    <2> QED
      BY <2>2 DEF IgnoredArg
  <1> QED
    BY <1>1, <1>2

\* Of several arguments that overwrite a field the last one is found.
LEMMA LastOverwrite ==
  ASSUME NEW s \in Specs, Validate(s), NEW op \in s, 
         NEW name \in {a.into : a \in Overwrites(op)}
  PROVE  LastInto(op, name) \in Overwrites(op) /\ LastInto(op, name).into = name
  <1> DEFINE N == {i \in DOMAIN op.args : op.args[i].into = name}
  <1>1. op.args \in Seq(Range(op.args))
    BY DispatchAssumption
  <1>2. Len(op.args) \in Nat /\ DOMAIN op.args = 1..Len(op.args)
    BY <1>1
  <1>3. N # {} /\ N \subseteq 1..Len(op.args)
    <2>1. PICK i \in DOMAIN op.args : op.args[i].into = name
      BY DEF Overwrites, Args, Range
    <2> QED
      BY <1>2, <2>1
  <1> DEFINE M == {Len(op.args) - i : i \in N}
  <1>4. M # {} /\ M \subseteq Nat
    <2> HIDE DEF N
    <2>1. \A i \in N : Len(op.args) - i \in Nat
      BY <1>2, <1>3
    <2> QED
      BY <1>3, <2>1
  <1>5. PICK m \in M : \A k \in M : ~(<<k, m>> \in OpToRel(<, Nat))
    BY <1>4, WFMin, NatLessThanWellFounded
  <1>6. PICK x \in N : m = Len(op.args) - x
    OBVIOUS
  <1>7. \A y \in N : x >= y
    <2> SUFFICES ASSUME NEW y \in N PROVE x >= y
      OBVIOUS
    <2>1. Len(op.args) - y \in M /\ Len(op.args) - y \in Nat /\ m \in Nat
      BY <1>4
    <2>2. ~(Len(op.args) - y < m)
      BY <1>5, <2>1 DEF OpToRel
    <2> QED
      BY <1>2, <1>3, <1>6, <2>2
  <1>8. Max(N) \in N
    BY <1>7 DEF Max
  <1> DEFINE last == op.args[Max(N)]
  <1>9. last \in Args(op) /\ last.into = name /\ name # ""
    BY <1>8 DEF Args, Range, Overwrites
  <1>10. validate(op)
    BY DEF Validate
  <1>11. ~last.ignored
    <2>1. ValidArg(last, PathParams[op.path])
      BY <1>9, <1>10 DEF validate
    <2> QED
      BY <1>9, <2>1, IntoIsNotIgnored
  <1> QED
    BY <1>9, <1>11 DEF Overwrites, LastInto

\* A whole request that is bound holds, in a field that an argument overwrites,
\* what the path or the session said, whatever its body or query said; and every
\* overwrite reads.
LEMMA OverwriteOutranks ==
  ASSUME NEW s \in Specs, Validate(s), NEW op \in s, NEW sl, NEW r, NEW who,
         NEW v, v = overwrite(op, sl, wholeValue(op, sl, r), r, who), v # Error,
         NEW name \in {a.into : a \in Overwrites(op)}
  PROVE  LET a == LastInto(op, name)
             given == fromText(IF fromSession(a) THEN callerOf(a, who) ELSE r.path[a.as],
                               Field(sl.fields, name).kind)
         IN  v[name] = given /\ given # Error
  <1> DEFINE target == wholeValue(op, sl, r)
             Here(b, kind) ==
                fromText(IF fromSession(b) THEN callerOf(b, who) ELSE r.path[b.as], kind)
             into == {b.into : b \in Overwrites(op)}
             KindOf(n) == Field(sl.fields, n).kind
  <1>1. /\ into \subseteq DOMAIN target
        /\ \A b \in Overwrites(op) : Here(b, KindOf(b.into)) # Error
        /\ v = [n \in DOMAIN target |->
                IF n \in into THEN Here(LastInto(op, n), KindOf(n)) ELSE target[n]]
    BY DEF overwrite, Overwritten
  <1>2. name \in DOMAIN target
    <2>1. name \in into
      OBVIOUS
    <2> HIDE DEF target, into
    <2> QED
      BY <1>1, <2>1
  <1>3. LastInto(op, name) \in Overwrites(op) /\ LastInto(op, name).into = name
    BY LastOverwrite
  <1> QED
    BY <1>1, <1>2, <1>3

\* A whole argument is not the session's, is not repeated, and is the only one.
LEMMA WholeIsAlone ==
  ASSUME NEW s \in Specs, Validate(s), NEW op \in s, NEW i \in DOMAIN planFor(op),
         planFor(op)[i].arg.whole
  PROVE  /\ ~fromSession(planFor(op)[i].arg) /\ ~planFor(op)[i].arg.repeated
         /\ \A j \in DOMAIN planFor(op) : planFor(op)[j].arg.whole => j = i
  <1>1. DOMAIN planFor(op) = Positional(op)
        /\ \A j \in Positional(op) : planFor(op)[j].arg = op.args[j]
    BY DEF planFor
  <1> DEFINE a == op.args[i]
  <1>2. validate(op)
    BY DEF Validate
  <1>3. ValidArg(a, PathParams[op.path]) /\ positional(a) /\ a.whole
    BY <1>1, <1>2 DEF validate, Positional, Args, Range
  <1> HIDE DEF a
  <1>4. ~fromSession(a)
    BY <1>3 DEF ValidArg, SessionArg
  <1>5. WholeArg(a)
    BY <1>3, <1>4 DEF ValidArg, positional
  <1>6. \A j \in DOMAIN planFor(op) : planFor(op)[j].arg.whole => j = i
    BY <1>1, <1>2 DEF validate, Wholes
  <1> QED
    BY <1>1, <1>4, <1>5, <1>6 DEF WholeArg, a

\* A whole slot of an HTTP call holds what the address and the session say.
LEMMA HttpSlotOutranks ==
  ASSUME NEW s \in Specs, Validate(s), NEW op \in s, NEW r, NEW who,
         bind(op, r, who) # Error,
         NEW i \in DOMAIN planFor(op), planFor(op)[i].arg.whole,
         NEW name \in {a.into : a \in Overwrites(op)}
  PROVE  LET a == LastInto(op, name)
             given == fromText(IF fromSession(a) THEN callerOf(a, who) ELSE r.path[a.as],
                               Field(planFor(op)[i].fields, name).kind)
         IN  bind(op, r, who)[i][1][name] = given /\ given # Error
  <1> DEFINE sl == planFor(op)[i]
             slots == [j \in DOMAIN planFor(op) |-> BindSlot(op, planFor(op)[j], r, who)]
             v == overwrite(op, sl, wholeValue(op, sl, r), r, who)
  <1>1. bind(op, r, who) = Bound(slots)
    BY DEF bind
  <1>2. bind(op, r, who) = slots /\ Error \notin Range(slots[i])
    <2> HIDE DEF slots
    <2>1. i \in DOMAIN slots
      BY DEF slots
    <2> QED
      BY <1>1, <2>1 DEF Bound
  <1>3. slots[i] = BindSlot(op, sl, r, who)
    OBVIOUS
  <1> HIDE DEF slots, v
  <1>4. slots[i] = <<v>>
    BY <1>3 DEF BindSlot, v
  <1>5. v # Error
    BY <1>2, <1>4 DEF Range
  <1> HIDE DEF sl
  <1>6. LET a == LastInto(op, name)
            given == fromText(IF fromSession(a) THEN callerOf(a, who) ELSE r.path[a.as],
                              Field(sl.fields, name).kind)
        IN  v[name] = given /\ given # Error
    BY <1>5, OverwriteOutranks DEF v
  <1> QED
    BY <1>2, <1>4, <1>6 DEF sl

\* A text that reads over HTTP reads alike when a tool call says it.
LEMMA SaidReads ==
  ASSUME NEW x, NEW kind, NEW in, NEW key \in DOMAIN in,
         fromText(x, kind) # Error, in[key] = fromText(x, kind)
  PROVE  valueFromArgs(in, key, kind) = fromText(x, kind)
  <1>1. \A texts : Value(kind, texts).t = kind
    BY DEF Value
  <1>2. Zero(kind).t = kind
    BY <1>1 DEF Zero
  <1>3. in[key].t = kind
    BY <1>1, <1>2 DEF fromText, Unmarshal
  <1>4. Unmarshal(in[key], kind) = in[key]
    BY <1>3 DEF Unmarshal
  <1> QED
    BY <1>4 DEF valueFromArgs

\* A tool's operation fits a tool, and its properties are the operation's.
LEMMA ToolShape ==
  ASSUME NEW s, NEW tool \in Tools(s), Tools(s) # None
  PROVE  ToolFits(tool.op) /\ tool.props = properties(tool.op)
  <1> DEFINE public == {op \in Built(s) : ~op.noTool}
  <1>1. /\ \A op \in public : ToolFits(op)
        /\ Tools(s) = {[name |-> publishedName(op), op |-> op, props |-> properties(op)] :
                        op \in public}
    BY DEF Tools
  <1>2. PICK op \in public :
          tool = [name |-> publishedName(op), op |-> op, props |-> properties(op)]
    BY <1>1
  <1> QED
    BY <1>1, <1>2

\* What an argument of the address overwrites is a required property of its own.
LEMMA AddressedIsRequired ==
  ASSUME NEW op, NEW a \in Overwrites(op), ~fromSession(a)
  PROVE  [key |-> a.as, required |-> TRUE, by |-> <<0, a.into>>] \in properties(op)
  <1> DEFINE Own(b) == [key |-> b.as, required |-> TRUE, by |-> <<0, b.into>>]
             into == {b \in Overwrites(op) : ~fromSession(b)}
  <1>1. PICK others : properties(op) = others \cup {Own(b) : b \in into}
    BY Zenon DEF properties
  <1>2. Own(a) \in {Own(b) : b \in into}
    OBVIOUS
  <1> HIDE DEF Own
  <1>3. Own(a) \in properties(op)
    BY <1>1, <1>2
  <1> QED
    BY <1>3 DEF Own

\* A tool call that says a request again says what the address gives a field as
\* the address has it.
LEMMA AddressIsSaid ==
  ASSUME NEW s \in Specs, Validate(s), NEW op \in s, ToolFits(op), NEW r,
         NEW i \in DOMAIN planFor(op), planFor(op)[i].arg.whole,
         NEW a \in Overwrites(op), ~fromSession(a)
  PROVE  /\ a.as \in DOMAIN ToolForm(op, r)
         /\ ToolForm(op, r)[a.as]
                = fromText(r.path[a.as], Field(planFor(op)[i].fields, a.into).kind)
  <1> DEFINE plan == planFor(op)
             slots == {j \in DOMAIN plan : ~fromSession(plan[j].arg)}
             whole == CHOOSE j \in slots : plan[j].arg.whole
             into == {b \in Overwrites(op) : ~fromSession(b)}
             Addressed(key) == {b \in into : b.as = key}
             said == (UNION {SaidSlot(plan[j], r) : j \in slots})
                 \cup (UNION {SaidBody(op, plan[j], r) :
                        j \in {k \in slots : plan[k].arg.whole /\ plan[k].arg.from = "body"}})
             b == CHOOSE x \in Addressed(a.as) : TRUE
  <1>1. ToolForm(op, r) =
          [key \in {p[1] : p \in said} \cup {x.as : x \in into} |->
            IF Addressed(key) # {}
            THEN fromText(r.path[key], Field(plan[whole].fields, (CHOOSE x \in Addressed(key) : TRUE).into).kind)
            ELSE (CHOOSE p \in said : p[1] = key)[2]]
    BY Zenon DEF ToolForm
  <1>2. i \in slots /\ \A j \in DOMAIN plan : plan[j].arg.whole => j = i
    BY WholeIsAlone
  <1>3. whole = i
    <2> HIDE DEF plan
    <2>1. i \in slots /\ plan[i].arg.whole
      BY <1>2 DEF plan
    <2>2. whole \in slots /\ plan[whole].arg.whole
      BY <2>1
    <2> QED
      BY <1>2, <2>2
  <1>4. a \in Addressed(a.as)
    OBVIOUS
  <1>5. b \in Addressed(a.as)
    BY <1>4
  <1>6. b.into = a.into
    <2> HIDE DEF b
    <2>1. b \in Overwrites(op) /\ ~fromSession(b) /\ b.as = a.as
      BY <1>5
    <2> DEFINE p == [key |-> a.as, required |-> TRUE, by |-> <<0, a.into>>]
               q == [key |-> b.as, required |-> TRUE, by |-> <<0, b.into>>]
    <2>2. p \in properties(op) /\ q \in properties(op)
      BY <2>1, AddressedIsRequired
    <2>3. \A x, y \in properties(op) : x.key = y.key => x = y
      BY Zenon DEF ToolFits
    <2>4. p = q
      BY <2>1, <2>2, <2>3
    <2>5. p.by = q.by
      BY <2>4
    <2> QED
      BY <2>5
  <1> HIDE DEF plan, slots, whole, said, Addressed, b
  <1>7. a.as \in {x.as : x \in into} /\ Addressed(a.as) # {}
    BY <1>4
  <1>8. ToolForm(op, r)[a.as] = fromText(r.path[a.as], Field(plan[whole].fields, b.into).kind)
    BY <1>1, <1>7 DEF b
  <1> QED
    BY <1>1, <1>3, <1>6, <1>7, <1>8 DEF plan

\* A whole slot of a tool call that says a request again holds what the address
\* and the session say.
LEMMA ToolSlotOutranks ==
  ASSUME NEW s \in Specs, Validate(s), NEW op \in s, ToolFits(op),
         NEW r \in Requests, addressOf(op) = r.address, NEW who, bind(op, r, who) # Error,
         NEW tool, tool.op = op, tool.props = properties(op),
         bindTool(tool, ToolForm(op, r), who) # Error,
         NEW i \in DOMAIN planFor(op), planFor(op)[i].arg.whole,
         NEW name \in {a.into : a \in Overwrites(op)}
  PROVE  LET a == LastInto(op, name)
         IN  bindTool(tool, ToolForm(op, r), who)[i][1][name] =
                fromText(IF fromSession(a) THEN callerOf(a, who) ELSE r.path[a.as],
                         Field(planFor(op)[i].fields, name).kind)
  <1> DEFINE raw == ToolForm(op, r)
             in == arguments(raw)
             sl == planFor(op)[i]
             slots == [j \in DOMAIN planFor(op) |-> BindToolSlot(op, planFor(op)[j], in, who)]
             v == overwriteFromArgs(op, sl, wholeFromArgs(sl, in), in, who)
             required == {p.key : p \in {q \in tool.props : q.required}}
             a == LastInto(op, name)
             kind == Field(sl.fields, name).kind
  <1>1. bindTool(tool, raw, who) = Bound(slots) /\ required \subseteq DOMAIN in
    BY Zenon DEF bindTool
  <1>2. bindTool(tool, raw, who) = slots /\ Error \notin Range(slots[i])
    <2> HIDE DEF slots, raw
    <2>1. i \in DOMAIN slots
      BY DEF slots
    <2> QED
      BY <1>1, <2>1 DEF Bound, raw
  <1>3. slots[i] = <<v>>
    <2>1. slots[i] = BindToolSlot(op, sl, in, who)
      OBVIOUS
    <2>2. sl.arg.whole /\ ~fromSession(sl.arg) /\ ~sl.arg.repeated
      BY WholeIsAlone
    <2> HIDE DEF slots, sl, in
    <2> QED
      BY <2>1, <2>2 DEF BindToolSlot
  <1>4. v # Error
    <2> HIDE DEF slots, v
    <2> QED
      BY <1>2, <1>3 DEF Range
  <1>5. a \in Overwrites(op) /\ a.into = name
    BY LastOverwrite
  <1>6. v[name] = IF fromSession(a) THEN fromText(callerOf(a, who), kind)
                  ELSE valueFromArgs(in, a.as, kind)
    <2> DEFINE target == wholeFromArgs(sl, in)
               into == {b.into : b \in Overwrites(op)}
               Here(b, k) == IF fromSession(b) THEN fromText(callerOf(b, who), k)
                             ELSE valueFromArgs(in, b.as, k)
    <2> HIDE DEF in, sl
    <2>1. /\ into \subseteq DOMAIN target
          /\ v = [n \in DOMAIN target |->
                    IF n \in into THEN Here(LastInto(op, n), Field(sl.fields, n).kind)
                    ELSE target[n]]
      BY <1>4 DEF overwriteFromArgs, Overwritten
    <2> HIDE DEF target, v
    <2>2. name \in into
      OBVIOUS
    <2> QED
      BY <2>1, <2>2
  <1>7. CASE fromSession(a)
    <2> HIDE DEF slots, v, a, raw, in
    <2> QED
      BY <1>2, <1>3, <1>6, <1>7 DEF a, raw
  <1>8. CASE ~fromSession(a)
    <2>1. a.as \in DOMAIN in
      <3>1. [key |-> a.as, required |-> TRUE, by |-> <<0, a.into>>] \in properties(op)
        BY <1>5, <1>8, AddressedIsRequired
      <3>2. a.as \in required
        BY <3>1
      <3> HIDE DEF in, required
      <3> QED
        BY <1>1, <3>2
    <2>2. in = raw
      <3> HIDE DEF raw
      <3>1. CASE raw = None
        BY <2>1, <3>1 DEF arguments, Empty
      <3> QED
        BY <3>1 DEF arguments
    <2>3. in[a.as] = fromText(r.path[a.as], kind)
      BY <1>5, <1>8, <2>2, AddressIsSaid
    <2>5. fromText(r.path[a.as], kind) # Error
      BY <1>8, HttpSlotOutranks
    <2> HIDE DEF in, kind, a
    <2>6. valueFromArgs(in, a.as, kind) = fromText(r.path[a.as], kind)
      BY <2>1, <2>3, <2>5, SaidReads
    <2> HIDE DEF slots, v, raw
    <2> QED
      BY <1>2, <1>3, <1>6, <1>8, <2>6 DEF raw, a, kind
  <1> QED
    BY <1>7, <1>8

\* Whatever the body or the arguments of a call say, a field that an argument of
\* the table overwrites reaches the manager as the path or the session gives it,
\* at both doors.
THEOREM AddressOutranks == Spec => []AddressOutranksTheBody
  <1>1. ASSUME DispatchInv PROVE AddressOutranksTheBody
    <2> DEFINE Held(c, i, name) ==
            LET op == c.answer.op
                a == LastInto(op, name)
            IN  c.answer.call.args[i][1][name] =
                    fromText(IF fromSession(a) THEN callerOf(a, c.who)
                             ELSE served.request.path[a.as],
                             Field(planFor(op)[i].fields, name).kind)
    <2>1. SUFFICES ASSUME NEW c \in Calls, NEW i \in DOMAIN planFor(c.answer.op),
                          NEW name \in {a.into : a \in Overwrites(c.answer.op)},
                          planFor(c.answer.op)[i].arg.whole
                   PROVE  Held(c, i, name)
      BY Zenon DEF AddressOutranksTheBody
    <2>2. c \in {served, invoked} /\ c # None /\ c.answer.call # None
      BY DEF Calls
    <2>3. served # None /\ spec # None /\ served.answer.call # None
          /\ c.answer.op = served.answer.op /\ c.who = served.who
      BY <1>1, <2>2 DEF DispatchInv, InvokedInv, ToolCallInv
    <2> DEFINE op == served.answer.op
               r == served.request
               who == served.who
    <2>4. /\ op \in spec.ops /\ addressOf(op) = r.address /\ r \in Requests
          /\ served.answer.call.args = bind(op, r, who) /\ bind(op, r, who) # Error
      BY <1>1, <2>3 DEF DispatchInv, ServedInv, CallInv
    <2>5. PICK s \in Specs : Validate(s) /\ op \in s /\ tools = Tools(s)
      BY <1>1, <2>3, <2>4 DEF DispatchInv, Mounted
    <2>6. CASE c = served
      BY <2>1, <2>2, <2>4, <2>5, <2>6, HttpSlotOutranks
    <2>7. CASE c = invoked
      <3>1. PICK tool \in tools :
              tool.op = op /\ c.answer.call.args = bindTool(tool, ToolForm(op, r), who)
        BY <1>1, <2>2, <2>3, <2>7 DEF DispatchInv, InvokedInv, ToolCallInv
      <3>2. tools # None /\ c.answer.call.args # Error
        BY <1>1, <2>2, <2>7 DEF DispatchInv, InvokedInv, ToolCallInv
      <3>3. ToolFits(op) /\ tool.props = properties(op)
        BY <2>5, <3>1, <3>2, ToolShape
      <3> QED
        BY <2>1, <2>3, <2>4, <2>5, <3>1, <3>2, <3>3, ToolSlotOutranks
    <2> QED
      BY <2>2, <2>6, <2>7
  <1> QED
    BY <1>1, DispatchInvariant, PTL
-----------------------------------------------------------------------------
(* Recur: what the wire form keeps of a schedule. *)

\* A rule that Validate accepted, as ParseRule or a caller builds it.
RuleInv(r) ==
    /\ r = [freq |-> r.freq, interval |-> r.interval, byDay |-> r.byDay,
            byMonthDay |-> r.byMonthDay, byMonth |-> r.byMonth]
    /\ ValidRule(r)
    /\ r.interval \in Int
    /\ Invalid \notin {r.freq, r.interval}
    /\ r.byDay # {} => r.byDay # Invalid
    /\ r.byMonthDay # {} => r.byMonthDay # Invalid
    /\ r.byMonth # {} => r.byMonth # Invalid

\* A schedule as Wire.Schedule answers it.
ScheduleInv(s) ==
    /\ s = [start |-> s.start, end |-> s.end, zone |-> s.zone, rule |-> s.rule,
            dates |-> s.dates, openDays |-> s.openDays]
    /\ ValidSchedule(s)
    /\ s.start \in Int
    /\ s.end \in Int \cup {Nil}
    /\ s.zone \in Zones /\ s.zone # Invalid
    /\ s.rule # Nil => RuleInv(s.rule)
    /\ s.rule # Invalid
    /\ \A i \in DOMAIN s.dates : s.dates[i] # Invalid
    /\ s.dates # <<>> => s.end # Nil

\* The inductive invariant: the occurrences are those of the schedule in hand.
RecurInv ==
    schedule # Nil => ScheduleInv(schedule) /\ occurs = Occurrences(schedule)

\* The parts of a text: which they are, each key once.
HasParts(text, parts) ==
    /\ text \in Seq(parts)
    /\ \A p \in parts : \E i \in DOMAIN text : text[i] = p
    /\ \A i, j \in DOMAIN text : text[i].key = text[j].key => i = j

\* A part with a new key at the end of a text.
LEMMA OnePartMore ==
  ASSUME NEW text, NEW parts, HasParts(text, parts), NEW p,
         \A q \in parts : q.key # p.key
  PROVE  HasParts(text \o <<p>>, parts \cup {p})
  <1> DEFINE longer == text \o <<p>>
             n == Len(text) + 1
  <1>1. text \in Seq(parts \cup {p}) /\ Len(text) \in Nat
    BY DEF HasParts
  <1>2. longer \in Seq(parts \cup {p}) /\ DOMAIN longer = DOMAIN text \cup {n}
    BY <1>1
  <1>3. longer[n] = p /\ n \notin DOMAIN text /\ \A i \in DOMAIN text : longer[i] = text[i]
    BY <1>1
  <1> HIDE DEF longer, n
  <1>4. \A i \in DOMAIN text : text[i] \in parts
    BY DEF HasParts
  <1>5. \A q \in parts \cup {p} : \E i \in DOMAIN longer : longer[i] = q
    BY <1>2, <1>3 DEF HasParts
  <1>6. \A i, j \in DOMAIN longer : longer[i].key = longer[j].key => i = j
    BY <1>2, <1>3, <1>4 DEF HasParts
  <1> QED
    BY <1>2, <1>5, <1>6 DEF HasParts, longer

\* A part that is there gives its value.
LEMMA GivenIs ==
  ASSUME NEW text, NEW parts, HasParts(text, parts), NEW default, NEW p \in parts
  PROVE  Given(text, p.key, default) = p.value
  <1> DEFINE i == CHOOSE k \in DOMAIN text : text[k].key = p.key
  <1>1. PICK k \in DOMAIN text : text[k] = p
    BY DEF HasParts
  <1>2. i \in DOMAIN text /\ text[i].key = p.key
    BY <1>1
  <1>3. i = k
    BY <1>1, <1>2 DEF HasParts
  <1> QED
    BY <1>1, <1>3 DEF Given

\* A key no part has leaves the default.
LEMMA GivenNot ==
  ASSUME NEW text, NEW parts, HasParts(text, parts), NEW default, NEW key,
         \A p \in parts : p.key # key
  PROVE  Given(text, key, default) = default
  BY DEF HasParts, Given

\* A part that is written if it is given, as text and as a set of parts.
PartText(k, v, given) == IF given THEN <<[key |-> k, value |-> v]>> ELSE <<>>
PartSet(k, v, given) == IF given THEN {[key |-> k, value |-> v]} ELSE {}

\* A part that is left out or written last.
LEMMA PerhapsOneMore ==
  ASSUME NEW text, NEW parts, HasParts(text, parts), NEW k, NEW v, NEW given,
         \A q \in parts : q.key # k
  PROVE  HasParts(text \o PartText(k, v, given), parts \cup PartSet(k, v, given))
  <1>1. CASE given
    <2>1. HasParts(text \o <<[key |-> k, value |-> v]>>, parts \cup {[key |-> k, value |-> v]})
      BY OnePartMore
    <2> QED
      BY <1>1, <2>1 DEF PartText, PartSet
  <1>2. CASE ~given
    <2>1. text \o <<>> = text
      BY DEF HasParts
    <2> QED
      BY <1>2, <2>1 DEF PartText, PartSet
  <1> QED
    BY <1>1, <1>2

RulePart(k, v) == [key |-> k, value |-> v]

\* The parts String writes of a rule.
RuleParts(r) ==
    {RulePart("FREQ", r.freq)}
    \cup (IF r.interval > 1 THEN {RulePart("INTERVAL", r.interval)} ELSE {})
    \cup (IF r.byDay # {} THEN {RulePart("BYDAY", r.byDay)} ELSE {})
    \cup (IF r.byMonthDay # {} THEN {RulePart("BYMONTHDAY", r.byMonthDay)} ELSE {})
    \cup (IF r.byMonth # {} THEN {RulePart("BYMONTH", r.byMonth)} ELSE {})

\* String writes the parts of a rule, each once.
LEMMA WrittenParts ==
  ASSUME NEW r
  PROVE  HasParts(RuleString(r), RuleParts(r))
  <1> DEFINE t1 == <<[key |-> "FREQ", value |-> r.freq]>>
             p1 == {[key |-> "FREQ", value |-> r.freq]}
             t2 == t1 \o PartText("INTERVAL", r.interval, r.interval > 1)
             p2 == p1 \cup PartSet("INTERVAL", r.interval, r.interval > 1)
             t3 == t2 \o PartText("BYDAY", r.byDay, r.byDay # {})
             p3 == p2 \cup PartSet("BYDAY", r.byDay, r.byDay # {})
             t4 == t3 \o PartText("BYMONTHDAY", r.byMonthDay, r.byMonthDay # {})
             p4 == p3 \cup PartSet("BYMONTHDAY", r.byMonthDay, r.byMonthDay # {})
             t5 == t4 \o PartText("BYMONTH", r.byMonth, r.byMonth # {})
             p5 == p4 \cup PartSet("BYMONTH", r.byMonth, r.byMonth # {})
  <1>1. HasParts(t1, p1) /\ \A p \in p1 : p.key = "FREQ"
    BY DEF HasParts
  <1>2. \A p \in p2 : p.key \in {"FREQ", "INTERVAL"}
    BY DEF PartSet
  <1>3. HasParts(t2, p2)
    <2> HIDE DEF t1, p1
    <2> QED
      BY <1>1, PerhapsOneMore
  <1>4. \A p \in p3 : p.key \in {"FREQ", "INTERVAL", "BYDAY"}
    <2> HIDE DEF p2
    <2> QED
      BY <1>2 DEF PartSet
  <1>5. HasParts(t3, p3)
    <2> HIDE DEF t2, p2
    <2> QED
      BY <1>2, <1>3, PerhapsOneMore
  <1>6. \A p \in p4 : p.key \in {"FREQ", "INTERVAL", "BYDAY", "BYMONTHDAY"}
    <2> HIDE DEF p3
    <2> QED
      BY <1>4 DEF PartSet
  <1>7. HasParts(t4, p4)
    <2> HIDE DEF t3, p3
    <2> QED
      BY <1>4, <1>5, PerhapsOneMore
  <1>8. HasParts(t5, p5)
    <2> HIDE DEF t4, p4
    <2> QED
      BY <1>6, <1>7, PerhapsOneMore
  <1>9. RuleString(r) = t5
    BY DEF RuleString, PartText
  <1>10. RuleParts(r) = p5
    BY DEF RuleParts, RulePart, PartSet
  <1> QED
    BY <1>8, <1>9, <1>10

\* Of an accepted rule, ParseRule reads back what String wrote.
LEMMA RuleReadsBack ==
  ASSUME NEW r, RuleInv(r)
  PROVE  RuleString(r) # <<>> /\ ParseRule(RuleString(r)) = r
  <1> DEFINE text == RuleString(r)
             parts == RuleParts(r)
  <1>1. HasParts(text, parts)
    BY WrittenParts
  <1>2. \A p \in parts : p.key \in RuleKeys /\ p.value # Invalid
    BY DEF RuleParts, RulePart, RuleKeys, RuleInv
  <1> HIDE DEF text
  <1>3. Given(text, "FREQ", Nil) = r.freq
    <2>1. RulePart("FREQ", r.freq) \in parts
      BY DEF RuleParts
    <2> QED
      BY <1>1, <2>1, GivenIs DEF RulePart
  <1>4. Given(text, "INTERVAL", 1) = r.interval
    <2>1. CASE r.interval > 1
      <3>1. RulePart("INTERVAL", r.interval) \in parts
        BY <2>1 DEF RuleParts
      <3> QED
        BY <1>1, <3>1, GivenIs DEF RulePart
    <2>2. CASE ~(r.interval > 1)
      <3>1. \A p \in parts : p.key # "INTERVAL"
        BY <2>2 DEF RuleParts, RulePart
      <3>2. r.interval = 1
        BY <2>2 DEF RuleInv, ValidRule
      <3> HIDE DEF parts
      <3> QED
        BY <1>1, <3>1, <3>2, GivenNot
    <2> QED
      BY <2>1, <2>2
  <1>5. Given(text, "BYDAY", {}) = r.byDay
    <2>1. CASE r.byDay # {}
      <3>1. RulePart("BYDAY", r.byDay) \in parts
        BY <2>1 DEF RuleParts
      <3> QED
        BY <1>1, <3>1, GivenIs DEF RulePart
    <2>2. CASE r.byDay = {}
      <3>1. \A p \in parts : p.key # "BYDAY"
        BY <2>2 DEF RuleParts, RulePart
      <3> HIDE DEF parts
      <3> QED
        BY <1>1, <2>2, <3>1, GivenNot
    <2> QED
      BY <2>1, <2>2
  <1>6. Given(text, "BYMONTHDAY", {}) = r.byMonthDay
    <2>1. CASE r.byMonthDay # {}
      <3>1. RulePart("BYMONTHDAY", r.byMonthDay) \in parts
        BY <2>1 DEF RuleParts
      <3> QED
        BY <1>1, <3>1, GivenIs DEF RulePart
    <2>2. CASE r.byMonthDay = {}
      <3>1. \A p \in parts : p.key # "BYMONTHDAY"
        BY <2>2 DEF RuleParts, RulePart
      <3> HIDE DEF parts
      <3> QED
        BY <1>1, <2>2, <3>1, GivenNot
    <2> QED
      BY <2>1, <2>2
  <1>7. Given(text, "BYMONTH", {}) = r.byMonth
    <2>1. CASE r.byMonth # {}
      <3>1. RulePart("BYMONTH", r.byMonth) \in parts
        BY <2>1 DEF RuleParts
      <3> QED
        BY <1>1, <3>1, GivenIs DEF RulePart
    <2>2. CASE r.byMonth = {}
      <3>1. \A p \in parts : p.key # "BYMONTH"
        BY <2>2 DEF RuleParts, RulePart
      <3> HIDE DEF parts
      <3> QED
        BY <1>1, <2>2, <3>1, GivenNot
    <2> QED
      BY <2>1, <2>2
  <1>8. [freq |-> Given(text, "FREQ", Nil), interval |-> Given(text, "INTERVAL", 1),
         byDay |-> Given(text, "BYDAY", {}), byMonthDay |-> Given(text, "BYMONTHDAY", {}),
         byMonth |-> Given(text, "BYMONTH", {})] = r
    BY <1>3, <1>4, <1>5, <1>6, <1>7 DEF RuleInv
  <1>9. text # <<>>
    <2>1. RulePart("FREQ", r.freq) \in parts
      BY DEF RuleParts
    <2> QED
      BY <1>1, <2>1 DEF HasParts
  <1>10. /\ \A i \in DOMAIN text : text[i].key \in RuleKeys /\ text[i].value # Invalid
         /\ \A i, j \in DOMAIN text : text[i].key = text[j].key => i = j
    <2> HIDE DEF parts
    <2> QED
      BY <1>1, <1>2 DEF HasParts
  <1>11. ParseRule(text) = r
    BY <1>8, <1>10 DEF ParseRule, RuleInv
  <1> QED
    BY <1>9, <1>11 DEF text

\* What a part gives was read, or is the default.
LEMMA GivenIsRead ==
  ASSUME NEW parts, NEW key, NEW default, \A i \in DOMAIN parts : parts[i].value # Invalid
  PROVE  \/ Given(parts, key, default) = default
         \/ /\ Given(parts, key, default) # Invalid
            /\ \E i \in DOMAIN parts :
                parts[i].key = key /\ Given(parts, key, default) = parts[i].value
  <1> DEFINE i == CHOOSE k \in DOMAIN parts : parts[k].key = key
  <1>1. CASE \E k \in DOMAIN parts : parts[k].key = key
    <2>1. i \in DOMAIN parts /\ parts[i].key = key
      BY <1>1
    <2>2. Given(parts, key, default) = parts[i].value
      BY <1>1 DEF Given
    <2> HIDE DEF i
    <2> QED
      BY <2>1, <2>2
  <1>2. CASE ~(\E k \in DOMAIN parts : parts[k].key = key)
    BY <1>2 DEF Given
  <1> QED
    BY <1>1, <1>2

\* ParseRule answers a rule Validate accepts, or an error.
LEMMA ParsedRule ==
  ASSUME NEW w \in Wires, ParseRule(w.rule) # Invalid
  PROVE  RuleInv(ParseRule(w.rule))
  <1> DEFINE parts == w.rule
             freq == Given(parts, "FREQ", Nil)
             interval == Given(parts, "INTERVAL", 1)
             byDay == Given(parts, "BYDAY", {})
             byMonthDay == Given(parts, "BYMONTHDAY", {})
             byMonth == Given(parts, "BYMONTH", {})
             r == [freq |-> freq, interval |-> interval, byDay |-> byDay,
                   byMonthDay |-> byMonthDay, byMonth |-> byMonth]
  <1>1. /\ \A i \in DOMAIN parts : parts[i].value # Invalid
        /\ ValidRule(r) /\ ParseRule(parts) = r
    BY DEF ParseRule
  <1>2. freq # Invalid
    BY <1>1, GivenIsRead, RecurAssumption
  <1>3. interval \in Int /\ interval # Invalid
    <2>1. \A i \in DOMAIN parts : parts[i].key = "INTERVAL" => parts[i].value \in Int
      BY <1>1, RecurAssumption
    <2> QED
      BY <1>1, <2>1, GivenIsRead, RecurAssumption
  <1>4. /\ byDay # {} => byDay # Invalid
        /\ byMonthDay # {} => byMonthDay # Invalid
        /\ byMonth # {} => byMonth # Invalid
    BY <1>1, GivenIsRead
  <1> HIDE DEF freq, interval, byDay, byMonthDay, byMonth
  <1> QED
    BY <1>1, <1>2, <1>3, <1>4 DEF RuleInv

\* What ReadSchedule answers is in order.
LEMMA ReadIsInOrder ==
  ASSUME NEW w \in Wires, Schedule(w) # Invalid
  PROVE  ScheduleInv(Schedule(w))
  <1> DEFINE rule == IF w.rule = <<>> THEN Nil ELSE ParseRule(w.rule)
             s == [start |-> w.start, end |-> w.end, zone |-> w.zone, rule |-> rule,
                   dates |-> w.dates, openDays |-> w.openDays]
  <1>1. /\ w.start # Invalid /\ w.end # Invalid /\ w.zone # Invalid /\ rule # Invalid
        /\ \A i \in DOMAIN w.dates : w.dates[i] # Invalid
        /\ w.dates # <<>> => w.end # Nil
        /\ ValidSchedule(s) /\ Schedule(w) = s
    BY DEF Schedule
  <1>2. rule # Nil => RuleInv(rule)
    BY <1>1, ParsedRule
  <1> HIDE DEF rule
  <1>3. /\ w.start \in Int /\ w.end \in Int \cup {Nil} /\ w.zone \in Zones
    BY <1>1, RecurAssumption DEF ValidSchedule
  <1> QED
    BY <1>1, <1>2, <1>3 DEF ScheduleInv

\* Truncating drops the instant after a clock reading, if there is one.
LEMMA FloorIs ==
  ASSUME NEW t \in Int
  PROVE  /\ Floor(t) \in Int /\ Floor(t) % 2 = 0
         /\ Floor(t) <= t /\ t <= Floor(t) + 1
  BY DEF Floor

\* A whole second does not tell an instant from its own second, unless it is that
\* second.
LEMMA WholeBelow ==
  ASSUME NEW t \in Int, NEW u \in Int, u % 2 = 0
  PROVE  /\ u <= t <=> u <= Floor(t)
         /\ u < t => u <= Floor(t)
         /\ u >= Floor(t) => u >= t \/ u = Floor(t)
         /\ t < u <=> Floor(t) < u
  <1> DEFINE f == Floor(t)
  <1>1. f \in Int /\ f % 2 = 0 /\ f <= t /\ t <= f + 1
    BY FloorIs
  <1> HIDE DEF f
  <1>2. u # f + 1
    BY <1>1
  <1> QED
    BY <1>1, <1>2 DEF f

\* A zone's changes are counted, and its offsets are whole seconds.
LEMMA OffsetIsWhole ==
  ASSUME NEW z \in Zones, NEW t \in Int
  PROVE  Changes(z, t) \in Nat /\ Offset(z, t) \in Int /\ Offset(z, t) % 2 = 0
  <1> DEFINE N == Len(z.at)
             P == {i \in DOMAIN z.at : z.at[i] <= t}
  <1>1. /\ N \in Nat /\ DOMAIN z.at = 1..N
        /\ z.offset \in Seq({x \in Int : x % 2 = 0}) /\ Len(z.offset) = N + 1
    BY DEF Zones
  <1>2. P \in SUBSET (1..N)
    BY <1>1
  <1>3. IsFiniteSet(1..N) /\ Cardinality(1..N) = N
    BY <1>1, FS_Interval
  <1> HIDE DEF N, P
  <1>4. Cardinality(P) \in Nat /\ Cardinality(P) <= N
    BY <1>2, <1>3, FS_Subset, FS_CardinalityType
  <1>5. Changes(z, t) = Cardinality(P)
    BY DEF Changes, P
  <1>6. Changes(z, t) + 1 \in DOMAIN z.offset
    BY <1>1, <1>4, <1>5
  <1> QED
    BY <1>1, <1>4, <1>5, <1>6 DEF Offset

\* Two instants within one second are on one date and at one reading.
LEMMA FloorKeepsReading ==
  ASSUME NEW z \in Zones, NEW t \in Int
  PROVE  /\ LocalDay(z, Floor(t)) = LocalDay(z, t)
         /\ LocalClock(z, t) \in Int
         /\ Floor(LocalClock(z, Floor(t))) = Floor(LocalClock(z, t))
  <1> DEFINE o == Offset(z, t)
             x == t + o
  <1>1. o \in Int /\ o % 2 = 0
    BY OffsetIsWhole
  <1>2. Offset(z, Floor(t)) = o
    <2>1. \A i \in DOMAIN z.at : z.at[i] \in Int /\ z.at[i] % 2 = 0
      BY DEF Zones
    <2>2. \A i \in DOMAIN z.at : z.at[i] <= t <=> z.at[i] <= Floor(t)
      BY <2>1, WholeBelow
    <2>3. Changes(z, Floor(t)) = Changes(z, t)
      BY <2>2 DEF Changes
    <2> QED
      BY <2>3 DEF Offset
  <1> HIDE DEF o
  <1>3. Floor(t) + o = Floor(x) /\ x \in Int
    BY <1>1 DEF Floor
  <1> HIDE DEF x
  <1>4. /\ Floor(x) \div Tick = x \div Tick
        /\ x % Tick \in Int
        /\ Floor(Floor(x) % Tick) = Floor(x % Tick)
    BY <1>3 DEF Floor, Tick
  <1> QED
    BY <1>2, <1>3, <1>4 DEF LocalDay, LocalClock, o, x

\* An occurrence is at a whole second.
LEMMA AtIsWhole ==
  ASSUME NEW s, ScheduleInv(s), NEW n \in Int
  PROVE  at(s, n) \in Int /\ at(s, n) % 2 = 0
  <1> DEFINE z == s.zone
             clock == Floor(LocalClock(z, s.start))
             reading == n * Tick + clock
  <1>1. clock \in Int /\ clock % 2 = 0
    BY FloorKeepsReading, FloorIs DEF ScheduleInv
  <1>2. \A u \in Int : Offset(z, u) \in Int /\ Offset(z, u) % 2 = 0
    BY OffsetIsWhole DEF ScheduleInv
  <1> HIDE DEF clock, z
  <1>3. reading \in Int /\ reading % 2 = 0
    BY <1>1 DEF Tick
  <1> HIDE DEF reading
  <1>4. \A u \in Int : reading - Offset(z, u) \in Int /\ (reading - Offset(z, u)) % 2 = 0
    BY <1>2, <1>3
  <1>5. at(s, n) = DateIn(z, n, clock)
    BY DEF at, z, clock
  <1> QED
    BY <1>3, <1>4, <1>5 DEF DateIn, reading

\* A schedule after it was stored: its start and its end are whole seconds.
Stored(s) ==
    [start |-> Floor(s.start), end |-> IF s.end = Nil THEN Nil ELSE Floor(s.end),
     zone |-> s.zone, rule |-> s.rule, dates |-> s.dates, openDays |-> s.openDays]

\* It is as valid as it was.
LEMMA StoredIsInOrder ==
  ASSUME NEW s, ScheduleInv(s)
  PROVE  ScheduleInv(Stored(s))
  <1>1. /\ Floor(s.start) \in Int
        /\ s.end # Nil => Floor(s.end) \in Int
        /\ s.end # Nil => Floor(s.start) <= Floor(s.end)
    BY FloorIs, WholeBelow, RecurAssumption DEF ScheduleInv, ValidSchedule
  <1>2. /\ Stored(s).start = Floor(s.start) /\ Stored(s).zone = s.zone
        /\ Stored(s).end = IF s.end = Nil THEN Nil ELSE Floor(s.end)
        /\ Stored(s).rule = s.rule /\ Stored(s).dates = s.dates
        /\ Stored(s).openDays = s.openDays
    BY DEF Stored
  <1>3. ValidSchedule(Stored(s))
    BY <1>1, <1>2, RecurAssumption DEF ScheduleInv, ValidSchedule
  <1>4. Stored(s) = [start |-> Stored(s).start, end |-> Stored(s).end,
                     zone |-> Stored(s).zone, rule |-> Stored(s).rule,
                     dates |-> Stored(s).dates, openDays |-> Stored(s).openDays]
    BY <1>2 DEF Stored
  <1>5. /\ Stored(s).start \in Int /\ Stored(s).end \in Int \cup {Nil}
        /\ s.dates # <<>> => Stored(s).end # Nil
    <2>1. s.dates # <<>> => s.end # Nil
      BY DEF ScheduleInv
    <2>2. CASE s.end = Nil
      BY <1>1, <1>2, <2>1, <2>2
    <2>3. CASE s.end # Nil
      BY <1>1, <1>2, <2>3, RecurAssumption
    <2> QED
      BY <2>2, <2>3
  <1>6. /\ s.zone \in Zones /\ s.zone # Invalid
        /\ s.rule # Nil => RuleInv(s.rule)
        /\ s.rule # Invalid
        /\ \A i \in DOMAIN s.dates : s.dates[i] # Invalid
    BY DEF ScheduleInv
  <1> QED
    BY <1>2, <1>3, <1>4, <1>5, <1>6 DEF ScheduleInv

\* Wire.Schedule reads back what WireOf wrote.
LEMMA WireReadsBack ==
  ASSUME NEW s, ScheduleInv(s)
  PROVE  Schedule(WireOf(s)) = Stored(s)
  <1> DEFINE w == WireOf(s)
             rule == IF w.rule = <<>> THEN Nil ELSE ParseRule(w.rule)
  <1>1. /\ w.start = Floor(s.start) /\ w.zone = s.zone /\ w.dates = s.dates
        /\ w.end = IF s.end = Nil THEN Nil ELSE Floor(s.end)
        /\ w.rule = IF s.rule = Nil THEN <<>> ELSE RuleString(s.rule)
        /\ w.openDays = s.openDays
    BY DEF WireOf
  <1>2. rule = s.rule
    BY <1>1, RuleReadsBack DEF ScheduleInv
  <1> HIDE DEF w
  <1>3. [start |-> w.start, end |-> w.end, zone |-> w.zone, rule |-> rule,
         dates |-> w.dates, openDays |-> w.openDays] = Stored(s)
    BY <1>1, <1>2 DEF Stored
  <1>4. ValidSchedule(Stored(s))
    BY StoredIsInOrder DEF ScheduleInv
  <1>5. w.start # Invalid /\ w.end # Invalid
    BY <1>1, FloorIs, RecurAssumption DEF ScheduleInv
  <1>6. /\ w.zone # Invalid /\ rule # Invalid
        /\ \A i \in DOMAIN w.dates : w.dates[i] # Invalid
        /\ w.dates # <<>> => w.end # Nil
    BY <1>1, <1>2, FloorIs, RecurAssumption DEF ScheduleInv
  <1> QED
    BY <1>3, <1>4, <1>5, <1>6 DEF Schedule, w

\* The days a schedule describes, within the horizon.
Days(s) ==
    {n \in Horizon :
        IF s.rule = Nil THEN \E i \in DOMAIN s.dates : DayNo(s.dates[i]) = n
        ELSE Describes(s.rule, FirstDate(s), CivilOf(n))}

\* Storing a schedule keeps its days and their readings of the clock.
LEMMA StoredKeepsDays ==
  ASSUME NEW s, ScheduleInv(s)
  PROVE  /\ Days(Stored(s)) = Days(s)
         /\ \A n : at(Stored(s), n) = at(s, n)
  <1>1. /\ Stored(s).start = Floor(s.start) /\ Stored(s).zone = s.zone
        /\ Stored(s).rule = s.rule /\ Stored(s).dates = s.dates
    BY DEF Stored
  <1>2. FirstDate(Stored(s)) = FirstDate(s)
    BY <1>1, FloorKeepsReading DEF FirstDate, ScheduleInv
  <1>3. Floor(LocalClock(s.zone, Stored(s).start)) = Floor(LocalClock(s.zone, s.start))
    BY <1>1, FloorKeepsReading DEF ScheduleInv
  <1>4. \A n : at(Stored(s), n) = at(s, n)
    BY <1>1, <1>3 DEF at
  <1> QED
    BY <1>1, <1>2, <1>4 DEF Days

\* Of the occurrences of the days, storing keeps those in range and adds none but
\* one at the start's own second.
LEMMA StoredKeepsOccurrences ==
  ASSUME NEW s, ScheduleInv(s)
  PROVE  /\ Occurrences(s) \subseteq Occurrences(Stored(s))
         /\ Occurrences(Stored(s)) \ Occurrences(s) \subseteq {Floor(s.start)}
  <1> DEFINE u == Stored(s)
  <1>1. /\ Occurrences(s) = {t \in {at(s, n) : n \in Days(s)} : inRange(s, t)}
        /\ Occurrences(u) = {t \in {at(u, n) : n \in Days(u)} : inRange(u, t)}
    BY DEF Occurrences, Days
  <1>2. {at(u, n) : n \in Days(u)} = {at(s, n) : n \in Days(s)}
    BY StoredKeepsDays
  <1>3. \A n \in Days(s) : at(s, n) \in Int /\ at(s, n) % 2 = 0
    BY AtIsWhole, RecurAssumption DEF Days
  <1>4. ASSUME NEW t \in Int, t % 2 = 0
        PROVE  /\ inRange(s, t) => inRange(u, t)
               /\ inRange(u, t) => inRange(s, t) \/ t = Floor(s.start)
    <2>1. /\ u.start = Floor(s.start)
          /\ u.end = IF s.end = Nil THEN Nil ELSE Floor(s.end)
      BY DEF Stored
    <2>2. /\ Floor(s.start) \in Int /\ s.start \in Int /\ Floor(s.start) <= s.start
          /\ t >= Floor(s.start) => t >= s.start \/ t = Floor(s.start)
      BY <1>4, FloorIs, WholeBelow DEF ScheduleInv
    <2>3. ASSUME s.end # Nil
          PROVE  s.end \in Int /\ Floor(s.end) # Nil /\ (t <= s.end <=> t <= Floor(s.end))
      <3>1. s.end \in Int
        BY <2>3 DEF ScheduleInv
      <3>2. Floor(s.end) # Nil
        BY <3>1, FloorIs, RecurAssumption
      <3>3. t <= s.end <=> t <= Floor(s.end)
        BY <1>4, <3>1, WholeBelow
      <3> QED
        BY <3>1, <3>2, <3>3
    <2> HIDE DEF u
    <2> QED
      BY <1>4, <2>1, <2>2, <2>3 DEF inRange
  <1> HIDE DEF u
  <1> QED
    BY <1>1, <1>2, <1>3, <1>4 DEF u

\* Reading a wire form gives a schedule in order, with its occurrences.
LEMMA ReadKeeps ==
  ASSUME RecurInv, NEW w \in Wires, ReadSchedule(w)
  PROVE  RecurInv'
  BY ReadIsInOrder DEF ReadSchedule, RecurInv

\* So does storing one and reading it back, and the occurrences are kept.
LEMMA WriteBackKeeps ==
  ASSUME RecurInv, WriteBack
  PROVE  /\ RecurInv'
         /\ occurs \subseteq occurs'
         /\ occurs' \ occurs \subseteq {Floor(schedule.start)}
  <1>1. schedule # Nil /\ ScheduleInv(schedule) /\ occurs = Occurrences(schedule)
    BY DEF WriteBack, RecurInv
  <1>2. schedule' = Stored(schedule) /\ occurs' = Occurrences(schedule')
    BY <1>1, WireReadsBack DEF WriteBack
  <1>3. RecurInv'
    BY <1>1, <1>2, StoredIsInOrder DEF RecurInv
  <1> QED
    BY <1>1, <1>2, <1>3, StoredKeepsOccurrences

\* Asking and answering leave the schedule as it is.
LEMMA QuestionsKeep ==
  ASSUME RecurNext, ~(\E w \in Wires : ReadSchedule(w)), ~WriteBack
  PROVE  UNCHANGED <<schedule, occurs>>
  <1>1. ASSUME NEW kind, NEW from, NEW to, NEW stop, Ask(kind, from, to, stop)
        PROVE  UNCHANGED <<schedule, occurs>>
    BY <1>1 DEF Ask
  <1>2. ASSUME NEW seen, NEW hit, Reply(seen, hit)
        PROVE  UNCHANGED <<schedule, occurs>>
    BY <1>2 DEF Reply
  <1>3. CASE \E m \in Moments : AskNext(m) \/ AskPeriod(m)
    BY <1>1, <1>3 DEF AskNext, AskPeriod
  <1>4. CASE \E a, b \in Moments : AskBetween(a, b)
    BY <1>1, <1>4 DEF AskBetween
  <1>5. CASE WalkDates \/ WalkPeriod \/ GiveUp
    BY <1>2, <1>5 DEF WalkDates, WalkPeriod, GiveUp
  <1> QED
    BY <1>3, <1>4, <1>5 DEF RecurNext

\* RecurInv holds in every state: the schedule in hand passed Validate and its
\* occurrences are those the reference gives it, also after WireOf wrote it.
THEOREM RecurInvariant == RecurSpec => []RecurInv
  <1>1. RecurInit => RecurInv
    BY DEF RecurInit, RecurInv
  <1>2. RecurInv /\ [RecurNext]_recurVars => RecurInv'
    <2> SUFFICES ASSUME RecurInv, [RecurNext]_recurVars PROVE RecurInv'
      OBVIOUS
    <2>1. CASE \E w \in Wires : ReadSchedule(w)
      BY <2>1, ReadKeeps
    <2>2. CASE WriteBack
      BY <2>2, WriteBackKeeps
    <2>3. CASE UNCHANGED <<schedule, occurs>>
      BY <2>3 DEF RecurInv
    <2> QED
      BY <2>1, <2>2, <2>3, QuestionsKeep DEF recurVars
  <1> QED
    BY <1>1, <1>2, PTL DEF RecurSpec

\* Storing any schedule in its wire form and reading it back loses no occurrence
\* and adds none but one at the very second of the start: ParseRule reads every
\* part String wrote, and dropping the fraction of a second moves no date.
THEOREM StoringKeepsOccurrences == RecurSpec => WireKeepsOccurrences
  <1>1. RecurInv /\ [RecurNext]_recurVars =>
            [schedule # Nil =>
                /\ occurs \subseteq occurs'
                /\ occurs' \ occurs \subseteq {Floor(schedule.start)}]_recurVars
    <2> SUFFICES ASSUME RecurInv, RecurNext, schedule # Nil
                 PROVE  /\ occurs \subseteq occurs'
                        /\ occurs' \ occurs \subseteq {Floor(schedule.start)}
      OBVIOUS
    <2>1. ~(\E w \in Wires : ReadSchedule(w))
      BY DEF ReadSchedule
    <2>2. CASE WriteBack
      BY <2>2, WriteBackKeeps
    <2>3. CASE ~WriteBack
      BY <2>1, <2>3, QuestionsKeep
    <2> QED
      BY <2>2, <2>3
  <1> QED
    BY <1>1, RecurInvariant, PTL DEF RecurSpec, WireKeepsOccurrences
=============================================================================
