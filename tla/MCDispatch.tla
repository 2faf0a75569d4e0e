----------------------------- MODULE MCDispatch -----------------------------
(* Tables of up to four operations of a small catalogue, among them ones that
   clash with each other or that validation refuses. *)
EXTENDS Dispatch

Kind(k) == [kind |-> k, fields |-> {}]
Member(name, json, query, snake, kind) ==
    [name |-> name, json |-> json, query |-> query, snake |-> snake, kind |-> kind,
     required |-> FALSE, readOnly |-> FALSE]

Entry == [kind |-> "struct", fields |-> {
    Member("Slug", "slug", None, "slug", "s"),
    [Member("Name", "name", None, "name", "s") EXCEPT !.required = TRUE],
    Member("Owner", "owner", None, "owner", "s"),
    Member("Rank", None, None, "rank", "n"),
    Member("Tags", "tags", None, "tags", "ls"),
    [Member("Seen", "seen", None, "seen", "n") EXCEPT !.readOnly = TRUE],
    Member("Hash", "-", None, "hash", "s") }]

Filter == [kind |-> "struct", fields |-> {
    Member("RoleCode", "role", None, "role_code", "s"),
    Member("Limit", "", "limit", "limit", "n"),
    Member("Tags", None, "tag", "tags", "ls"),
    Member("Trace", "-", "trace", "trace", "s"),
    Member("Secret", "secret", "-", "secret", "s") }]

Method(in, variadic, out) ==
    [in |-> in, variadic |-> variadic, ctx |-> TRUE, err |-> TRUE, out |-> out]

MCMethods == [
    List   |-> Method(<<Filter>>, FALSE, 1),
    ByName |-> Method(<<Kind("s")>>, FALSE, 1),
    ByTags |-> Method(<<Kind("n"), Kind("s")>>, TRUE, 1),
    Upsert |-> Method(<<Entry>>, FALSE, 1),
    Rename |-> Method(<<Kind("s"), Kind("s"), Kind("s"), Kind("s")>>, FALSE, 0),
    Search |-> Method(<<Kind("s")>>, FALSE, 1),
    Ranks  |-> Method(<<Kind("ln")>>, FALSE, 2) ]

Arg(from, as) ==
    [from |-> from, as |-> as, repeated |-> FALSE, whole |-> FALSE, into |-> "",
     required |-> FALSE, ignored |-> FALSE, refers |-> ""]
Whole(from) == [Arg(from, "") EXCEPT !.whole = TRUE]
Repeated(as) == [Arg("query", as) EXCEPT !.repeated = TRUE]
Into(from, as, field) == [Arg(from, as) EXCEPT !.into = field]

Body == <<[as |-> "", body |-> TRUE, once |-> FALSE]>>
Named(as, once) == [as |-> as, body |-> FALSE, once |-> once]

Op(method, path, call, action, args) ==
    [method |-> method, path |-> path, whenQuery |-> "", call |-> call, handled |-> FALSE,
     action |-> action, tool |-> "", noTool |-> FALSE, described |-> TRUE, status |-> 0,
     args |-> args, returns |-> Body]

Listing == Op("GET", "/e", "List", "m.e.list", <<Whole("query")>>)
ByName == [Op("GET", "/e", "ByName", "m.e.by_name", <<Arg("query", "name")>>) EXCEPT !.whenQuery = "name"]
ByTag == [Op("GET", "/e", "ByTags", "m.e.by_tag", <<Arg("query", "min"), Repeated("tag")>>)
            EXCEPT !.whenQuery = "tag"]
Upserting == Op("PUT", "/e/{slug}", "Upsert", "m.e.upsert",
    <<Whole("body"), Into("path", "slug", "Slug"), Into("caller", "by", "Owner")>>)
Renaming == [Op("POST", "/e/{slug}", "Rename", "m.e.rename",
    <<Arg("path", "slug"), Arg("body", "name"), Arg("caller", "by"), Arg("device", "on")>>)
    EXCEPT !.status = 202]
Ranking == [Op("POST", "/e", "Ranks", "m.e.rank", <<Repeated("rank")>>)
    EXCEPT !.returns = <<Named("ranks", FALSE), Named("key", TRUE)>>]
Searching == [Op("DELETE", "/e", "Search", "m.e.search", <<Whole("query")>>) EXCEPT !.noTool = TRUE]
Page == [Op("GET", "/e", "", "m.e.page", <<>>) EXCEPT !.handled = TRUE, !.returns = <<>>]

Pool == {
    Listing, ByName, ByTag, Upserting, Renaming, Ranking, Searching, Page,
    [ByName EXCEPT !.action = "m.e_by.name", !.method = "POST", !.whenQuery = ""],
    [Ranking EXCEPT !.path = "/y", !.action = "m.y.rank",
                    !.returns = <<Named("secret", TRUE), Named("secret", TRUE)>>],
    [ByTag EXCEPT !.action = "m.e.by_tag2", !.call = "ByName", !.args = <<Arg("query", "tag")>>],
    [Ranking EXCEPT !.path = "/e/{slug}", !.method = "DELETE", !.action = "m.e.list",
                    !.args = <<Repeated("rank"), [Arg("path", "slug") EXCEPT !.ignored = TRUE]>>],
    [Renaming EXCEPT !.path = "/x/{slug}", !.action = "m.x.rename", !.tool = "m_e_upsert"],
    [Upserting EXCEPT !.path = "/x/{slug}", !.action = "m.x.upsert", !.noTool = TRUE,
                      !.described = FALSE],
    [Upserting EXCEPT !.path = "/y", !.action = "m.y.upsert",
                      !.args = <<Whole("body"), Into("body", "slug", "Slug")>>] }

MCSpecs == {s \in SUBSET Pool : Cardinality(s) \in 1..3} \cup {{Listing, ByName, ByTag, Upserting}}
MCPathParams == [p \in {"/e", "/y"} |-> {}] @@ [p \in {"/e/{slug}", "/x/{slug}"} |-> {"slug"}]
MCAnonymous == {{}, {"m.e.list"}, {"m.e.list", "m.e.by_name"}, {"m.e.list", "m.e.by_name", "m.e.by_tag"}}

Query(keys, texts) == [k \in keys |-> texts]
Request(method, path, params, query, body) ==
    [address |-> <<method, path>>, path |-> params, query |-> query, body |-> body, headers |-> <<>>,
     raw |-> IF query = Empty THEN "" ELSE "k=v"]

Slug == [slug |-> "a"]
S(x) == Value("s", <<x>>)
N(x) == Value("n", <<x>>)

MCRequests ==
    {Request("GET", "/e", Empty, q, None) : q \in {
        Empty, Query({"name"}, <<"b">>), Query({"name"}, <<"">>), Query({"name", "tag"}, <<"b", "a">>),
        Query({"tag"}, <<"", "b">>), [tag |-> <<"b", "a">>, min |-> <<"7">>],
        [role_code |-> <<"b">>, limit |-> <<"7">>, tag |-> <<"">>, secret |-> <<"b">>],
        [role_code |-> <<"b">>, trace |-> <<"a">>],
        [limit |-> <<"b">>], [limit |-> <<"">>] }}
    \cup {Request(m, p, Slug, Empty, b) : m \in {"PUT", "POST"}, p \in {"/e/{slug}", "/x/{slug}"}, b \in {
        None, Empty, [name |-> S("b"), Rank |-> N("7"), tags |-> Value("ls", <<"a", "b">>)],
        [name |-> S("b"), slug |-> S("b"), owner |-> S("b")], [name |-> S("b"), seen |-> N("7")],
        [name |-> Value("null", <<>>), Rank |-> S("b")], [name |-> S("b")], [name |-> N("7"), x |-> N("7")] }}
    \cup {Request("POST", "/e", Empty, q, None) : q \in {
        Empty, Query({"rank"}, <<"7", "7">>), Query({"rank"}, <<"b">>), Query({"rank"}, <<"", "[7]">>),
        Query({"rank"}, <<"", "7">>), Query({"name"}, <<"b">>) }}
    \cup {Request("DELETE", "/e", Empty, q, None) : q \in {Empty, Query({"name"}, <<"b">>)}}
    \cup {[Request("POST", "/e", Empty, Empty, None) EXCEPT !.headers = h] :
            h \in {<<"c1">>, <<"c1", "c1">>, <<"">>, <<"b c">>}}

Who(name, rights, host) == [name |-> name, device |-> "d1", rights |-> rights, host |-> host]
MCSessions == {
    Who("", {}, ""),
    Who("ann", {"m.e.list", "m.e.by_tag", "m.e.upsert", "m.x.rename", "m.e.rank"}, "c2"),
    Who("bob", {op.action : op \in Pool}, "") }

MCOutcomes == {None, "gone", "taken", "both", "lost"}
MCErrors == [gone |-> 404, taken |-> 409, typed |-> 422]
Sentinel(typed, matches, detail) == [typed |-> typed, matches |-> matches, detail |-> detail]
MCSentinels == [
    gone  |-> Sentinel(FALSE, {"gone", "both"}, None),
    taken |-> Sentinel(FALSE, {"taken", "both"}, None),
    typed |-> Sentinel(TRUE, {"taken"}, "by whom") ]

\* m.e.by_name and m.e_by.name have one name.
MCToolNames ==
    ("m.e.by_name" :> "m_e_by_name") @@ ("m.e.by_tag" :> "m_e_by_tag") @@
    ("m.e.by_tag2" :> "m_e_by_tag2") @@ ("m.e.list" :> "m_e_list") @@
    ("m.e.page" :> "m_e_page") @@ ("m.e.rank" :> "m_e_rank") @@
    ("m.e.rename" :> "m_e_rename") @@ ("m.e.search" :> "m_e_search") @@
    ("m.e.upsert" :> "m_e_upsert") @@ ("m.e_by.name" :> "m_e_by_name") @@
    ("m.x.rename" :> "m_x_rename") @@ ("m.x.upsert" :> "m_x_upsert") @@
    ("m.y.rank" :> "m_y_rank") @@ ("m.y.upsert" :> "m_y_upsert")
MCLiterals == ("7" :> Value("n", <<"7">>)) @@ ("[7]" :> Value("ln", <<"7">>))
MCAlphabet == [name |-> 1, tag |-> 2]
=============================================================================
