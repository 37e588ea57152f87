----------------------------- MODULE AgentSetup -----------------------------
(***************************************************************************)
(* What a caller sets up before a run: routes and providers (lellm-provider's *)
(* router.rs and ProviderBuilder), tools (lellm-core's tool.rs, StaticCatalog, *)
(* CompositeCatalog), a prompt, an agent (AgentBuilder), and the request       *)
(* LLMNode makes of them each round.  A builder is the record of its fields; a  *)
(* setter is an operator on it; an Option is the set of what it holds.         *)
(***************************************************************************)
EXTENDS Codecs

-----------------------------------------------------------------------------
(* Routes.                                                                  *)

TaskLevel == {"Flash", "Standard", "Pro"}
RouteEntry(provider_id, model) == [provider_id |-> provider_id, model |-> model]
AddRoute(routes, level, entry) == (level :> entry) @@ routes
Register(providers, id, provider) == (id :> provider) @@ providers

\* ModelRouter::resolve, then ProviderRegistry::resolve: the models a level leads to, none if it
\* has no route or its provider is not registered.
Resolve(routes, providers, level) ==
    {[provider |-> providers[routes[l].provider_id], model |-> routes[l].model] :
        l \in {k \in {level} \cap DOMAIN routes : routes[k].provider_id \in DOMAIN providers}}

-----------------------------------------------------------------------------
(* Providers.  A URL is a host and a path, NoUrl what is none.                *)

Url(host, path) == [host |-> host, path |-> path]
NoUrl == Url("", "")
Malformed == "malformed"
NoHeaders == [h \in {} |-> ""]
Auth(style, header, secret) == [style |-> style, header |-> header, secret |-> secret]
NoAuth == Auth("None", "", "")

ProviderBuilder(codec) ==
    [codec |-> codec, base_url |-> NoUrl, auth |-> NoAuth, headers |-> NoHeaders, errors |-> {},
     connect_timeout |-> 10, timeout |-> 120, idle_timeout |-> 30]

\* A profile gives way to a base_url that is already set, which gives way to any later one.
Profile(b, url) == [b EXCEPT !.base_url = IF @ = NoUrl THEN url ELSE @]
BaseUrl(b, url) == [b EXCEPT !.base_url = url]
ApiKey(b, key) == [b EXCEPT !.auth = Auth("Bearer", "Authorization", key)]
AuthHeader(b, header, value) == [b EXCEPT !.auth = Auth("Header", header, value)]
ConnectTimeout(b, t) == [b EXCEPT !.connect_timeout = t]
Timeout(b, t) == [b EXCEPT !.timeout = t]
IdleTimeout(b, t) == [b EXCEPT !.idle_timeout = t]

\* The name is parsed before the value; after the first error no header is taken any more.
Header(b, name, value) ==
    IF b.errors # {} THEN b
    ELSE IF name = Malformed THEN [b EXCEPT !.errors = {<<"InvalidHeader", "name">>}]
    ELSE IF value = Malformed THEN [b EXCEPT !.errors = {<<"InvalidHeader", "value">>}]
    ELSE [b EXCEPT !.headers = (name :> value) @@ @]
ExtraHeaders(b, headers) == FoldLeft(LAMBDA c, h : Header(c, h[1], h[2]), b, headers)

NetworkIdleGuard(idle) == IF 3 * idle > 120 THEN 3 * idle ELSE 120

\* ProviderBuilder::build
BuildProvider(b) ==
    [errors |-> IF b.errors # {} THEN b.errors
                ELSE IF b.base_url = NoUrl THEN {<<"InvalidUrl", "">>} ELSE {},
     codec |-> b.codec, base_url |-> b.base_url, auth |-> b.auth, headers |-> b.headers,
     connect_timeout |-> b.connect_timeout, timeout |-> b.timeout,
     idle_timeout |-> b.idle_timeout, read_timeout |-> NetworkIdleGuard(b.idle_timeout)]

\* ProviderConfig::load and CodecProvider::openrouter: what is read from the environment, a function
\* of the variables that are set, each as a text and as a URL.  The URL is parsed last.
FromEnvironment(codec, env, url_var, key_var, default_url, style) ==
    LET url == IF url_var \in DOMAIN env THEN env[url_var].url ELSE default_url
        auth == CASE style = "Bearer" -> Auth("Bearer", "Authorization", env[key_var].text)
                  [] style = "None"   -> NoAuth
                  [] OTHER            -> Auth("Header", style, env[key_var].text)
    IN IF key_var \notin DOMAIN env
         THEN BuildProvider([ProviderBuilder(codec) EXCEPT !.errors = {<<"MissingEnv", key_var>>}])
       ELSE IF env[key_var].text = ""
         THEN BuildProvider([ProviderBuilder(codec) EXCEPT !.errors = {<<"EmptyEnv", key_var>>}])
       ELSE BuildProvider([BaseUrl(ProviderBuilder(codec), url) EXCEPT !.auth = auth])

\* build_request_builder: the request's headers before the caller's before the codec's; the path of
\* a request begins with a slash, and replaces that of the base URL.
HeadersSent(provider, default_headers, request_headers) ==
    request_headers @@ provider.headers @@ default_headers
Target(provider, path) == [provider.base_url EXCEPT !.path = path]

-----------------------------------------------------------------------------
(* Tools.                                                                   *)

\* ExecutableTool, by its three factories; source is the catalogue it came from.
Tool(name, safety, category) ==
    [name |-> name, safety |-> safety, category |-> category, source |-> "builtin",
     cached |-> FALSE, replay |-> "ManualRecovery", version |-> "unversioned"]
SafeTool(name) == Tool(name, "Safe", {})
CategoryTool(name, category) == Tool(name, "CategoryExclusive", {category})
ExclusiveTool(name) == Tool(name, "Exclusive", {})
WithReplayPolicy(t, policy, version) == [t EXCEPT !.replay = policy, !.version = version]

\* ToolErrorKind::is_retryable
ToolErrorKind == {"NotFound", "ToolUnavailable", "Timeout", "Network", "PermissionDenied",
                  "InvalidInput", "RateLimited", "LoopDetected", "Internal", "External"}
IsRetryable(kind) == kind \in {"Timeout", "Network", "RateLimited", "ToolUnavailable"}

\* safe_fn, category_exclusive_fn, exclusive_fn: arguments that do not parse never reach the function.
Typed(parses, outcome) == IF parses THEN outcome ELSE "InvalidInput"

\* IntoToolResult::into_tool of what a tool function returns: a string or a value as it is, an option,
\* or a result.  What came from elsewhere keeps no kind of its own.
IntoToolError(e) == CASE e.from = "tool" -> e.kind
                      [] e.from = "json" -> "Internal"
                      [] OTHER           -> "External"
IntoTool(r) ==
    IF r.shape = "result" /\ ~r.some THEN IntoToolError(r.error)
    ELSE IF r.shape \in {"option", "result"} /\ r.some /\ ~r.serializes THEN "Internal"
    ELSE "ok"

\* compute_and_clean_schema: the fields of a generated schema that are told to a model.
CleanSchema(fields) == fields \ {"$schema", "$id", "title", "description"}

\* BackoffStrategy::delay.  2_u32.pow wraps to 0 (or panics, where overflow is checked).
Delay(base, max, attempt) ==
    LET d == base * (IF attempt < 32 THEN 2 ^ attempt ELSE 0)
    IN IF d > max THEN max ELSE d

Named(tools, name) == {i \in DOMAIN tools : tools[i].name = name}

\* IndexMap::insert: a tool of the same name is replaced where it stands.
Insert(tools, t) ==
    IF Named(tools, t.name) = {} THEN Append(tools, t)
    ELSE [i \in DOMAIN tools |-> IF tools[i].name = t.name THEN t ELSE tools[i]]

\* StaticCatalog::from_tools
StaticCatalog(tools) == FoldLeft(Insert, << >>, tools)

\* CompositeCatalog::snapshot goes through the sources from the last to the first; every tool that
\* replaces another is a conflict, whatever the policy.
Merge(snapshot, source) ==
    FoldLeft(LAMBDA s, t :
                [tools |-> Insert(s.tools, t),
                 conflicts |-> s.conflicts \o
                    [i \in 1 .. Cardinality(Named(s.tools, t.name)) |->
                        [name |-> t.name, winner |-> t.source,
                         loser |-> s.tools[CHOOSE k \in Named(s.tools, t.name) : TRUE].source]]],
             snapshot, source)
Composite(sources) == FoldLeft(Merge, [tools |-> << >>, conflicts |-> << >>], Reverse(sources))

-----------------------------------------------------------------------------
(* Agents.                                                                  *)

\* A prompt is a sequence of layers; the last stable one gets the cache breakpoint.
Layer(text, stable) == [text |-> text, stable |-> stable]
Prompt(layers) ==
    Message("system", [i \in DOMAIN layers |->
        IF layers[i].stable /\ \A j \in DOMAIN layers : layers[j].stable => j <= i
        THEN CachedText(layers[i].text) ELSE Text(layers[i].text)])

NoOptions == [o \in {} |-> 0]

AgentBuilder(model) ==
    [model |-> model, static_tools |-> << >>, catalogs |-> << >>, system |-> {},
     max_iterations |-> 10, max_output_tokens |-> 4000,
     max_total_output_tokens |-> {}, max_total_reasoning_tokens |-> {},
     options |-> NoOptions, stream_thinking |-> FALSE, tool_cache_policy |-> "Auto",
     max_attempts |-> 3, require_tool_approval |-> FALSE, keep_recent_turns |-> 5,
     fallback |-> 3]

\* The setters of one field, the options among them, and those that add a tool or a source.
Set(a, field, value) == [a EXCEPT ![field] = value]
SetOption(a, o, value) == [a EXCEPT !.options = (o :> value) @@ @]
AddTools(a, tools) == [a EXCEPT !.static_tools = @ \o tools]
AddCatalog(a, source) == [a EXCEPT !.catalogs = Append(@, source)]

\* into_parts: the tools of the agent come before every catalogue.
Sources(a) ==
    (IF a.static_tools = << >> THEN << >> ELSE <<StaticCatalog(a.static_tools)>>) \o a.catalogs
Offered(a) == IF Len(Sources(a)) = 1 THEN Sources(a)[1] ELSE Composite(Sources(a)).tools

\* What canonical_hash reads: two agents with the same are one agent to a restored run.
Identity(a) ==
    [model |-> a.model, tools |-> [i \in DOMAIN a.static_tools |-> a.static_tools[i].name],
     system |-> a.system, max_iterations |-> a.max_iterations,
     max_output_tokens |-> a.max_output_tokens,
     max_total_output_tokens |-> a.max_total_output_tokens,
     max_total_reasoning_tokens |-> a.max_total_reasoning_tokens,
     require_tool_approval |-> a.require_tool_approval]

-----------------------------------------------------------------------------
(* Requests.                                                                *)

\* build_request_messages_inner: a prompt of the agent goes first, and refuses a history that has one.
HasSystemMessage(ms) == \E i \in DOMAIN ms : ms[i].role = "system"
RequestMessages(a, ms) ==
    IF a.system = {} THEN {ms}
    ELSE IF HasSystemMessage(ms) THEN {}
    ELSE {<<Prompt(layers)>> \o ms : layers \in a.system}

\* The definitions as ToolCachePolicy leaves them: Auto marks the last one.
Definitions(a, tools) ==
    [i \in DOMAIN tools |->
        [name |-> tools[i].name,
         cached |-> CASE a.tool_cache_policy = "Auto"     -> tools[i].cached \/ i = Len(tools)
                      [] a.tool_cache_policy = "Preserve" -> tools[i].cached
                      [] OTHER                            -> FALSE]]

\* RequestOptions::apply over max_output_tokens
Applied(a) ==
    [o \in DOMAIN a.options \cup {"max_tokens"} |->
        IF o \in DOMAIN a.options THEN a.options[o] ELSE a.max_output_tokens]

\* build_request_inner_with_round
BuildRequest(a, messages, tools, iteration) ==
    LET forgotten == IF iteration > 0 THEN {"tool_choice"} ELSE {}
    IN [model |-> a.model, messages |-> messages, tools |-> Definitions(a, tools),
        options |-> [o \in DOMAIN Applied(a) \ forgotten |-> Applied(a)[o]]]
=============================================================================
