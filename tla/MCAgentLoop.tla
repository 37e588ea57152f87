----------------------------- MODULE MCAgentLoop -----------------------------
(* An agent with a tool of each kind and three rounds, run as a stream, with   *)
(* checkpoints, and as a durable run.                                         *)
EXTENDS AgentWire, TLC

Model == [name |-> "claude-3", thinks |-> FALSE, listed |-> TRUE]

MCAgent ==
  LET fresh == Wire!AgentBuilder(Model)
      replayed(t) == Wire!WithReplayPolicy(t, "ReplaySafe", "1")
      tools == <<replayed(Wire!SafeTool("search")), replayed(Wire!CategoryTool("write", "file_io")),
                 Wire!ExclusiveTool("pay")>>
  IN [Wire!SetOption(Wire!AddTools(fresh, tools), "tool_choice", "required") EXCEPT
        !.max_iterations = 3, !.keep_recent_turns = 1, !.max_attempts = 2]

MCOffered == Wire!Offered(MCAgent)
MCTools == {MCOffered[i].name : i \in DOMAIN MCOffered}
Tool(t) == MCOffered[CHOOSE i \in DOMAIN MCOffered : MCOffered[i].name = t]
MCSafety == [t \in MCTools |-> Tool(t).safety]
MCCategory == [t \in MCTools |-> IF Tool(t).category = {} THEN "none"
                                 ELSE CHOOSE c \in Tool(t).category : TRUE]
MCManual == {t \in MCTools : Tool(t).replay = "ManualRecovery"}
MCMaxIterations == MCAgent.max_iterations
MCKeepTurns == MCAgent.keep_recent_turns
MCMaxAttempts == MCAgent.max_attempts
MCMaxOpens == IF MCAgent.fallback < MCMaxAttempts THEN MCAgent.fallback ELSE MCMaxAttempts

MCFunction == [i \in 1..MaxCalls |-> ToString(i)]
MCCallId == [r \in 0..MCMaxIterations |-> [i \in 1..MaxCalls |-> ToString(<<r, i>>)]]

User == [role |-> "user", round |-> 0, n |-> 0]

Old == <<System, User, Assistant(0, 1), ResultOf(0, 1), Assistant(0, 0), User>>
MCStarts ==
  { [messages |-> Old, durable |-> FALSE, restorable |-> FALSE],
    [messages |-> Old, durable |-> FALSE, restorable |-> TRUE],
    [messages |-> <<User>>, durable |-> TRUE, restorable |-> TRUE] }

-----------------------------------------------------------------------------
(* Checks of AgentSetup's functions over small arguments.                     *)

\* A source of the composite catalogue: tools of different names.
CatalogOf(n) ==
  {[i \in DOMAIN names |-> [Wire!SafeTool(names[i]) EXCEPT !.source = ToString(n)]] :
     names \in {<<>>, <<"x">>, <<"y">>, <<"x", "y">>, <<"y", "x">>}}

\* Reference for CompositeCatalog: a name belongs to the first source that has it, and
\* every other registration of it is told as one conflict.
ASSUME CompositeShadows ==
  \A a \in CatalogOf(1), b \in CatalogOf(2), c \in CatalogOf(3) :
    LET sources == <<a, b, c>>
        snapshot == Wire!Composite(sources)
        having(name) == {k \in 1..3 : Wire!Named(sources[k], name) # {}}
        first(name) == CHOOSE k \in having(name) : \A j \in having(name) : k <= j
    IN /\ \A name \in {"x", "y"} :
            /\ Cardinality(Wire!Named(snapshot.tools, name)) = (IF having(name) = {} THEN 0 ELSE 1)
            /\ \A i \in Wire!Named(snapshot.tools, name) :
                 snapshot.tools[i].source = ToString(first(name))
       /\ Len(snapshot.tools) + Len(snapshot.conflicts) = Len(a) + Len(b) + Len(c)

\* The calls of a provider builder in any order: the last base URL stands, a profile
\* only before the first; one malformed header makes build fail, whatever comes after.
Calls3 == {<<"profile", "p">>, <<"profile", "q">>, <<"url", "u">>, <<"url", "w">>,
           <<"header", "h">>, <<"header", Wire!Malformed>>}
ASSUME BuilderKeepsItsWord ==
  \A a, b, c \in Calls3 :
    LET made(x, call) ==
          CASE call[1] = "profile" -> Wire!Profile(x, Wire!Url(call[2], "v1"))
            [] call[1] = "url"     -> Wire!BaseUrl(x, Wire!Url(call[2], "v1"))
            [] OTHER               -> Wire!Header(x, "k", call[2])
        seq == <<a, b, c>>
        provider == Wire!BuildProvider(made(made(made(Wire!ProviderBuilder("openai"), a), b), c))
        urls == {i \in 1..3 : seq[i][1] = "url"}
        bases == {i \in 1..3 : seq[i][1] \in {"url", "profile"}}
        host == IF urls # {} THEN seq[CHOOSE i \in urls : \A j \in urls : j <= i][2]
                ELSE IF bases # {} THEN seq[CHOOSE i \in bases : \A j \in bases : i <= j][2]
                ELSE ""
    IN /\ provider.base_url.host = host
       /\ provider.errors = {} <=> bases # {} /\ \A i \in 1..3 : seq[i] # <<"header", Wire!Malformed>>

\* At most one breakpoint in a prompt, at its last stable layer; a backoff never exceeds
\* its maximum and never shrinks before the width of the exponent is reached; an agent
\* with the same identity offers the same names.
ASSUME SmallFacts ==
  /\ \A s \in [1..3 -> BOOLEAN] :
       LET content == Wire!Prompt([i \in 1..3 |-> Wire!Layer("t", s[i])]).content
       IN \A i \in 1..3 : content[i].cached <=> s[i] /\ \A j \in i + 1..3 : ~s[j]
  /\ \A k \in 1..15 : /\ Wire!Delay(500, 30000, k) <= Wire!Delay(500, 30000, k + 1)
                       /\ Wire!Delay(500, 30000, k + 1) <= 30000
  /\ \A t \in {"x", "y"}, u \in {"x", "y"} :
       LET agent(a, b) == Wire!AddTools(Wire!AgentBuilder(Model), <<Wire!SafeTool(a), Wire!ExclusiveTool(b)>>)
       IN Wire!Offered(agent(t, u)) # Wire!Offered(agent(u, t)) <=>
            Wire!Identity(agent(t, u)) # Wire!Identity(agent(u, t))

\* Only an error that a tool has put into its kind itself is retried: one from elsewhere, a
\* value that is no JSON and arguments that do not parse end the call.
Returned ==
  {[shape |-> sh, some |-> so, serializes |-> se, error |-> [from |-> f, kind |-> k]] :
     sh \in {"string", "json", "option", "result"}, so \in BOOLEAN, se \in BOOLEAN,
     f \in {"tool", "json", "io"}, k \in Wire!ToolErrorKind}
ASSUME ForeignErrorsAreFinal ==
  \A r \in Returned, parses \in BOOLEAN :
    LET out == Wire!Typed(parses, Wire!IntoTool(r))
    IN Wire!IsRetryable(out) =>
         parses /\ r.shape = "result" /\ ~r.some /\ r.error.from = "tool" /\ out = r.error.kind

\* A provider comes out of the environment exactly if its key is set and not empty and the
\* URL, its own or the default, is one; the key is sent in the style of the codec.
ASSUME KeyIsDemanded ==
  \A url \in {Wire!NoUrl, Wire!Url("u", "v1")}, key \in {"", "k"}, named, keyed \in BOOLEAN,
     style \in {"Bearer", "x-api-key"} :
    LET env == [v \in (IF named THEN {"URL"} ELSE {}) \cup (IF keyed THEN {"KEY"} ELSE {}) |->
                  IF v = "URL" THEN [text |-> "", url |-> url] ELSE [text |-> key, url |-> Wire!NoUrl]]
        made == Wire!FromEnvironment("openai", env, "URL", "KEY", Wire!Url("d", ""), style)
    IN /\ made.errors = {} <=> keyed /\ key # "" /\ (named => url # Wire!NoUrl)
       /\ made.errors = {} => /\ made.auth.secret = "k"
                              /\ made.base_url = IF named THEN url ELSE Wire!Url("d", "")
                              /\ Wire!Target(made, "/v1/messages").host = made.base_url.host

\* A level leads to a model exactly if its own route, the last one added, names a provider
\* that is registered.
ASSUME RoutesResolve ==
  \A a, b \in Wire!TaskLevel, p, q \in {"p", "q"}, level \in Wire!TaskLevel :
    LET entry(i) == Wire!RouteEntry(i, Model)
        none == [l \in {} |-> entry(p)]
        routes == Wire!AddRoute(Wire!AddRoute(none, a, entry(p)), b, entry(q))
        known == Wire!Register([i \in {} |-> "x"], "p", "x")
    IN Wire!Resolve(routes, known, level) # {} <=>
         (level = b /\ q = "p") \/ (level = a /\ a # b /\ p = "p")
=============================================================================
