-------------------------------- MODULE Fleet --------------------------------
(***************************************************************************)
(* The providers of a run: how its configuration and environment become    *)
(* the registry's slots (provider_setup.rs, inference-providers/src/       *)
(* config.rs, registry.rs), what the start-up probes make of them (qq.rs), *)
(* and how each backend (inference-providers/src/backends) turns what its  *)
(* service does into the errors that the registry tells apart.             *)
(*                                                                         *)
(* Prices, latencies, quality scores and the text of requests and answers  *)
(* are data that only the ranking looks at, and are left out.              *)
(***************************************************************************)
EXTENDS Naturals, Sequences, FiniteSetsExt

Micro == 1
Light == 2
Heavy == 3
Tiers == Micro..Heavy

-----------------------------------------------------------------------------
(* The backends.  What a service may do with one request, besides answering *)
(* it: a status code, a reply that is no JSON or lacks the text, one whose  *)
(* text is empty, no connection, and what only some of them do.             *)

Statuses == {"413", "429", "503 loading", "5xx", "4xx"}

\* For each kind of backend: whether it offers tools, and which of its service's
\* doings are its RateLimit, Unavailable and BadResponse.  Where an empty text
\* is no error it is an answer like another.
Anthropic ==
    [tools |-> TRUE,
     rateLimit |-> {"429"},
     unavailable |-> (Statuses \ {"429"}) \cup {"no connection"},
     badResponse |-> {"no text", "empty"}]

\* Groq, OpenAI, LM Studio, llama.cpp: a prompt that is too large is taken for
\* a rate limit.
OpenAiCompat ==
    [tools |-> TRUE,
     rateLimit |-> {"429", "413"},
     unavailable |-> (Statuses \ {"429", "413"}) \cup {"no connection"},
     badResponse |-> {"no text"}]

Ollama ==
    [tools |-> FALSE,
     rateLimit |-> {},
     unavailable |-> Statuses \cup {"no connection"},
     badResponse |-> {"no text"}]

\* An exhausted quota may come with any status, also with a good one.
Gemini ==
    [tools |-> FALSE,
     rateLimit |-> {"429", "exhausted"},
     unavailable |-> (Statuses \ {"429"}) \cup {"no connection", "error in the reply"},
     badResponse |-> {"no text"}]

\* A process; that its error output says "rate" is its rate limit.
ClaudeCli ==
    [tools |-> FALSE,
     rateLimit |-> {"says rate"},
     unavailable |-> {"not on PATH", "exit code"},
     badResponse |-> {"empty"}]

Backend == [anthropic |-> Anthropic, openai_compat |-> OpenAiCompat, ollama |-> Ollama,
            gemini |-> Gemini, claude_cli |-> ClaudeCli]

\* What the registry tells apart: a 429, a server still loading its model, any
\* other 5xx, and the rest, which nothing retries.
Errors == {"rate_limit", "loading", "server_error", "fatal"}

\* is_loading and is_transient look at the text of an Unavailable.
Class(doing) ==
    CASE doing = "503 loading" -> "loading"
      [] doing = "5xx" -> "server_error"
      [] OTHER -> "fatal"

\* The errors a backend of this kind can give its caller.
ErrorsOf(kind) ==
    LET b == Backend[kind]
    IN  {"rate_limit" : d \in b.rateLimit} \cup {"fatal" : d \in b.badResponse}
            \cup {Class(d) : d \in b.unavailable}

-----------------------------------------------------------------------------
(* Models.  Of a name: itself where the code lists it, the parameter count   *)
(* it carries in billions (0 for none), and whether it speaks of code.       *)

Model(name, size, coder) == [name |-> name, size |-> size, coder |-> coder]
Named(name) == Model(name, 0, FALSE)

\* A local model is promoted by a tier if it is for code.
LocalTier(m) ==
    CASE m.size >= 20 -> Heavy
      [] m.size \in 7..19 -> IF m.coder THEN Heavy ELSE Light
      [] m.size \in 1..6 -> Micro
      [] OTHER -> IF m.coder THEN Heavy ELSE Light

OpenAiTier(provider, m) ==
    CASE m.name \in {"llama-3.3-70b-versatile", "gpt-4o", "devstral", "gpt-oss-120b"} -> Heavy
      [] m.name \in {"llama-3.1-8b-instant", "mixtral-8x7b-32768", "gpt-4o-mini", "mistral"} -> Light
      [] OTHER -> IF provider \in {"lmstudio", "local"} THEN LocalTier(m) ELSE Heavy

OllamaTier(m) ==
    CASE m.name \in {"mixtral:8x7b", "deepseek-coder-v2", "command-r-plus"} \/ m.size >= 20 -> Heavy
      [] m.size \in 1..6 -> Micro
      [] OTHER -> Light

AnthropicTier(m) == IF m.name = "claude-haiku-4-5-20251001" THEN Light ELSE Heavy

Tier(e, m) ==
    CASE e.kind = "openai_compat" -> OpenAiTier(e.name, m)
      [] e.kind = "ollama" -> OllamaTier(m)
      [] e.kind = "anthropic" -> AnthropicTier(m)
      [] OTHER -> Heavy

-----------------------------------------------------------------------------
(* A run's providers.                                                        *)

\* One [[providers]] table of config.toml, or what stands for one.
Entry(kind, name, models) == [kind |-> kind, name |-> name, models |-> models]

\* Only a compatible endpoint is called what its entry says.
ProviderName(e) == IF e.kind = "openai_compat" THEN e.name ELSE e.kind

DefaultCliModel == Named("claude-haiku-4-5-20251001")

\* The CLI has one model in any case.
ModelsOf(e) == IF e.kind = "claude_cli" /\ e.models = << >> THEN <<DefaultCliModel>> ELSE e.models

\* down: the providers without a key, an address, a running server or a binary.
\* A provider can do what the largest of its models can.
SlotOf(e, down) ==
    [name |-> ProviderName(e), kind |-> e.kind, available |-> ProviderName(e) \notin down,
     tools |-> Backend[e.kind].tools,
     tier |-> Max({0} \cup {Tier(e, ModelsOf(e)[i]) : i \in DOMAIN ModelsOf(e)}),
     contextOk |-> TRUE]

\* from_env, without a configuration: its own key, and a local model.
FromEnv(env) ==
    (IF "anthropic" \in env
     THEN <<Entry("anthropic", "anthropic", <<Named("claude-opus-4-7"), Named("claude-sonnet-4-6")>>)>>
     ELSE << >>)
    \o (IF "ollama" \in env THEN <<Entry("ollama", "ollama", <<Model("qwen", 7, TRUE)>>)>> ELSE << >>)

\* What the environment adds to any configuration, in this order.
Added(env) ==
    SelectSeq(<<Entry("openai_compat", "groq",
                      <<Named("llama-3.3-70b-versatile"), Named("llama-3.1-8b-instant")>>),
                Entry("openai_compat", "openai", <<Named("gpt-4o"), Named("gpt-4o-mini")>>),
                Entry("openai_compat", "lmstudio", <<Model("qwen2.5-coder:32b", 32, TRUE)>>),
                Entry("claude_cli", "claude_cli", <<DefaultCliModel>>),
                Entry("gemini", "gemini", <<Named("gemini-2.0-flash")>>)>>,
              LAMBDA e : e.name \in env)

\* build_registry: the slots, in their order.
BuildRegistry(config, env, down) ==
    LET entries == (IF config = << >> THEN FromEnv(env) ELSE config) \o Added(env)
    IN  [s \in DOMAIN entries |-> SlotOf(entries[s], down)]

\* The context probe of an available provider: one that is rate limited keeps
\* its good name, one that fails or does not see the end of the list loses it.
Probed(slot) ==
    IF slot.available THEN {[slot EXCEPT !.contextOk = ok] : ok \in BOOLEAN} ELSE {slot}

\* run_qq, which REWRITER_SKIP_QQ leaves out.
RunQq(slots, skip) ==
    IF skip THEN {slots}
    ELSE {q \in [DOMAIN slots -> UNION {Probed(slots[s]) : s \in DOMAIN slots}] :
            \A s \in DOMAIN slots : q[s] \in Probed(slots[s])}

\* Whether a provider is there is asked anew for every call; an Ollama server
\* and the CLI come and go, a key or an address stays.
ComesAndGoes(slot) == slot.kind \in {"ollama", "claude_cli"}
=============================================================================
