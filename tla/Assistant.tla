----------------------------- MODULE Assistant -----------------------------
(***************************************************************************)
(* The settings of a service - the language model, or speech recognition - *)
(* and the questions asked to the language model (backend/system/api.py,   *)
(* the user_service_configs table of auth_store).                          *)
(*                                                                         *)
(* With accounts, each user has a row of each kind, independent of others; *)
(* without, the process has one record of settings for the language model, *)
(* and both kinds fall back to the environment.  A save names some of the  *)
(* fields and takes the others from what it has read: the global save does *)
(* so under the write lock, a user's in two steps.  A question reads the   *)
(* settings twice, for the prompt and for the service.  The name of a      *)
(* model is treated as the URL is.                                         *)
(***************************************************************************)
EXTENDS Naturals

CONSTANTS
    Learners,        \* users
    AskThreads,      \* threads of the server
    Urls, Keys,      \* services and API keys a save may name
    EnvUrl,          \* the service in the environment of the deployment, and the default
    Unset,           \* no value
    MaxEdits         \* bound: saves that begin

Modes == {"system", "user_concat"}
Settings == [url: Urls \cup {EnvUrl}, key: Keys \cup {Unset}, mode: Modes]
Named == [url: Urls \cup {Unset}, key: Keys \cup {Unset}, mode: Modes]

ASSUME AssistantAssumption ==
    /\ Unset \notin Urls \cup {EnvUrl} \cup Modes \cup Learners \cup Settings \cup Named
    /\ MaxEdits \in Nat

VARIABLES
    kind,            \* the kind of service this is about: "llm" or "asr"
    authEnabled,     \* current_runtime_features().auth_enabled
    env,             \* the service the environment names
    global,          \* g.global_llm_settings
    rows,            \* user_service_configs of this kind, by user
    work,            \* what each thread is doing
    edits,           \* saves begun so far
    named,           \* history: the value the last save that named a field gave it
    overlapped,      \* history: users of whom two saves have overlapped
    answered         \* history: whether each question used one row, and was disturbed

askVars == <<kind, authEnabled, env, global, rows, work, edits, named, overlapped, answered>>

DefaultMode == "system"
Off == [pc |-> "off"]
Doing(t, pc) == work[t].pc = pc
Else(value, default) == IF value # Unset THEN value ELSE default

NothingNamed == [url |-> Unset, key |-> Unset, mode |-> DefaultMode]

AskInit ==
    /\ kind \in {"llm", "asr"} /\ authEnabled \in BOOLEAN /\ env \in {Unset, EnvUrl}
    /\ global = Unset /\ rows = [u \in Learners |-> Unset]
    /\ work = [t \in AskThreads |-> Off]
    /\ edits = 0 /\ named = [u \in Learners |-> NothingNamed]
    /\ overlapped = {} /\ answered = {}

-----------------------------------------------------------------------------
(* What is in force. *)

Env == IF env = Unset THEN Unset ELSE [url |-> env, key |-> Unset, mode |-> DefaultMode]

\* get_effective_llm_service_config, _resolve_effective_asr_service_config; Unset
\* stands for a request without a user
Effective(u) ==
    IF u # Unset /\ rows[u] # Unset THEN rows[u]
    ELSE IF kind = "asr" THEN Env
    ELSE IF authEnabled THEN Unset ELSE Else(global, Env)

\* get_effective_llm_prompt_assembly_mode
EffectiveMode(u) ==
    IF u # Unset /\ rows[u] # Unset THEN rows[u].mode
    ELSE IF authEnabled \/ global = Unset THEN DefaultMode ELSE global.mode

LlmUserSource(u) == IF u # Unset /\ rows[u] # Unset THEN "user" ELSE "none"
LlmGlobalSource == IF global # Unset THEN "global" ELSE IF Env # Unset THEN "env" ELSE "none"
AsrSource(u) == IF u # Unset /\ rows[u] # Unset THEN "user" ELSE IF Env # Unset THEN "env" ELSE "none"

\* what the status says is in force
Source(u) ==
    IF kind = "asr" THEN AsrSource(u) ELSE IF authEnabled THEN LlmUserSource(u) ELSE LlmGlobalSource

\* the middleware finds a user when accounts are on, and only then
Asker(u) == authEnabled <=> u # Unset

-----------------------------------------------------------------------------
(* Saving. *)

Requests ==
    [url: Urls \cup {Unset}, key: Keys \cup {Unset, "clear"}, mode: Modes \cup {Unset}]
    \ {[url |-> Unset, key |-> Unset, mode |-> Unset]}

\* the key: cleared, given, or the one of the row
KeyAfter(request, row) ==
    IF request.key = "clear" THEN Unset
    ELSE Else(request.key, IF row = Unset THEN Unset ELSE row.key)

\* update_global_llm_settings, under the write lock; the default service is the last resort
UpdateGlobalSettings(request) ==
    LET current == Else(global, Else(Env, [url |-> EnvUrl, key |-> Unset, mode |-> DefaultMode]))
    IN  /\ kind = "llm" /\ ~authEnabled /\ edits < MaxEdits
        /\ edits' = edits + 1
        /\ global' = [url  |-> Else(request.url, current.url),
                      key  |-> KeyAfter(request, global),
                      mode |-> Else(request.mode, current.mode)]
        /\ work' = [t \in AskThreads |-> IF Doing(t, "off") THEN work[t] ELSE [work[t] EXCEPT !.disturbed = TRUE]]
        /\ UNCHANGED <<kind, authEnabled, env, rows, named, overlapped, answered>>

\* update_user_llm_settings, update_user_asr_settings: without a row the service must
\* be named, unless speech recognition has one in the environment
Base(u) == Else(rows[u], IF kind = "asr" THEN Env ELSE Unset)

ReadSettings(t, u, request) ==
    /\ authEnabled /\ Doing(t, "off") /\ edits < MaxEdits
    /\ Else(request.url, Base(u)) # Unset /\ (request.mode # Unset => kind = "llm")
    /\ edits' = edits + 1
    /\ work' = [work EXCEPT ![t] =
          [pc |-> "upsert", user |-> u, request |-> request, read |-> Base(u), disturbed |-> FALSE]]
    /\ UNCHANGED <<kind, authEnabled, env, global, rows, named, overlapped, answered>>

\* mutant: the key of the row that was read before
KeyReadBefore(t) == KeyAfter(work[t].request, work[t].read)

\* the key of the row in the transaction of the upsert
KeyStored(t) == KeyAfter(work[t].request, rows[work[t].user])

\* upsert_user_service_config
Upsert(t) ==
    /\ Doing(t, "upsert")
    /\ LET u == work[t].user  request == work[t].request  read == work[t].read
       IN  /\ rows' = [rows EXCEPT ![u] =
                 [url  |-> IF request.url # Unset THEN request.url ELSE read.url,
                  key  |-> KeyStored(t),
                  mode |-> Else(request.mode, IF read # Unset THEN read.mode ELSE DefaultMode)]]
           /\ named' = [named EXCEPT ![u] = [url  |-> Else(request.url, @.url),
                                             key  |-> KeyAfter(request, @),
                                             mode |-> Else(request.mode, @.mode)]]
           /\ overlapped' = IF work[t].disturbed THEN overlapped \cup {u} ELSE overlapped
           /\ work' = [x \in AskThreads |->
                 IF x = t THEN Off
                 ELSE IF Doing(x, "off") \/ work[x].user # u THEN work[x]
                 ELSE [work[x] EXCEPT !.disturbed = TRUE]]
    /\ UNCHANGED <<kind, authEnabled, env, global, edits, answered>>

-----------------------------------------------------------------------------
(* Asking. *)

\* request_project_llm_text(_stream), request_llm_text: after the context, how the
\* prompt is put together
ChooseMode(t, u) ==
    /\ kind = "llm" /\ Asker(u) /\ Doing(t, "off")
    /\ work' = [work EXCEPT ![t] = [pc |-> "transport", user |-> u, mode |-> EffectiveMode(u), disturbed |-> FALSE]]
    /\ UNCHANGED <<kind, authEnabled, env, global, rows, edits, named, overlapped, answered>>

\* _build_llm_chat_completion_transport: where the question goes, or that no
\* service is configured; the service answers or fails, and the exchange is recorded
Transport(t) ==
    /\ Doing(t, "transport")
    /\ LET cfg == Effective(work[t].user)
       IN  answered' = IF cfg = Unset THEN answered
                       ELSE answered \cup {[torn |-> work[t].mode # cfg.mode, disturbed |-> work[t].disturbed]}
    /\ work' = [work EXCEPT ![t] = Off]
    /\ UNCHANGED <<kind, authEnabled, env, global, rows, edits, named, overlapped>>

AskNext ==
    \/ \E request \in Requests : UpdateGlobalSettings(request)
    \/ \E t \in AskThreads :
          \/ \E u \in Learners, request \in Requests : ReadSettings(t, u, request)
          \/ Upsert(t)
          \/ \E u \in Learners \cup {Unset} : ChooseMode(t, u)
          \/ Transport(t)

AskSpec == AskInit /\ [][AskNext]_askVars

-----------------------------------------------------------------------------
(* Properties. *)

\* What a user has saved is in force (api.py:1458-1527, 2275-2400, 2514-2560).  A
\* field keeps what the last save that named it gave it: the key always, the service
\* and the mode unless two saves of the user have overlapped, when the later one
\* puts back what it has read.  The settings page says "none" exactly when a question
\* would be refused.  And a question is put together for the service it is sent to,
\* unless the settings were saved in between.
SettingsFollowSaves ==
    /\ \A u \in Learners : rows[u] # Unset =>
          /\ rows[u].key = named[u].key
          /\ u \notin overlapped => /\ rows[u].url = Else(named[u].url, env)
                                   /\ rows[u].mode = named[u].mode
    /\ \A u \in Learners \cup {Unset} : Asker(u) => (Source(u) = "none" <=> Effective(u) = Unset)
    /\ \A a \in answered : a.torn => a.disturbed
=============================================================================
