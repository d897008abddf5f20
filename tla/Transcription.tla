---------------------------- MODULE Transcription ---------------------------
(***************************************************************************)
(* Speech recognition on behalf of a learner (backend/system/api.py,       *)
(* local_whisper.py, adapter/routers/asr.py).                              *)
(*                                                                         *)
(* A request opens a READ_WRITE session - the process-wide write lock -    *)
(* and keeps it while it cuts a clip, calls a recognition service and      *)
(* appends one audit event.  The clip is cut on the server (handlers that  *)
(* run in the thread pool) or uploaded (async handlers, which run, and     *)
(* block, on the event loop).  The service is one of                       *)
(*   "http"       one multipart POST with a timeout;                       *)
(*   "dashscope"  an asynchronous task: the service downloads the clip     *)
(*                from this very server while the request polls the task;  *)
(*   "builtin"    a child process that is started when none is healthy.    *)
(* Times are abstracted: a timeout may strike whenever its wait is going   *)
(* on.  What is said in the transcript does not matter here, and a window  *)
(* has a length (one of length zero is answered without a call).           *)
(***************************************************************************)
EXTENDS Naturals, FiniteSets

CONSTANTS
    Pool,             \* threads of the pool that runs the synchronous handlers
    Loop,             \* the event loop
    NoService,        \* no configuration, no runtime
    RequestServices,  \* what a request may name itself (NoService: nothing)
    SavedServices,    \* what the user's saved settings may be
    EnvService,       \* what the deployment's environment says
    MaxSlots,         \* ASR_SERVER_FFMPEG_MAX_CONCURRENCY
    MaxRequests,      \* bound: requests that open a session
    MaxRuntimes       \* bound: child processes ever started

ASSUME TranscriptionAssumption ==
    /\ Loop \notin Pool /\ NoService \notin Nat
    /\ MaxSlots \in Nat \ {0} /\ MaxRequests \in Nat /\ MaxRuntimes \in Nat

VARIABLES
    writeLock,   \* g._write_lock_held
    point,       \* the state of the recall point the requests are about
    saved,       \* user_service_configs: the user's row of kind "asr"
    slots,       \* _ASR_SERVER_FFMPEG_SEMAPHORE
    clips,       \* workers with a clip in a temporary directory
    assets,      \* _public_asr_temp_assets: workers whose clip may be downloaded
    task,        \* the DashScope task of a worker: none, queued, fetched, done, failed
    runtime,     \* _RUNTIME_PROCESS / _RUNTIME_URL
    process,     \* the child processes: none, booting, up, hung, gone
    job,         \* what each worker is doing
    requests,    \* requests so far
    recorded,    \* the committed audit events: where the clip came from, who was asked
    doubted      \* history: processes found unhealthy while alive, or left by a dead server

serviceVars == <<writeLock, point, saved, slots, clips, assets, task, runtime, process,
                 job, requests, recorded, doubted>>

Workers == Pool \cup {Loop}
Runtimes == 1..MaxRuntimes
Idle == [pc |-> "idle"]
Is(w, pc) == job[w].pc = pc
Proceed(w, pc) == job' = [job EXCEPT ![w].pc = pc]
Running(i) == process[i] \in {"booting", "up", "hung"}

InSlot(w) == ~Is(w, "idle") /\ job[w].slot

AsrInit ==
    /\ writeLock = FALSE /\ point = "ACTIVE" /\ saved = NoService
    /\ slots = MaxSlots /\ clips = {} /\ assets = {}
    /\ task = [w \in Workers |-> "none"]
    /\ runtime = NoService /\ process = [i \in Runtimes |-> "none"]
    /\ job = [w \in Workers |-> Idle]
    /\ requests = 0 /\ recorded = {} /\ doubted = {}

-----------------------------------------------------------------------------
(* Leaving a request.                                                      *)

\* _unregister_public_asr_temp_asset, at the end of the DashScope exchange
Unregister(w) == assets' = assets \ {w}

\* mutant: the slot is not given back when the session fails
UnwindKeepsSlot(w) ==
    /\ clips' = clips \ {w} /\ Unregister(w)
    /\ UNCHANGED slots

\* the finally clauses and the with blocks: asset, temporary directory, slot
Unwind(w) ==
    /\ clips' = clips \ {w} /\ Unregister(w)
    /\ slots' = IF InSlot(w) THEN slots + 1 ELSE slots

Answered(w) ==
    /\ Unwind(w)
    /\ writeLock' = FALSE
    /\ task' = [task EXCEPT ![w] = "none"]
    /\ job' = [job EXCEPT ![w] = Idle]
    /\ UNCHANGED <<point, saved, runtime, requests, recorded, doubted>>

\* an exception: unwind, roll back, answer with the error
Fail(w) == Answered(w) /\ UNCHANGED process

Step(w, pc) ==
    /\ Proceed(w, pc)
    /\ UNCHANGED <<writeLock, point, saved, slots, clips, assets, task, runtime, process,
                   requests, recorded, doubted>>

-----------------------------------------------------------------------------
(* Opening the session; one action per entry point.  Every request reaches *)
(* the server through the event loop.                                      *)

\* begin_session: another session that is open makes it a conflict, with no effect
Open(w, target, asked) ==
    /\ Is(w, "idle") /\ Is(Loop, "idle") /\ requests < MaxRequests
    /\ ~writeLock /\ writeLock' = TRUE
    /\ requests' = requests + 1
    /\ job' = [job EXCEPT ![w] = [pc |-> "resolve", target |-> target, asked |-> asked,
                                  service |-> NoService, slot |-> FALSE, runtime |-> NoService]]
    /\ UNCHANGED <<point, saved, slots, clips, assets, task, runtime, process, recorded, doubted>>

RequestAsr(w, asked) == w \in Pool /\ Open(w, "point", asked)
RequestInstanceAsr(w, asked) == w \in Pool /\ Open(w, "instance", asked)
RequestAsrFromAudioUpload(w, asked) == w = Loop /\ Open(w, "point", asked)
RequestInstanceAsrFromAudioUpload(w, asked) == w = Loop /\ Open(w, "instance", asked)

\* _resolve_effective_asr_service_config: the request, the user's settings, the
\* environment.  The entry point asks it once more, for the audit event.
AsrServiceFor(asked) ==
    IF asked # NoService THEN asked
    ELSE IF saved # NoService THEN saved ELSE EnvService

Served(w) == AsrServiceFor(job[w].asked)

Resolved(w, pc) ==
    /\ job' = [job EXCEPT ![w].pc = pc, ![w].service = Served(w)]
    /\ UNCHANGED <<writeLock, point, saved, slots, assets, task, runtime, process,
                   requests, recorded, doubted>>

\* a clip is to be cut on the server; the built-in runtime reads the file itself
ToExtract(w) ==
    /\ Served(w) # NoService
    /\ Resolved(w, IF Served(w) = "builtin" THEN "health" ELSE "slot")
    /\ UNCHANGED clips

\* the upload is written to a temporary directory; the built-in runtime takes none
ToUpload(w) ==
    /\ Served(w) \notin {NoService, "builtin"}
    /\ clips' = clips \cup {w}
    /\ Resolved(w, "call")

Resolving(w, target) == Is(w, "resolve") /\ job[w].target = target

\* _resolve_request_asr_context
PointOk == point = "ACTIVE"

\* The four forms up to the call: a window, a file, its type or its size may be refused.
RequestAsrInSession(w) ==
    /\ Resolving(w, "point") /\ w \in Pool
    /\ (PointOk /\ ToExtract(w)) \/ Fail(w)

RequestInstanceAsrInSession(w) ==
    /\ Resolving(w, "instance") /\ w \in Pool
    /\ ToExtract(w) \/ Fail(w)

RequestAsrFromAudioUploadInSession(w) ==
    /\ Resolving(w, "point") /\ w = Loop
    /\ (PointOk /\ ToUpload(w)) \/ Fail(w)

RequestInstanceAsrFromAudioUploadInSession(w) ==
    /\ Resolving(w, "instance") /\ w = Loop
    /\ ToUpload(w) \/ Fail(w)

\* _asr_server_ffmpeg_slot: the wait for a slot ends with "busy, please retry later"
TakeSlot(w) ==
    /\ Is(w, "slot")
    /\ \/ /\ slots > 0
          /\ slots' = slots - 1
          /\ job' = [job EXCEPT ![w].pc = "extract", ![w].slot = TRUE]
          /\ UNCHANGED <<writeLock, point, saved, clips, assets, task, runtime, process,
                         requests, recorded, doubted>>
       \/ slots = 0 /\ Fail(w)

\* _extract_audio_clip: ffmpeg writes the clip, fails or is stopped after its timeout
ExtractClip(w) ==
    /\ Is(w, "extract")
    /\ \/ /\ clips' = clips \cup {w}
          /\ Proceed(w, "call")
          /\ UNCHANGED <<writeLock, point, saved, slots, assets, task, runtime, process,
                         requests, recorded, doubted>>
       \/ Fail(w)

-----------------------------------------------------------------------------
(* The services.                                                           *)

\* _http_post_multipart_json
CallHttp(w) ==
    /\ Is(w, "call") /\ job[w].service = "http"
    /\ Step(w, "reply") \/ Fail(w)

\* _register_public_asr_temp_asset (which prunes the assets without a file), then
\* the submission of the task, which may fail
SubmitDashscope(w) ==
    /\ Is(w, "call") /\ job[w].service = "dashscope"
    /\ \/ /\ assets' = (assets \cap clips) \cup {w}
          /\ task' = [task EXCEPT ![w] = "queued"]
          /\ Proceed(w, "poll")
          /\ UNCHANGED <<writeLock, point, saved, slots, clips, runtime, process,
                         requests, recorded, doubted>>
       \/ Fail(w)

\* a poll that finds the task succeeded, and the download of its result
PollSucceeds(w) ==
    /\ Is(w, "poll") /\ task[w] = "done"
    /\ Unregister(w)
    /\ task' = [task EXCEPT ![w] = "none"]
    /\ Proceed(w, "reply")
    /\ UNCHANGED <<writeLock, point, saved, slots, clips, runtime, process,
                   requests, recorded, doubted>>

\* the task failed, a poll failed, or DASHSCOPE_ASR_TASK_TIMEOUT_SEC is over
PollFails(w) == Is(w, "poll") /\ Fail(w)

\* mutant: the upload handlers run in the thread pool
ServedByPool(w) ==
    /\ w \in assets /\ w \in clips /\ task[w] = "queued"
    /\ task' = [task EXCEPT ![w] = "fetched"]
    /\ UNCHANGED <<writeLock, point, saved, slots, clips, assets, runtime, process, job,
                   requests, recorded, doubted>>

\* get_public_asr_bridge_asset: DashScope downloads the clip of its task.  The
\* event loop must be free to take the connection.
ServeClip(w) ==
    /\ Is(Loop, "idle")
    /\ w \in assets /\ w \in clips /\ task[w] = "queued"
    /\ task' = [task EXCEPT ![w] = "fetched"]
    /\ UNCHANGED <<writeLock, point, saved, slots, clips, assets, runtime, process, job,
                   requests, recorded, doubted>>

\* DashScope: a task succeeds when its clip has been read, and may fail at any time
TaskEnds(w) ==
    /\ \/ task[w] = "fetched" /\ \E end \in {"done", "failed"} : task' = [task EXCEPT ![w] = end]
       \/ task[w] = "queued" /\ task' = [task EXCEPT ![w] = "failed"]
    /\ UNCHANGED <<writeLock, point, saved, slots, clips, assets, runtime, process, job,
                   requests, recorded, doubted>>

-----------------------------------------------------------------------------
(* The built-in runtime: ensure_local_whisper_runtime.                     *)

Fresh == {i \in Runtimes : process[i] = "none"}

Healthy == runtime # NoService /\ process[runtime] = "up"

\* the health check of the known runtime; a process that ended is forgotten, one
\* that is alive but does not answer stays known until another one is healthy
CheckRuntime(w) ==
    /\ Is(w, "health")
    /\ IF Healthy
       THEN /\ job' = [job EXCEPT ![w].pc = "whisper", ![w].runtime = runtime]
            /\ UNCHANGED <<runtime, doubted>>
       ELSE /\ Proceed(w, "start")
            /\ runtime' = IF runtime # NoService /\ Running(runtime) THEN runtime ELSE NoService
            /\ doubted' = doubted \cup {i \in Runtimes : i = runtime /\ Running(i)}
    /\ UNCHANGED <<writeLock, point, saved, slots, clips, assets, task, process,
                   requests, recorded>>

\* another process is started, unless whisper or its script is not installed
StartRuntime(w) ==
    /\ Is(w, "start")
    /\ \/ /\ Fresh # {}
          /\ LET i == CHOOSE i \in Fresh : TRUE
             IN  /\ process' = [process EXCEPT ![i] = "booting"]
                 /\ job' = [job EXCEPT ![w].pc = "boot", ![w].runtime = i]
          /\ UNCHANGED <<writeLock, point, saved, slots, clips, assets, task, runtime,
                         requests, recorded, doubted>>
       \/ Fail(w)

\* the new process answers: it is the runtime from now on
BootSucceeds(w) ==
    /\ Is(w, "boot") /\ process[job[w].runtime] = "up"
    /\ runtime' = job[w].runtime
    /\ Proceed(w, "whisper")
    /\ UNCHANGED <<writeLock, point, saved, slots, clips, assets, task, process,
                   requests, recorded, doubted>>

\* it ended, or 60 seconds are over: it is terminated
BootFails(w) ==
    /\ Is(w, "boot")
    /\ process' = [process EXCEPT ![job[w].runtime] = "gone"]
    /\ Answered(w)

\* POST /asr/request: an answer of a healthy process, or an error
CallWhisper(w) ==
    /\ Is(w, "whisper")
    /\ \/ process[job[w].runtime] = "up" /\ Step(w, "reply")
       \/ Fail(w)

\* a child process becomes ready, stops answering, answers again, or ends
ProcessChanges(i) ==
    /\ \E s \in (CASE process[i] = "booting" -> {"up", "gone"}
                   [] process[i] = "up"      -> {"hung", "gone"}
                   [] process[i] = "hung"    -> {"up", "gone"}
                   [] OTHER                  -> {}) :
         process' = [process EXCEPT ![i] = s]
    /\ UNCHANGED <<writeLock, point, saved, slots, clips, assets, task, runtime, job,
                   requests, recorded, doubted>>

-----------------------------------------------------------------------------
(* The answer.                                                             *)

\* the segments are parsed, the temporary directory and the slot given back
Parse(w) ==
    /\ Is(w, "reply")
    /\ \/ /\ Unwind(w)
          /\ job' = [job EXCEPT ![w].pc = "commit", ![w].slot = FALSE]
          /\ UNCHANGED <<writeLock, point, saved, task, runtime, process,
                         requests, recorded, doubted>>
       \/ Fail(w)

\* the REQUEST_ASR event
Event(w) == [uploaded |-> w = Loop, service |-> job[w].service]

\* _append_audit_event and commit, which may fail as a whole
Record(w) ==
    /\ Is(w, "commit")
    /\ \/ /\ recorded' = recorded \cup {Event(w)}
          /\ writeLock' = FALSE
          /\ job' = [job EXCEPT ![w] = Idle]
          /\ UNCHANGED <<point, saved, slots, clips, assets, task, runtime, process,
                         requests, doubted>>
       \/ Fail(w)

-----------------------------------------------------------------------------
(* The rest of the server.                                                 *)

\* upsert_user_service_config: the account store has no part in the write lock
SaveSettings(service) ==
    /\ saved # service
    /\ saved' = service
    /\ UNCHANGED <<writeLock, point, slots, clips, assets, task, runtime, process, job,
                   requests, recorded, doubted>>

\* delete_recall_point: a session of another request
DeletePoint ==
    /\ ~writeLock
    /\ point = "ACTIVE" /\ point' = "DELETED"
    /\ UNCHANGED <<writeLock, saved, slots, clips, assets, task, runtime, process, job,
                   requests, recorded, doubted>>

\* The server stops - in order (atexit terminates the runtime it knows) or not - and
\* starts again with an empty memory; other children live on.
Restart(inOrder) ==
    /\ \E w \in Workers : ~Is(w, "idle")
    /\ process' = [i \in Runtimes |-> IF inOrder /\ i = runtime THEN "gone" ELSE process[i]]
    /\ doubted' = doubted \cup {i \in Runtimes : Running(i)}
    /\ writeLock' = FALSE /\ slots' = MaxSlots /\ clips' = {} /\ assets' = {}
    /\ task' = [w \in Workers |-> "none"] /\ runtime' = NoService
    /\ job' = [w \in Workers |-> Idle]
    /\ UNCHANGED <<point, saved, requests, recorded>>

-----------------------------------------------------------------------------
Advance(w) ==
    \/ RequestAsrInSession(w) \/ RequestInstanceAsrInSession(w)
    \/ RequestAsrFromAudioUploadInSession(w) \/ RequestInstanceAsrFromAudioUploadInSession(w)
    \/ TakeSlot(w) \/ ExtractClip(w)
    \/ CallHttp(w) \/ SubmitDashscope(w) \/ PollSucceeds(w) \/ PollFails(w)
    \/ CheckRuntime(w) \/ StartRuntime(w) \/ BootSucceeds(w) \/ BootFails(w) \/ CallWhisper(w)
    \/ Parse(w) \/ Record(w)

Requested(w) == \E asked \in RequestServices :
    \/ RequestAsr(w, asked) \/ RequestInstanceAsr(w, asked)
    \/ RequestAsrFromAudioUpload(w, asked) \/ RequestInstanceAsrFromAudioUpload(w, asked)

ServiceNext ==
    \/ \E w \in Workers : Requested(w) \/ Advance(w) \/ ServeClip(w) \/ TaskEnds(w)
    \/ \E i \in Runtimes : ProcessChanges(i)
    \/ \E service \in SavedServices : SaveSettings(service)
    \/ DeletePoint
    \/ \E inOrder \in BOOLEAN : Restart(inOrder)

AsrSpec == AsrInit /\ [][ServiceNext]_serviceVars

-----------------------------------------------------------------------------
(* Properties.                                                             *)

\* Nothing is left behind, on any way out of a request (api.py:185-192, 579-635,
\* 970-1054; local_whisper.py:77-125): the write lock belongs to one request at work;
\* the semaphore counts the requests that hold a slot; a clip belongs to a request
\* at work, and can be downloaded only while that request waits for its task; and a
\* child process that runs is the known runtime, or being started, or was found not
\* to answer, or was left by a server that stopped.
ResourcesHaveOwners ==
    LET working == {w \in Workers : ~Is(w, "idle")}
    IN  /\ writeLock <=> working # {}
        /\ \A v, w \in working : v = w
        /\ slots + Cardinality({w \in Workers : InSlot(w)}) = MaxSlots
        /\ clips \subseteq working
        /\ assets \subseteq {w \in clips : Is(w, "poll")}
        /\ \A i \in Runtimes : Running(i) =>
               i = runtime \/ i \in doubted \/ \E w \in Workers : Is(w, "boot") /\ job[w].runtime = i

\* An uploaded clip is never transcribed by DashScope: the request that waits for
\* the task blocks the event loop that would have to serve the clip
\* (adapter/routers/asr.py:71, api.py:1003-1026).
NoUploadByBridge == \A r \in recorded : ~(r.uploaded /\ r.service = "dashscope")
=============================================================================
