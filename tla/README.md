# LiveKit Agents in TLA+

A specification of the concurrent core of LiveKit Agents, the Python framework
for voice agents, and of the provider plugins that run under it. Paths below are
relative to `src/livekit-agents/livekit/agents/`; a plugin is named by its
provider. Every definition is a translation of the code; `PROJECT.json` ("map")
names the lines.

An agent process is one asyncio loop: tasks interleave only at an `await`, so an
action of these modules is the code between two awaits of one task. What is hard
in this code is in those interleavings: state read before an await and used
after it, done callbacks that run one turn of the loop later, cancellation at any
await, OS processes that die between two messages, connections that close while
something is sent.

## 1. The system and its parts

### The voice agent

**Speech scheduling of an agent** (`voice/agent_activity.py`,
`voice/speech_handle.py`, `voice/generation.py`).
*State*: the heap `_speech_q`, `_current_speech`, the event `_q_updated`,
`_draining`, the set `_speech_tasks`, the task of the last user turn; per speech
the futures `_interrupt_fut`, `_authorize_fut`, `_playout_done_fut`, the chat
message, the step index; of a realtime model, the tool choice. *Operations*:
`say`, `generate_reply`, `interrupt`, `drain`, `on_end_of_turn`,
`on_vad_inference_done`, `update_options`, and the tasks these start.
*Interactions*: the session calls it and shows its state to the user; audio
recognition tells it the end of a turn; each speech task runs an LLM, TTS,
forwarding and tool tasks, or asks a realtime model for a response, and writes to
the one audio output. *Hard*: replies generate before they are authorized to
play; interruptions and drain arrive at any await; tools outlive the playout,
await handles and schedule new speeches; the same state
"listening/thinking/speaking" and the one realtime session are used by all
tasks. *Correct if*: the output is never shared, speeches come in order, every
handle is resolved, a message is recorded before its handle resolves, drain waits
for everything and ends, the shown state fits what is heard, an interruption cuts
nothing else and a response is made with its own tool choice.

**Agent session** (`voice/agent_session.py`). *State*: `_started`, the current and
the next activity, the agent, the session's lock and the activity lock.
*Operations*: `start`, `update_agent` with `_update_activity_task`, `drain`,
`aclose`, `_on_error` and the job's shutdown callback. *Hard*: starts and closes
take one lock, hand-overs another, and each activity has a third; a tool of the
activity that is drained may itself close the session. *Correct if*: one agent
runs, the close event comes once per start, nothing the agent says is cut, closes
end and the agent that was asked for last is the one that runs.

**Turn detection** (`voice/audio_recognition.py`). *State*: `_audio_transcript`,
the interim transcript, `_speaking`, `_user_turn_committed`, `_end_of_turn_task`.
*Operations*: VAD and STT events, `commit_user_turn`, `clear_user_turn`, the
end-of-turn task. *Hard*: VAD and STT are not in step; the task that ends a turn
sleeps, and is cancelled or replaced. *Correct if*: what the user says is in one
turn, once and in order; no turn ends over a user who speaks; turns end.

**Audio and text outputs** (`voice/generation.py`, `voice/io.py`,
`voice/room_io/_output.py`, `voice/transcription/synchronizer.py`). *State*:
segments and finished segments of two chained outputs, the segment of the
synchronizer, the future of the subscription; the segment, text and track of a
transcript. *Operations*: `capture_frame`, `flush`, `clear_buffer`,
`wait_for_playout`, `capture_text`, `rotate_segment`, `set_participant`. *Hard*:
cancelling a task cancels the future or the task it awaits; segments are replaced
by tasks while the next speech starts. *Correct if*: waits end, a speech is shown
in full, apart and under the right track, an interrupted one is recorded with its
own text.

**Room input and participants** (`voice/room_io/room_io.py`, `_input.py`,
`_pre_connect_audio.py`, `job.py`). *State*: the identity that is linked and the
future of the participant that is available; the stream of the microphone and its
forwarding task; the tasks of participant entrypoints. *Hard*: participants and
tracks come and go while tasks wait for them, and `set_participant` replaces the
future they wait for. *Correct if*: the session is linked to the participant that
was chosen and is there, hears that one's tracks in order, and each visit is
served once.

**Background audio** (`voice/background_audio.py`). *State*: the mixer's sounds,
the publication of the track, a lock. *Hard*: state changes, reconnections and
`aclose` start and cancel tasks. *Correct if*: one thinking sound is played and
only while the agent thinks, on one track, which comes back.

### Models

**STT streams and adapters** (`stt/stt.py`, `stt/fallback_adapter.py`,
`stt/stream_adapter.py`, silero's `vad.py`, the plugins' `stt.py`). *State*: the
input channel, the connection, the retries; per provider whether it is available
and who recovers it; the VAD's buffer. *Hard*: each plugin has a loop of its own
that replaces connections for four reasons; audio goes to the provider in use and
to the recovering ones; the buffer of the VAD is cut and grown. *Correct if*: the
audio is heard by somebody, streams end with their input and not before, and a
speech is recognized whole.

**TTS streams and the fallback** (`tts/tts.py`, `tts/fallback_adapter.py`,
`tts/stream_adapter.py`, the plugins' `tts.py`). *State*: text taken from the
input, audio the emitter holds back, pooled connections. *Hard*: a provider fails
after some audio was passed on; a retry begins with the text that is left; a
connection goes back to the pool. *Correct if*: all is heard, once, in one voice
and not by the next stream.

**LLM streams and the fallback** (`llm/llm.py`, `llm/fallback_adapter.py`, the
plugins' `llm.py`). *Hard*: chunks that were passed on before a failure; tool
calls put together from pieces over attempts. *Correct if*: an answer is that of
one attempt, and whole.

**Realtime sessions** (openai's `realtime_model.py`, google's `realtime_api.py`,
`llm/remote_chat_context.py`, `llm/utils.py`). *State*: the queue of messages, the
futures of replies, the generation under way, the copy of the service's
conversation. *Hard*: responses to requests, to the user and to retries come over
a connection that is replaced; the copy is changed by a diff while the
conversation goes on. *Correct if*: a reply gets its own response or an error,
the copy is the conversation, connections are replaced and options reach them.

**Options** (`update_options` of all STT and TTS plugins). *State*: the options of
the plugin, of its streams and of what the service was told. *Hard*: each plugin
copies, shares or replaces them in a way of its own. *Correct if*: what was set
last is used, and a request made before is spoken as it was made.

**Connection pool** (`utils/connection_pool.py`). *State*: `_connections` with
their ages, `_available`, `_to_close`, `_prewarm_task`. *Operations*: `get`,
`put`, `remove`, `connection()`, `invalidate`, `prewarm`, `aclose`. Used by the
TTS and STT plugins, from any number of tasks. *Hard*: `get` suspends while it
closes connections and while it opens one; the pool changes meanwhile; callbacks
fail; tasks are cancelled. *Correct if*: a connection has one user, none that is
being closed is handed out, none is lost open.

### Processes

**Process pool and supervised processes** (`ipc/proc_pool.py`,
`ipc/supervised_proc.py`, `ipc/job_proc_executor.py`). *State*:
`_warmed_proc_queue`, `_executors`, `_spawn_tasks`, `_monitor_tasks`,
`_jobs_waiting_for_process`, the target of idle processes; per process the OS
process, `_initialize_fut`, the running job. *Operations*: the main loop,
`launch_job`, `set_target_idle_processes`, `aclose`, and the spawn and monitor
tasks. Driven by the worker. *Hard*: a process dies or fails to initialize at
any point; jobs compete for a process with each other and with the main loop;
`aclose` overlaps spawning. *Correct if*: what is in the queue can take a job,
every live process is listed, nothing is spawned twice for one need, jobs get a
process, a close leaves nothing and returns.

**Job process and job thread** (`ipc/supervised_proc.py`,
`ipc/job_proc_executor.py`, `ipc/proc_client.py`, `ipc/job_proc_lazy_main.py`,
`ipc/job_thread_executor.py`). *State*: the futures of the initialization and of
the shutdown, the job, the supervision, the process or thread. *Hard*: either side
may hang or die between two messages; a thread cannot be killed. *Correct if*: a
close ends it, an orphan exits, a success has run.

**Inference** (`ipc/inference_proc_executor.py`, `ipc/inference_proc_lazy_main.py`,
and the two sides of a job's process). *State*: the tables of active requests of
both sides. *Hard*: a request is registered after the await that sends it, and
callers are cancelled. *Correct if*: each request is answered.

**Worker** (`worker.py`, `utils/aio/channel.py`). *State*: the connection, the bounded
`_msg_chan`, `_pending_assignments`, `_draining`, the tasks of requests and of
status updates. *Operations*: `_connection_task`, `_run_ws`, `_answer_availability`,
`_handle_assignment`, `_handle_termination`, `_update_job_status`,
`_update_worker_status`, `drain`, `aclose`. *Hard*: the connection is lost with what
is being sent; the channel outlives it and may be full; a drain iterates a list
that changes. *Correct if*: requests are answered, statuses do not go back, a drain
is seen, a close ends.

### Not modelled

- Avatars, the console front end and the mixer of background audio: I/O. Tokenizers,
  speaking rate, audio, image and hardware utilities: text and signal processing
  with no concurrency of their own.
- Command line, metrics, logging, tracing, plugin registration: formatting and glue.
- `voice/agent.py` without its state: an `Agent` delegates to its activity, and the
  default nodes are loops over a stream; `InlineTask` only shields a future.
- The conversion of tools and chats to each provider's format: no state.
- What the single components leave out is in their notes in `PROJECT.json`: of
  `AgentActivity`, the parts of `start` and `aclose` that only register handlers; of
  the room's I/O, the video input; of `RealtimeSession`, metrics; of the job context,
  `connect` and shutdown callbacks (the latter are in `JobProcess`).
- The providers' services, rooms, participants and the job server are external: a
  model gives them every behaviour that its comment names, and no other.

## 2. The modules

| Module | Role |
|---|---|
| `SpeechScheduling` | one `AgentActivity` with an LLM: main task, speech tasks, tools, user turns, hooks, drain |
| `SpeechFloor` | what it promises: a floor granted first come, first served, to one speech at a time |
| `SpeechSchedulingProofs` | its safety theorems; the proof that it implements `SpeechFloor` |
| `RealtimeReply`, `RealtimeReplyProofs` | the speeches of an activity with a realtime model, and the theorem about them |
| `AgentSession` | the session: start, hand-over, drain and close over three kinds of locks |
| `TurnDetection` | the end of the user's turn, from VAD, STT and the application |
| `SpeechOutput` | the audio and the text of a speech, through the synchronizer to the room |
| `TranscriptOutput`, `AudioInput`, `RoomIO`, `JobContext` | the room: transcripts, microphones, the linked participant, entrypoints for participants |
| `BackgroundAudio` | the player of background sounds |
| `SttStream`, `SttFallback`, `SttOptions` | recognition: a stream of each plugin, the fallback adapter, the options |
| `VadStream` | silero's detection and the adapter that recognizes what it detects |
| `TtsStream`, `TtsFallback`, `TtsOptions` | synthesis: a stream of each plugin, the fallback adapter, the options |
| `LlmStream` | the LLM fallback adapter over the streams of four plugins |
| `RealtimeSession`, `ChatSync` | the session of the openai plugin, and its copy of the conversation |
| `GeminiSession` | the session of the google plugin |
| `ConnectionPool`, `ConnectionPoolProofs` | the pool of connections and its theorems |
| `ProcPool` | the pool of processes |
| `Worker`, `JobProcess`, `ThreadRunner`, `Inference` | the worker, a process or a thread that runs a job, inference requests |
| `MCSpeechScheduling`, `MCConnectionPool` | values of constants and symmetry for TLC |
| `MCReplies`, `MCVoice`, `MCServices`, `MCMedia`, `MCRoom` | modules that run several components in one instance |
| `MCRoomProofs` | the theorems about `ProcPool`, `RoomIO`, `ThreadRunner`, `BackgroundAudio`, `GeminiSession` and `TtsStream` |
| `MCMediaProofs` | the theorems about `AudioInput`, `JobContext`, `VadStream`, `SttOptions`, `TtsOptions` and `TranscriptOutput` |
| `MCVoiceProofs` | the theorems about `AgentSession`, `TurnDetection`, `SttStream`, `SttFallback` and `SpeechOutput` |
| `ChatSyncProofs` | the theorem about `ChatSync` |
| `MCServicesProofs` | the theorems about `TtsFallback`, `LlmStream`, `JobProcess`, `RealtimeSession` and `Worker`, and the types of these, of `Inference` and of `ChatSync` |

### SpeechScheduling

A speech is a number, in the order of creation. The heap is ordered by
`(-priority, monotonic_ns)` and every caller passes the same priority, so the
smallest number in `queue` is its top; two handles created within one clock tick
are not distinguished. `task[h]` says at which await the coroutine of `h` stands
(`_tts_task` for `say`, `_pipeline_reply_task` for replies). Futures are sets
(`authorized`, `interrupted`, `playoutDone`).

| Code | Action |
|---|---|
| `say`, `generate_reply` | `Say`, `GenerateReply` |
| `_tts_task`, `_pipeline_reply_task`, await by await | `StartTask`, `ReturnUnplayed`, `StartPlaying`, `FailToPlay`, `FirstFrame`, `FinishPlaying`, `StopPlaying`, `FinishStopping`, `RespondToTool`, `EndReply`, `EndInterruptedReply` |
| done callbacks, `_on_pipeline_reply_done` | `RunDoneCallbacks` |
| `_execute_tools_task` | `StartTool`, `ToolAwait`, `FinishTool` |
| `_main_task` | `PlayNext`, `RunDry` |
| `interrupt`, `on_vad_inference_done`, `SpeechHandle.interrupt` | `InterruptAll`, `InterruptByVad`, `InterruptHandle` |
| `on_end_of_turn`, `_user_turn_completed_task` | `EndOfTurn`, `StartTurn`, `IgnoreTurn`, `ReplyToTurn` |
| `on_enter`, `on_exit`, `drain` | `EndHook`, `Drain` |

Awaiting a future that is already done does not suspend, so one `PlayNext` also
passes over the finished speeches before the one it grants. The generation of
text and audio is abstracted to what it makes possible: a speech may produce a
first frame or not, call a tool or not, record a message or not. One tool per
reply stands for all the tools of a step, which are awaited together. The chat
context is not modelled, except for the one message per handle. Not modelled
here: the realtime model's replies, which are in `RealtimeReply`, and an activity
that is closed without a drain.

### SpeechFloor, and how SpeechScheduling implements it

What a caller of `say()` relies on can be said without tasks and futures: one
asks for the floor, it is granted in the order of the requests when it is free,
used by at most one speech, and given up when the speech is resolved. The
refinement reads the state as:

    waiting  <- queue \ playoutDone        granted  <- authorized \ playoutDone
    speaking <- the speeches on the output resolved <- playoutDone

Popping a speech that is already done, authorizing it, waking the main task,
tools and state changes are stutters. `RunDoneCallbacks` of a speech that was
interrupted while it still waited in the queue is `Resolve`, without a grant.

### RealtimeReply

With a realtime model, `_realtime_reply_task` asks for a response when the speech is
authorized and `_realtime_generation_task` plays it; a response to the user is queued
when the service has begun it (`TurnCreated`). The service makes one response at a
time (`active`). The tool choice of the session is that of the reply from `AskReply` to
the `finally`. What the code does, and the properties name: a reply that was
interrupted in the queue asks for its response all the same; the session's `interrupt`
for a tool reply may cut another's response; the `finally` of one reply restores the
choice it found, whatever was set since, and a reply that is asked for while the tools
of another run finds that one's choice; `max_tool_steps` is not looked at; `interrupt()`
raises half way at a speech that disallows it. A message that comes but is never heard
is left out.

### AgentSession

`at[p]` is where a task stands: the task of the start or hand-over to agent `n`, a
close, or `session.drain()`; `sessionLock`, `updateLock` and `lockOf[a]` are the queues
of the locks (`_lock`, `_activity_lock`, the lock of an activity), the head holding.
An activity goes through `life[a]`; what it says and the tools it runs are
`speech[a]`. `"cut"` is an activity that was closed without having been drained. The
history variables `overlap` and `early` name the two cases in which the code gives
no guarantee: a close and a hand-over at once, and `update_agent` during a start.

### TurnDetection

A segment of speech is a number with the kind of transcript that holds it. `eou`
is where `_end_of_turn_task` stands. `EndTurn` and `RefuseTurn` are the two results
of `on_end_of_turn`. A segment that is lost on purpose (ignored after a manual
commit, cleared, of the agent before a hand-over) is in `dropped`. `awayTimer` is the
timer of the user's absence.

### SpeechOutput, TranscriptOutput

`inner` is the participant's output and `outer` the synchronizer's, each with the
counters of `io.AudioOutput`; `impl` is the synchronizer's segment, `rotations` the
tasks that replace it. `af` and `tf` are the tasks that forward audio and text.
The text of a speech is its number, so that mixing two is visible. `CancelTasks`
cancels what the tasks await: the subscription's future and the rotation.

In `TranscriptOutput` a text is the set of its parts; `delta` and `legacy` say which of
the two outputs is meant and how it is fed. `set_participant` in the middle of a
segment splits it (`changed`), the legacy output keeps the track of the first
participant (`switched`), and a cancelled capture cancels the flush it awaits (`lost`).

### AudioInput, RoomIO, JobContext, BackgroundAudio

`AudioInput` keeps all the readers, of which each cancels the one before and awaits it;
`data` is what the listener got. A track that comes during `aclose` is read for ever
(`late`). In `RoomIO`, `orphan` says that `_init_task` awaits a future that
`set_participant` has replaced, and `loose` that no participant was chosen when one
could be. In `JobContext` a visit is one stay in the room: the task of an entrypoint
that is added after `connect` is not run for those already there, and a participant
that comes again overwrites the key of its earlier task, whose callback then raises
`KeyError`. In `BackgroundAudio`, `raced` says that a sound or a reconnection came while
the player was being started or closed: the lock does not cover the state handler.

### SttStream, SttFallback, VadStream

`Profile` of `SttStream` has one record per plugin: what a failure to connect, a close by
the service and a change of options do to its loop, when `_run` returns, and whether the
service is told of the end. It shows these differences: deepgram and openai await
the group of tasks they have just cancelled, so a change of options or an expired
session ends the stream where a comment says "restart session if needed"; openai sends
nothing at the end of the input; azure clears neither of its events; aws never returns;
gladia and google end without an error when the service closes. `SttFallback` has
the availability and the recovery of each provider, which outlive a stream. In
`VadStream` durations are numbers of windows; `cut` says that `max_buffered_speech` was
made smaller than what the buffer holds, which kills the task.

### TtsStream, TtsFallback

A token of text makes `PerToken` frames. `base` is the text that failed attempts took:
the next one begins after it. `cut` says that the connection closed after the end of
the text, which elevenlabs takes for the end of the audio. Resemble waits for ever on
text without words; a cartesia stream that is retried after its end always fails; aws
and rime raise a `RuntimeError`, which is not retried. In
`TtsFallback`, `eaten`, `base` and `voiced` say how far the provider's attempt is; `held`
is the frame the emitter keeps back; `cut` and `leaked` name the two cases in which
text is not heard or heard twice.

### LlmStream

A chunk is a part of an answer with the attempt it is of. `Spoilers` names the
three cases of known repetition: anthropic awaits one request in all its attempts;
google retries a 429, and anthropic a 5xx, after chunks were passed on; aws keeps the id
of a tool call over its attempts.

### RealtimeSession, ChatSync, GeminiSession

`RealtimeSession` has the table of replies (`keyed`), the generations with the number of
their readers, and `_main_task`'s connection. Spoilers: a response of several items is
emitted once for each; a recovery from text that is cancelled or times out loses the
reply. `AwaitsForEver` is an expired connection that awaits a generation that will not
end. `ChatSync` is the linked list with its pointers, the diff as a longest common
subsequence, and the server's queue of operations and of events.

`GeminiSession` numbers the options and the messages. The plugin never updates its copy
of the chat, so all items are sent each time, and always with `turn_complete` (`or
True`), for which the service takes a turn; `RealtimeModel.update_options` changes the
object that the sessions share, so none of them restarts; a restart drops what is queued.

### SttOptions, TtsOptions

An option's value is the number of the call that gave it. For each plugin: what
`update_options` stores, what it passes on to its streams, what a stream copies, and
what the service is asked with. A difference that a plugin has is in its operators,
and the property excepts it by name: deepgram's streams do not get `tags`, a change of
the sample rate leaves the resampler, openai's streams restart for the language only, aws
ignores the language of a stream, `recognize` of openai, fal, clova and elevenlabs keeps
its language, google fixes `detect_language` when a stream is made; of the TTS, deepgram's
pooled connections keep the model, cartesia's streams are not listed, google and hume
replace an object of options as a whole, lmnt and neuphonic change their rate but not
the one that listeners are told.

### ConnectionPool

`at[t]` is the await at which a task stands; `snapshot[t]` is what is left of the
list that `_drain_to_close` iterates. A drain of an empty set does not suspend,
hence `GetNow` beside `GetDraining`. `set.pop` takes any element, so `Reuse`
removes any subset of the expired connections before it takes a fresh one.
Time is the action `Expire`. `DrainFails` and `ConnectFails` stand for an
exception, a timeout or a cancellation at an await. The owner is the task that
calls `aclose`. The exit of `async with` is `Put`, or `RemoveAndLeave` after an
exception.

### ProcPool

A process is a number, in the order of the spawn tasks; `spawn[p]` is the await
at which its spawn task stands. `alive` is the OS's view, `initFut`, `asked` and
`runningJob` the executor's. `Crash` stands for a crash and for a kill by the
memory monitor or for an unanswered ping. `Joined(p)` is what `join()` and
`aclose()` of an executor wait for: the end of `_supervise_task`. Only a turn of
the main loop that spawns something is an action. `asyncio.Queue.get` does not
keep an item for the task it wakes: a new caller may take it first
(`LaunchNow` while another job waits), and the one that was woken waits again.
Jobs waiting are interchangeable, so their order is not kept.

### Worker, JobProcess, ThreadRunner, Inference

`Worker!blocked` is what waits in `Chan.send`; what follows the send in the code
(registering the assignment, going on with the drain) is in `Put`. The server
answers an accepted request or not, and the pool is a list of processes.
`JobProcess` has one sequence of messages per direction; `os` is the process as
the system sees it, `frozen` a loop blocked by user code. `ThreadRunner` is the same
pair with a thread, which can only be asked: its executor ignores the error of an
initialization, reports a job that was launched on a thread that died as a success, and
a request for tracing before there is a job ends the thread's reader. `Inference` has the
tables of both executors and the pipes between them.

### The modules that run several components

The components of a sum module share no state. A behaviour is one of the component
that its initial state names, so the states add up and do not multiply; each
fairness condition is that of its module, for the component that runs. A property such
as `UserIsHeard` is the conjunction of the component's own properties, whose comments
say what each means and what it excepts.

| Module | Run | Components |
|---|---|---|
| `MCReplies` | `speech_liveness` | `SpeechScheduling`, `RealtimeReply` |
| `MCVoice` | `voice` | `TurnDetection`, `AgentSession`, `SpeechOutput`, `SttStream`, `SttFallback` |
| `MCServices` | `services` | `Worker`, `JobProcess`, `Inference`, `TtsFallback`, `LlmStream`, `RealtimeSession`, `ChatSync` |
| `MCMedia` | `connection_pool` | `ConnectionPool`, `AudioInput`, `TranscriptOutput`, `JobContext`, `VadStream`, `SttOptions`, `TtsOptions` |
| `MCRoom` | `proc_pool` | `ProcPool`, `TtsStream`, `GeminiSession`, `RoomIO`, `ThreadRunner`, `BackgroundAudio` |

## 3. The runs

A run of a sum module has the name of its first component.

| Run | Instance | States | Shows |
|---|---|---|---|
| `speech_scheduling` | 3 speeches, 2 turns, `max_tool_steps` 1; an uninterruptible `say`, an interruptible reply | 1.9 million | output exclusive and in order, message before done, shown state, drain complete |
| `speech_liveness` | 2 speeches of either kind and interruptibility, 1 turn; realtime: 2 speeches, 1 change of the tool choice | 316 thousand | `SpeechesEnd`: every scheduled handle resolves, drain returns unless a reply was orphaned; `SpeechFloor` is implemented; `RepliesInStep` |
| `speech_drain_hang` | 2 speeches of either kind, 1 turn | violation | `drain()` can wait for ever |
| `speech_tool_steps` | 3 speeches, 1 turn | violation | `max_tool_steps` is exceeded by one |
| `connection_pool` | 3 users and an owner, 3 connections; 2 participants, 2 tracks, 3 visits; 10 windows of audio; 11 STT and 15 TTS plugins, 2 calls of `update_options` | 833 thousand | exclusive use, nothing closing handed out, removal queues; `ParticipantsAreServed`, `TextIsWhole`, `SpeechIsDetected`, `OptionsAreFollowed`, `SpokenAsAsked` |
| `connection_pool_leak` | 3 users and an owner, 3 connections | violation | a queued connection is forgotten |
| `proc_pool` | 2 jobs, 1 idle process, 2 initializations at once, 1 failure; 10 kinds of synthesis of 3 tokens, 1 retry, 2 faults; 2 replies, 1 change, 1 fault; 3 participants; 1 trace; 3 sounds, 2 reconnections | 161 thousand | queue ready, live listed, no double spawn, close complete; `StreamsInOrder`, `GeminiInStep`, `RoomInStep`, `PartsEnd` |
| `proc_pool_idle` | 1 job, 1 idle process, 1 failure | violation | a dead idle process is never replaced |
| `proc_pool_dev` | 2 jobs, no idle process, no failure | violation | a job waits for ever |
| `voice` | 2 segments, 2 starts of speech, 1 call; 3 agents, 2 kinds of close; 2 speeches of 2 frames; 8 STT plugins, 1 retry, 3 faults; 2 providers, 2 streams | 196 thousand | `UserIsHeard`, `AgentsTakeTurns`, `PlayedAsRecorded`, `VoiceGoesOn` |
| `services` | 1 job, channel of 1, 1 lost connection; 1 trace, 1 freeze; 2 clients; 2 providers, 3 tokens, 1 retry; 4 LLM plugins; 1 reply, 2 generations, 1 recovery; 3 items | 204 thousand | `ServerIsTold`, `SuccessHasRun`, `GeneratedOnce`, `RealtimeInStep`, `ChatIsRight`, `ServicesAnswer` |
| `playout_hang` | 2 speeches of 2 frames | violation | a wait for the playout that never ends |

**Bounds.** `MaxSpeech`, `MaxTurns` and `ApiCalls` bound what an execution does,
not what a state may hold. Three speeches are the least that show one playing,
one waiting and one being scheduled (an answer to a tool behind a speech that
was queued before it); two turns are the least that overlap, where the second
outdates the reply of the first. `Spare` sets a handle aside for each running
tool and turn, so that the cap never stops a task half way, which would turn the
bound into a false deadlock or a false liveness result. Two speeches suffice for
the liveness run: one waits for the other through the queue, a tool or a drain.
With a realtime model two are the least that overlap in the tool choice, and a choice
is `"not given"` or `"none"`, which is what a call inside a tool gives.
Three users, of which two hold connections while the third drains, and three
connections let one be reused, one be removed and one be opened in the same
execution. `MaxProc` caps the spawn tasks; with two jobs and one failure the pool
never needs more than four, and larger caps add no state. `MaxFailures = 1` puts
one crash or failed initialization at every point.

In `voice`, two segments and two starts of speech are the least with a turn that ends
between them; three agents let a hand-over wait for one that drains, or follow a
restart; two speeches let the tasks of one meet the rotation started by the other; three
faults use up one retry after a transcript has reset the count. In `services`, a
channel of one message is full as soon as there are two senders; one lost connection
loses a message at every point of its way; two providers and one retry are the
least with a failure after a failure; of three items an update can drop, keep and move
one. In `connection_pool`, three visits of two participants let one come again while its
task runs; ten windows hold two speeches with a silence that is long enough between
them; two calls are a change and its replacement. In `proc_pool`, three tokens let an
attempt fail with text taken, audio heard and text to come; two reconnections let one
come while the other republishes.

**Deadlock** is not checked: every one of these systems may stop for good (the
activity exited, the pool was closed, the bounds on calls were used up). What
must not stop is stated as a liveness property.

**Fairness.** `SpeechScheduling!Fairness`: the loop runs each ready task; the audio
sink ends a playout and reports it, cut or not; tools, hooks and
`on_user_turn_completed`, which are the user's code, return. Nothing is assumed
of what the environment may leave out: a first frame, a call to a tool, an
interruption, a turn, a drain. A tool that waits for a handle cannot return
before that handle resolves, so fairness on it is not assumed away.
`RealtimeReply!Fairness` adds that the service ends a response.
`ProcPool!Fairness`: the main loop turns every 100 ms; a start ends, and an
initialization within `initialize_timeout`; a process asked to stop exits or is
killed after `close_timeout`; a job that waits on a non-empty queue is woken. A
job may run for ever, and nothing makes a process crash. Weak fairness is enough:
no action here is disabled again by others for ever, except for a waiting job
overtaken by others, which is the subject of `proc_pool_dev`.

In the other modules: tasks of the loop go on, timers fire, locks are granted in
order, runners return, a connection is made or refused, a service answers what it was
sent, a killed process ends. Not assumed: that the user speaks, that the server assigns
or a connection holds, that a job, a shutdown callback or a blocked loop ever ends, that
a recovery succeeds. In `AgentSession` and `Worker`, `CurrentSpeechEnded`, and `Unblock`
of a sender that is not the worker itself, need strong fairness, because others may come
first any number of times. The components of `connection_pool` have safety properties only.

## 4. What the violations show

1. `DrainEnds`: `_generate_reply` starts the task of a reply before it schedules
   the handle. If `drain()` came while `on_user_turn_completed` ran, scheduling
   raises, and the task waits for an authorization that nobody gives;
   `_speech_tasks` never empties and `drain()` never returns.
   `DrainEndsWithoutOrphan`, a part of `SpeechesEnd`, shows that this is the only way.
2. `ToolCallsBounded`: the tools of a step run before the step index is compared
   with `max_tool_steps`, so one more step calls tools than documented; the type
   invariant, which bounds the index itself, holds.
3. `NothingLeaked`: `_drain_to_close` iterates a copy of `_to_close` and then
   clears the set, with what another task added while it awaited.
   `RemovedIsQueued` shows that nothing is lost before that.
4. `LiveIdleIsKept`: nothing takes a process that died out of the warm queue.
   `NeedsAreMet`, a part of `PartsEnd`, still holds, because a job sent to a dead
   process is lost, not waiting: the model records it as `"lost"`.
5. `EveryJobIsLaunched`: `launch_job` decides once whether to spawn. Without idle
   processes a job can take the process that another one spawned.
6. `WaitEnds`: a speech interrupted while its first frame waits for the
   subscription of the track is counted by the synchronizer's output only, and
   `wait_for_playout` never returns. `WaitEndsIfCounted`, a part of `VoiceGoesOn`,
   shows that this is the only way.

`PoolCloses` excuses two states that the code does not handle, each named: a process
that was being started when `aclose()` listed the executors, and so is asked by
nobody to stop, and one that died before `InitializeRequest` was sent, whose
`_initialize_fut` stays pending. The exceptions of the other modules (`raced`, `spoilt`,
`cut`, `late`, `orphan`, `loose`, a plugin's name) are of the same kind: the least
condition under which the property holds, set where the code goes wrong, so that the
property says what is kept in every other case.

## 5. What is proved

All theorems hold for every value of the constants that satisfies the assumption of
their module: `SpeechAssumption`, `PoolAssumption`, `ProcPoolAssumption` (natural
numbers, model values that differ, at least one concurrent initialization),
`RepliesAssumption` (the choices given are tool choices), `PartsAssumption`,
`SynthesisAssumption`, `MediaAssumption` (bounds are numbers, "no participant" is none, the participants are
finitely many, the plugins are those of the tables `Profile`), `VoiceAssumption` (bounds
are numbers, at least one provider and one stream of the adapter, the tasks of agents, of
closes and of a drain are different ones, the plugins are those modelled), and
`ServicesAssumption` (bounds are numbers; there is a provider, as both adapters demand with "at least one ...
instance must be provided.", `tts/fallback_adapter.py:72` and `llm/fallback_adapter.py:45`; the
LLM plugins are the four modelled; the items of chats are finitely many and `None` is none). No theorem has another hypothesis. The components of a sum module share no state, so that a theorem about
`MediaSpec`, `PartSpec` or `RepliesSpec` needs the invariant of the components it names
only: each step is one of the component's `Next` or leaves its variables alone.

**Speech scheduling.** `OneSpeechOnFloor` is not inductive: it holds because a
speech on the output was granted it and is not done, and because the main task
grants only when its current one is. The invariant `FloorInv` says so:
`TypeOK`; `HandlesExist` (whatever is queued, granted or done was created);
`FloorGranted` (a task that uses the output was granted it); `LiveNotDone` (a
task that has not left the output yet has an unfinished handle);
`GrantedIsCurrent` (what is granted and not done is the current speech, and the
main task awaits it); `QueueBehind` (what is queued is younger than all that was
granted). From it follow `OneSpeechOnFloor`, `PlayedInOrder`,
`MessageBeforeDone` and `DrainLosesNothing`; `NeverListeningWhileSpeaking` and
`OnlyToolResponsesBypassDraining` need one more step each. One lemma per group of
actions shows that the invariant is kept.

`QuietIsListening` needs to know who will still change the state shown. `TaskFacts` says
that every handle has a task from its creation on, and that a task which never had the
floor waits, or was interrupted; `ShownFor` that while the state is not `"listening"`,
some task is left or a speech was interrupted without a message. The done callback of
the last task is what shows `"listening"`, and the other callbacks leave a state behind
only while the floor is taken.

**Realtime replies.** `RepliesKeepStep` has the argument of the floor (`RtFloor`: the
floor belongs to the current speech until its playout is done) with two more.
`ActiveIsOpen`: the response under way is of a task that has not seen it end, and
`ActiveIsReached` shows that an interruption then reaches that speech, which is why it
cuts nobody else's. `RtChoices`: a reply that changed the session's tool choice kept the
activity's to restore, and while the session has another choice such a reply is left.

**The floor.** `FloorIsImplemented`: `Spec => ImplementsFloor`. The initial state
maps to the initial state; one lemma per kind of visible step (`StepAsks`,
`StepGrants`, `StepFallsSilent`, `StepResolves`) and one for the stutters
(`StepUnseen`) use `FloorInv`.

**Connection pool.** `PoolInv` is `TypeOK`, `ExclusiveUse` and `Separate`: what is
tracked is neither queued, nor closed, nor in the copy of a draining task.
`Separate` is what makes `NeverHandsOutClosing` true, since a reused connection
is a tracked one.

**Process pool.** `PoolInv` is `TypeOK`, `WarmIsReady`, `LiveIsListed`, `Stages`
(what is known of a process at each await of its spawn task) and `Closing` (what
each stage of `aclose()` has awaited). From it follows `ClosedLeavesNothing`.
`NoOverspawn` is inductive once the jobs that wait are finitely many; its proof counts
spawn tasks, warm processes and waiting jobs over each step, with one lemma for a spawn
(`SpawnNewCounts`) and one for each set.

**The room.** `RoomInv`: a participant that `_init_task` has found is still the result
of the future, unless the application chose another one. `ThreadInv`: what a thread that
ended has left behind, by how it ended. `PlayerInv`: only the sound that
`_thinking_handle` names may be on, and the lock is held by whoever publishes the track
or closes the player. `GeminiInv` orders the numbers of the messages that were sent, are
held by the sender and wait in the channel, over the replacements of the channel
(`MessagesInv`), and ties the turn of the service to the reply that waits (`TurnsInv`).

**Synthesis.** `SynthesisInv` is about `Audio`, the sequence of what was heard, is in the
emitter and is still to come of the attempt. It goes up and stays below what was sent
(`Rising`), and ends with the frames of what this attempt sent (`SaidInv`); of sentences,
each one that is over was heard. `AttemptInv` and `SentInv` say what an attempt that
returned has sent: the whole text. A frame that moves from one part to the next leaves
`Audio` alone (`FrameMoves`), a token that is sent appends its frames (`TokenStep`), and a
failure cuts `Audio` back to what was heard (`SaidDropped`).

**The media.** One invariant per component, each checked by TLC before it was proved.

- `InputInv`, `ContextInv`: only the last reader's stream is open, a task that has begun
  is alone because those before it have ended, and the frames are of tasks that have
  begun; the entrypoints' tasks and waits are those of the visits.
- `VadInv`: `SpeechInv` (the padding ends where the current speech may begin),
  `BufferInv` (the buffer holds the windows from there up to now, until it is full),
  `EventsInv` (the events read are continued by those that were not). The lemmas are
  about what appending to the buffer, cutting it and resetting it leave in it.
- `SttInv`, `TtsInv`: the options of a stream or request are those that were last given,
  for what its plugin keeps of them; `PoolInv` adds that a connection is used by one
  request. `PluginsPass` and `PluginsSpeak` are the facts about the tables `Profile`
  that this rests on, proved from the table, plugin by plugin.
- `TextInv`: `Calls` (one flush runs at a time, and a capture waits for it), `Segments`
  (what is not final is of the segment the caller is in), `Ends` (a segment that was shown
  was ended, is captured, or a flush will end it with its whole text). Each holds under
  the exception that the property itself names. `SegmentBegun`, `SegmentFlushed`,
  `SegmentEnding` and `SegmentEnded` say what the four kinds of step do to a segment, and
  each action is one of them.

**The voice agent.** One invariant per component, each checked by TLC before it was proved.

- `SessionInv` (`AgentsKeepTurns`, for `AgentSession`): `LocksHeld`, who is past a lock
  holds it, and one that starts or closes finds the session not started or started;
  `TasksKnown`, the stages that each kind of task goes through. These hold always. The
  rest holds until a close and a hand-over are under way together (`overlap`):
  `OneActivity`, what runs is the current activity, and what was created is being started
  by its own task; `HandOverStages` and `CloseStages`, the activity that a task has in hand
  at each await, which is where the drained activity could have been replaced meanwhile;
  `DrainWaits`, while something runs in an activity that drains, a task that holds its lock
  waits for it. A lock is used through `HeldBy`, `Joined` and `Freed`, and `LocksQueue`
  says the four things of a queue that all this needs.
- `TurnInv` (for `TurnDetection`): `SaidInOrder`, the text that was told followed by the
  text of the turn rises, its last piece is before the segment under way, and each earlier
  segment is in it or was dropped; `InterimIsNext`, the interim text is of the segment under
  way, and none is left by a replaced stream or a commit; `WaitsInSilence`, a task that may end the turn waits only
  while the VAD hears nothing, unless the application committed. `EndOfBoth`, `SayMore`
  and `TurnIsLeft` say what appending to a rising text, moving it to what was told and
  dropping it leave.
- `HearInv` (for `SttStream`): `RetriesCount`, the failures since the last transcript are
  the retries taken; `LoopKnows`, what a loop that is woken or whose sender has ended
  has seen. `PluginsHear` holds the facts about the table of plugins, proved plugin by
  plugin. `SomeoneForwards` of `SttFallback` is inductive.
- `OutputInv` (`SpeechesPlayAlone`, for `SpeechOutput`): the two outputs have counted the
  audio of a speech not at all, once or both (`Silent`, `CountedOnce`, `Playing`), so that
  no speech begins with one of another pending; `ReplyStages`, a reply that goes on has
  waited for what was counted; and unless a rotation was cancelled or audio ended before
  its text, `TasksInStep`, `SegmentIsOwn`, a segment with the text of an earlier speech, or
  whose audio has ended, is to be replaced and no audio is counted before, and
  `TextIsPlayed`, the text of a speech that was not interrupted is in the segment that its
  audio plays. Neither is inductive alone: the text and the audio pass the barrier of the
  rotation in either order.
- `VoiceTypeCorrect` needs bounds that are not plain: a stream waits for a retry only while
  one is left; a set of providers that is not empty has a first one, from the
  well-foundedness of the order; the starts that ended are at least as many as the times
  `_started` was set (`EndedGrows`); and each speech counts one segment at most, although a
  frame that waits may be cancelled in between (`OutputBounds`).

**The services.** One invariant per component again.

- `AudioInv` (`FallbacksKeepWhole`, for `TtsFallback`): `InOrder`, the frames sent, held
  by the adapter's emitter, not yet read and held by the provider's are in the order of
  the text and of one provider; `NoneMissing`, together they are as many as the provider
  voiced, unless an attempt failed with text it had taken; `HeldBack`, what is left of them
  in each phase. The provider tried first exists because a set of numbers that is not empty
  has a least one (`LeastIsFirst`, from the well-foundedness of the order).
- `AnswerInv` (for `LlmStream`): `Passed`, the reader has what the model said in this
  attempt, up to a tool call that is still in pieces; `NothingPassed`, an attempt that is
  given up for another has passed nothing; `Keeps`, which plugin may have pieces of a call
  left over from an attempt; `Stages`, a spent response is known and a retry is one that is
  left. `EventKeeps` goes through the events of each plugin's stream.
- `ProcessInv` (`SuccessKeepsRun`, for `JobProcess`): `OnTheWay`, a message that is in the
  pipe says something of who sent it; `Ended`, the reasons for which a process exits with
  code 0 while its worker lives.
- `ReplyInv` (`RepliesGetTheirOwn`, for `RealtimeSession`): `Requested`, an entry of the
  table under the id of a response is of the reply that asked for it, hence the only one;
  `ReadOnce`, a response without an item has no reader; `Waits`, no reply is left to a
  recovery that is over.
- `StatusInv` (`EndStaysTold`, for `Worker`): `EndIsLast`, behind the message that tells the
  end of a job, whether it was heard, is being sent or waits in the channel, there is none
  that tells anything else of it. The task that tells the status reads it when it
  runs, which is why this holds although the tasks may run in either order.
- `ServicesTypeCorrect` needs in addition what has no part in those: `ServerTypes`, where the
  processes of the pool are listed once each (so that the list is not longer than there are
  processes, which bounds what a drain visits and waits for), the channel is never over its
  capacity, and a message that is put is one the server knows; `ProcessRest`, `InferTypes`
  and `ReplyRest` for the other three.

**The chat.** `ChatInv` (`ChatStaysRight`, for `ChatSync`) says what the messages on their way
are good for. `Links(c, ms, d)` holds when the messages `ms` lead from the chat `c` to the
chat `d`, each making one chat of another. `ChatFlows`: the pointers of the copy are those of
a chat (`Copied`) from which the events on their way lead to the server's conversation.
`ChatLeads`: as long as no connection was replaced and no update timed out, the operations on
their way lead from the conversation to a chat that has what was wanted, in order, and nothing
else of what was there (`Goal`). `ChatOwns`: each operation and event of an update is awaited,
and there is one of each, so that when nothing is awaited nothing of it is on its way.
`ChatWaits`: nothing is awaited without an update. An item that is said meanwhile comes last
in every chat on the way (`LinksSaid`), which is why it disturbs neither. The lemmas below
are of three kinds.

- Recursion. The recursive functions of the module are `CHOOSE`n, and exist only if there is
  a function that satisfies them; `RecursionExists` and `GridExists` build it for a
  recursion over numbers and over a table. `Reaches` and `GridReaches` are the induction,
  for a set instead of a predicate. `OnlySelects`, `WalkExists`, `TableExists` and
  `BackExists` then say what `Only`, `ToChatCtx`, `Table` and `Lcs` compute.
- The list. `CtxIs`: `to_chat_ctx` gives the chat whose pointers the copy has.
  `InsertKeepsList` and `DeleteKeepsList`: `insert` and `delete` leave the pointers of the
  chat that the message makes, at the head, at the tail and in between.
- The diff. `LcsStays` and `TableBounds`: what stays is common to both chats, in order, and
  nothing common is longer, so that the diff is minimal. `DiffApplies`: its deletes and then
  its creates, in the order it sends them, can all be applied to any chat that has the old
  one in order, and make it what was wanted.

Some definitions were rewritten so that they could be reasoned about, without a change of
behaviour: `CancelCapture` of `TranscriptOutput` removes the flush that it awaits, `ProcEnds`
of `Worker` the process that ended and `ServerApplies` of `ChatSync` the item that is deleted
by its index; the recursive functions of `ChatSync` take one argument, a number or a pair, and
what a list comprehension of the code leaves of a chat is the recursive function `Only`; `ListenTo` of `AudioInput` names the readers it creates (`ReadAll`); the locks of
`AgentSession` are used through three operators; and the alternatives of `Event` of
`LlmStream` and `AfterDrain` of `AgentSession` exclude each other: where two of a CASE hold,
TLA+ does not say which is taken.

**Only model-checked.** The liveness properties, which the runs check as `SpeechesEnd`,
`PartsEnd`, `VoiceGoesOn` and `ServicesAnswer`, since liveness under fairness and ENABLED
are out of the prover's reach; every other property of a passing run is stated by a theorem.
The violations, which are counterexamples and need no proof.

## 6. Plan

Done: all modules of section 2, with the proofs of section 5. Left, in this order:

1. The abstract specification of a channel and of an audio output (segments that
   start and finish one to one), implemented by `Chan` and by `SpeechOutput`, whose
   `Silent`, `CountedOnce` and `Playing` are the states of that specification.
2. The video input and the queue of an avatar, which have the shape of
   `AudioInput` and `SpeechOutput`; the tokenizers' streams.
