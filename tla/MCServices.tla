------------------------------ MODULE MCServices ----------------------------
(***************************************************************************)
(* The instances of Worker, JobProcess, Inference, TtsFallback, LlmStream, *)
(* RealtimeSession and ChatSync that TLC checks in one run.  The seven     *)
(* share no state: a behaviour is one of the component that its initial    *)
(* state names, and the others stand still.                                *)
(***************************************************************************)
EXTENDS Naturals, Sequences, FiniteSets

CONSTANTS
    Jobs, NoJob, Capacity, MaxDrops, MaxProcs,        \* of Worker
    MaxTraces, MaxFreezes,                            \* of JobProcess
    Clients, PerJob,                                  \* of Inference
    NumProviders, MaxRetry,                           \* of the adapters, and Worker
    MaxTokens,                                        \* of TtsFallback
    LlmPlugins, MaxOuter, MaxParts,                   \* of LlmStream
    MaxReplies, MaxGens, MaxRecovery,                 \* of RealtimeSession
    MaxFaults, MaxExpiries,
    Items, Nil, Calls, MaxLen, MaxUpdates,            \* of ChatSync
    MaxSaid, MaxReconnects

VARIABLES
    component,    \* the one that runs
    conn, retries, drops, chan, blocked, sending, lost, wasFull, req, pending, listed, jobOf,
    stopping, ended, tasks, draining, drain, visited, awaited, close, srv, heard, seen,
    worker, toProc, toWorker, initFut, supervise, launched, status, procClose, killSent,
    traces, os, frozen, freezes, phase, reader, job, shutdownFut,
    client, up, down, gone, task, active, reading, queue, run, replies, alive, early,
    pushed, inputDone, ttsStatus, recovering, allFailed, provider, attempt, eaten, base,
    voiced, kept, sent, events, ttsPhase, held, out, cut, leaked,
    plugin, llmStatus, llmRecovering, llmAllFailed, outer, llm, chunkSent, llmAttempt,
    request, block, tool, llmSent, answer, llmOut, llmPhase, retryable, spoilt,
    link, ws, chClosed, outbox, generationAwaited, asked, serving, requester, generation,
    gens, readers, done, keyed, got, recovery, recoveries, faults, expiries, excepted,
    head, tail, next, prev, known, server, toServer, fromServer, wanted, before, futures,
    updating, disturbed, updates, said, reconnects

serverVars  == <<conn, retries, drops, chan, blocked, sending, lost, wasFull, req, pending,
                 listed, jobOf, stopping, ended, tasks, draining, drain, visited, awaited,
                 close, srv, heard, seen>>
processVars == <<worker, toProc, toWorker, initFut, supervise, launched, status, procClose,
                 killSent, traces, os, frozen, freezes, phase, reader, job, shutdownFut>>
inferVars   == <<client, up, down, gone, task, active, reading, queue, run, replies, alive,
                 early>>
ttsVars     == <<pushed, inputDone, ttsStatus, recovering, allFailed, provider, attempt,
                 eaten, base, voiced, kept, sent, events, ttsPhase, held, out, cut, leaked>>
llmVars     == <<plugin, llmStatus, llmRecovering, llmAllFailed, outer, llm, chunkSent,
                 llmAttempt, request, block, tool, llmSent, answer, llmOut, llmPhase,
                 retryable, spoilt>>
replyVars   == <<link, ws, chClosed, outbox, generationAwaited, asked, serving, requester,
                 generation, gens, readers, done, keyed, got, recovery, recoveries,
                 faults, expiries, excepted>>
chatVars    == <<head, tail, next, prev, known, server, toServer, fromServer, wanted, before,
                 futures, updating, disturbed, updates, said, reconnects>>

Server  == INSTANCE Worker
Process == INSTANCE JobProcess
Infer   == INSTANCE Inference WITH Jobs <- Clients
Tts     == INSTANCE TtsFallback WITH told <- pushed, ended <- inputDone, status <- ttsStatus,
               phase <- ttsPhase
Llm     == INSTANCE LlmStream WITH Plugins <- LlmPlugins,
               status <- llmStatus, recovering <- llmRecovering, allFailed <- llmAllFailed,
               provider <- llm, attempt <- llmAttempt, sent <- llmSent, out <- llmOut,
               phase <- llmPhase
Realtime == INSTANCE RealtimeSession WITH conn <- link, awaited <- generationAwaited,
               spoilt <- excepted
Chat    == INSTANCE ChatSync WITH up <- toServer, down <- fromServer, awaited <- futures

\* The bounds are numbers; an adapter has a provider, "at least one" instance; the plugin of
\* an LLM is one of the four; and None is no item of a chat.
ASSUME ServicesAssumption ==
    /\ NumProviders \in Nat \ {0} /\ MaxRetry \in Nat /\ MaxTokens \in Nat
    /\ MaxOuter \in Nat /\ MaxReplies \in Nat /\ MaxGens \in Nat
    /\ Capacity \in Nat /\ MaxDrops \in Nat /\ MaxProcs \in Nat
    /\ MaxTraces \in Nat /\ MaxFreezes \in Nat /\ MaxRecovery \in Nat
    /\ IsFiniteSet(Items) /\ Nil \notin Items
    /\ MaxUpdates \in Nat /\ MaxSaid \in Nat /\ MaxReconnects \in Nat
    /\ LlmPlugins \subseteq {"openai", "anthropic", "google", "aws"}

ServerRuns  == component = "worker"
ProcessRuns == component = "process"
InferRuns   == component = "inference"
TtsRuns     == component = "tts"
LlmRuns     == component = "llm"
RealtimeRuns == component = "realtime"
ChatRuns    == component = "chat"

\* The provider an LLM stream falls back to is of the plugin openai, and all are available:
\* that none is, a retry of the stream finds.
Init ==
    /\ component \in {"worker", "process", "inference", "tts", "llm", "realtime", "chat"}
    /\ Server!Init /\ Process!Init /\ Infer!Init
    /\ Tts!Init /\ Llm!Init /\ Realtime!Init /\ Chat!Init
    /\ \A p \in Llm!Providers \ {1} : plugin[p] = "openai"
    /\ ~TtsRuns => \A p \in Tts!Providers : ttsStatus[p]
    /\ \A p \in Llm!Providers : llmStatus[p]
    /\ ~LlmRuns => plugin[1] = "openai"
    /\ ~ChatRuns => server = <<>>

Next ==
    /\ UNCHANGED component
    /\ IF ServerRuns THEN Server!Next ELSE UNCHANGED serverVars
    /\ IF ProcessRuns THEN Process!Next ELSE UNCHANGED processVars
    /\ IF InferRuns THEN Infer!Next ELSE UNCHANGED inferVars
    /\ IF TtsRuns THEN Tts!Next ELSE UNCHANGED ttsVars
    /\ IF LlmRuns THEN Llm!Next ELSE UNCHANGED llmVars
    /\ IF RealtimeRuns THEN Realtime!Next ELSE UNCHANGED replyVars
    /\ IF ChatRuns THEN Chat!Next ELSE UNCHANGED chatVars

vars == <<component, serverVars, processVars, inferVars, ttsVars, llmVars, replyVars,
          chatVars>>

\* The fairness of each component, while it is the one that runs.
FairServer ==
    /\ WF_serverVars(ServerRuns /\ (Server!ConnectFails \/ Server!RegisterFails \/ Server!Register))
    /\ WF_serverVars(ServerRuns /\ Server!Reconnect)
    /\ WF_serverVars(ServerRuns /\ (Server!SendTaskTakes \/ Server!Sent))
    /\ WF_serverVars(ServerRuns /\ Server!LoadTick)
    /\ SF_serverVars(ServerRuns /\ \E m \in blocked : m[1] # "worker" /\ Server!Unblock(m))
    /\ WF_serverVars(ServerRuns /\ \E m \in blocked : Server!Unblock(m))
    /\ \A j \in Jobs :
        /\ WF_serverVars(ServerRuns /\ Server!AnswerRequest(j))
        /\ WF_serverVars(ServerRuns /\ Server!AssignmentTimeout(j))
        /\ WF_serverVars(ServerRuns /\ \E event \in {"launched", "closed"} :
                                            Server!UpdateJobStatus(j, event))
    /\ \A p \in Server!Procs : WF_serverVars(ServerRuns /\ p \in stopping /\ Server!ProcEnds(p))
    /\ WF_serverVars(ServerRuns /\ Server!DrainGoesOn)
    /\ WF_serverVars(ServerRuns /\ Server!PoolClosed)
    /\ WF_serverVars(ServerRuns /\ Server!FinishClose)

FairProcess ==
    /\ WF_processVars(ProcessRuns /\ (Process!InitAnswered \/ Process!InitTimeout))
    /\ WF_processVars(ProcessRuns /\ Process!Supervise)
    /\ WF_processVars(ProcessRuns /\ Process!CloseTimeout)
    /\ WF_processVars(ProcessRuns /\ Process!PongTimeout)
    /\ WF_processVars(ProcessRuns /\ Process!Joined)
    /\ WF_processVars(ProcessRuns /\ Process!Closed)
    /\ WF_processVars(ProcessRuns /\ Process!OrphanExits)

FairInfer ==
    /\ \A r \in Infer!Requests :
        /\ WF_inferVars(InferRuns /\ Infer!AskRegistered(r))
        /\ WF_inferVars(InferRuns /\ Infer!TaskRegistered(r))
        /\ WF_inferVars(InferRuns /\ Infer!Answer(r))
    /\ \A j \in Clients :
        /\ WF_inferVars(InferRuns /\ Infer!ReadAnswer(j))
        /\ WF_inferVars(InferRuns /\ Infer!StartInference(j))
    /\ WF_inferVars(InferRuns /\ Infer!ReadReply)
    /\ WF_inferVars(InferRuns /\ Infer!RunInference)
    /\ WF_inferVars(InferRuns /\ Infer!Respond)

FairRealtime ==
    /\ \A r \in Realtime!Replies : WF_replyVars(RealtimeRuns /\ Realtime!ReplyTimeout(r))
    /\ WF_replyVars(RealtimeRuns /\ (Realtime!Connected \/ Realtime!ConnectFails))
    /\ WF_replyVars(RealtimeRuns /\ Realtime!Send)
    /\ WF_replyVars(RealtimeRuns /\ (Realtime!RecvFails \/ Realtime!SendFails))
    /\ WF_replyVars(RealtimeRuns /\ Realtime!SendEnds)
    /\ WF_replyVars(RealtimeRuns /\ Realtime!ExpiredEnds)
    /\ WF_replyVars(RealtimeRuns /\ Realtime!ResponseDone)

Spec ==
    /\ Init /\ [][Next]_vars
    /\ FairServer /\ FairProcess /\ FairInfer /\ FairRealtime

-----------------------------------------------------------------------------
\* The types of the variables of the seven components.
TypeOK ==
    /\ Server!TypeOK /\ Process!TypeOK /\ Infer!TypeOK
    /\ Tts!TypeOK /\ Llm!TypeOK /\ Realtime!TypeOK /\ Chat!TypeOK

\* The server, once told that a job ended, is not told that it runs, although two tasks tell
\* the status, either may run first and the connection may be lost; unless the channel was
\* full.
ServerIsTold == Server!StatusNeverGoesBack

\* A job that is reported as a success has run, and so have its shutdown callbacks, unless
\* it was launched on a process that was asked to close before, which drops it.
SuccessHasRun == Process!SuccessHasRun

\* What is generated is heard once, in order, from one provider and whole, over retries
\* and fallbacks; except for the known losses and repetitions of single plugins.
GeneratedOnce == Tts!HeardOnceAndWhole /\ Llm!AnswerIsWhole

\* A reply of a realtime session gets the response to its own request, over retries,
\* timeouts, speech of the user and reconnections, and one that waits is not forgotten;
\* unless a response has several items or the recovery of its text was lost.
RealtimeInStep == Realtime!OwnGeneration /\ Realtime!PendingIsKnown

\* The copy of the server's conversation is linked, and the conversation once all the events
\* were handled; and an update makes it what was wanted with the fewest changes.
ChatIsRight == Chat!ChatIsRight

\* The server gets an answer to every request, over a loss of the connection and a full
\* channel; from some time after a drain on it sees that the worker is full, although an
\* update is dropped while the worker connects; and a close of the worker ends, unless a job
\* was assigned that gets no process from the closed pool, or a message waits for room in a
\* channel that nobody reads any more.  aclose() of a process ends, and with it the process;
\* and a process whose worker has died exits, unless its loop is blocked.  A request for
\* inference is answered, whatever other jobs and cancelled callers do, unless its job or
\* the process that runs the inference ends, or a request was overtaken by its response.
\* A connection that is too old is replaced, and a session that is closed ends, unless the
\* generation that _main_task waits for never ends.
ServicesAnswer ==
    /\ Server!RequestIsAnswered /\ Server!DrainIsSeen /\ Server!CloseEnds
    /\ Process!CloseEndsProcess /\ Process!OrphanIsGone
    /\ Infer!InferenceAnswers
    /\ Realtime!ConnectionGoesOn
=============================================================================
