----------------------------- MODULE JobContext -----------------------------
(***************************************************************************)
(* What a job knows of the participants of its room (job.py): entrypoints  *)
(* that are run for each participant that joins, and waits for a           *)
(* participant (utils/participant.py).                                     *)
(*                                                                         *)
(* The room and the application are external: participants come and go,    *)
(* entrypoints are added, and their tasks end or raise.                    *)
(***************************************************************************)
EXTENDS Naturals, FiniteSets

CONSTANTS
    Users,      \* participants of the kinds that are asked for
    Others,     \* participants of another kind
    Entries,    \* entrypoint functions
    Waits,      \* calls of wait_for_participant
    None,
    MaxVisits   \* bound: times that participants come

Participants == Users \cup Others

VARIABLES
    connected,  \* connect() was called and the room is connected
    room,       \* who is in it
    visits,     \* times that participants came
    visit,      \* the visit of each participant that is there, or was
    entries,    \* _participant_entrypoints
    tasks,      \* tasks that run: the entrypoint, the participant, its visit
    known,      \* _participant_tasks: by participant and entrypoint, the visit of the task
    served,     \* tasks that were started
    due,        \* tasks that the visits call for
    rejoined,   \* keys whose participant came again before its task had ended
    missing,    \* a callback found no task to take from _participant_tasks
    waiting     \* wait_for_participant: who is waited for, who was found

roomVars  == <<connected, room, visits, visit>>
entryVars == <<entries, tasks, known, served, due, rejoined, missing>>
vars == <<roomVars, entryVars, waiting>>

Keys == Users \X Entries
Anyone == "anyone"
NoWait == [for |-> None, found |-> None]

Init ==
    /\ connected = FALSE /\ room = {} /\ visits = 0 /\ visit = [p \in Participants |-> 0]
    /\ entries = {} /\ tasks = {} /\ known = [k \in Keys |-> 0] /\ served = {} /\ due = {}
    /\ rejoined = {} /\ missing = FALSE
    /\ waiting = [w \in Waits |-> NoWait]

Task(p, e, v) == [who |-> p, entry |-> e, visit |-> v]

-----------------------------------------------------------------------------
(* Entrypoints *)

\* "entrypoints cannot be added more than once"
AddEntrypoint(e) ==
    /\ e \notin entries
    /\ entries' = entries \cup {e}
    /\ UNCHANGED <<roomVars, tasks, known, served, due, rejoined, missing, waiting>>

\* The tasks that are started for participants that are there: one for each entrypoint.
Started(there, v) == {Task(p, e, v[p]) : p \in there \cap Users, e \in entries}

\* _participant_available: "a participant has joined before a prior participant task
\* matching the same identity has finished" is a warning.
Available(there, v) ==
    LET new == Started(there, v) IN
    /\ tasks' = tasks \cup new /\ served' = served \cup new
    /\ known' = [k \in Keys |-> IF Task(k[1], k[2], v[k[1]]) \in new THEN v[k[1]] ELSE known[k]]
    /\ rejoined' = rejoined \cup
            {<<t.who, t.entry>> : t \in {u \in new : known[<<u.who, u.entry>>] # 0}}
    /\ due' = due \cup {Task(p, e, v[p]) : p \in there \cap Users, e \in entries}

\* The callback of a task: pop() of the key, whichever task is there.
Popped(t) == [known EXCEPT ![<<t.who, t.entry>>] = 0]

TaskEnds(t) ==
    /\ tasks' = tasks \ {t} /\ known' = Popped(t)
    /\ missing' = (missing \/ known[<<t.who, t.entry>>] = 0)
    /\ UNCHANGED <<roomVars, entries, served, due, rejoined, waiting>>

-----------------------------------------------------------------------------
(* Waits *)

Matches(w, p) == p \in Users /\ w.for \in {Anyone, p}

\* "If the participant has already joined": those who are there.
Present(w) == {p \in room : Matches(w, p)}

WaitForParticipant(w, p) ==
    /\ connected /\ waiting[w] = NoWait
    /\ LET call == [for |-> p, found |-> None] IN
       \E found \in IF Present(call) = {} THEN {None} ELSE Present(call) :
           waiting' = [waiting EXCEPT ![w] = [call EXCEPT !.found = found]]
    /\ UNCHANGED <<roomVars, entryVars>>

\* The handler of the event is taken off with the first that matches.
Found(p) == [w \in Waits |->
    IF waiting[w].found = None /\ Matches(waiting[w], p) THEN [waiting[w] EXCEPT !.found = p]
    ELSE waiting[w]]

-----------------------------------------------------------------------------
(* The room *)

\* connect(): those who are there already are available then.
Connect(there) ==
    /\ ~connected /\ Cardinality(there) <= MaxVisits
    /\ connected' = TRUE /\ room' = there /\ visits' = Cardinality(there)
    /\ visit' = [p \in Participants |-> IF p \in there THEN 1 ELSE 0]
    /\ Available(there, visit')
    /\ UNCHANGED <<entries, missing, waiting>>

ParticipantConnected(p) ==
    /\ connected /\ p \notin room /\ visits < MaxVisits
    /\ visits' = visits + 1 /\ room' = room \cup {p} /\ visit' = [visit EXCEPT ![p] = @ + 1]
    /\ Available({p}, visit')
    /\ waiting' = Found(p)
    /\ UNCHANGED <<connected, entries, missing>>

ParticipantDisconnected(p) ==
    /\ p \in room
    /\ room' = room \ {p}
    /\ UNCHANGED <<connected, visits, visit, entryVars, waiting>>

-----------------------------------------------------------------------------
Next ==
    \/ \E e \in Entries : AddEntrypoint(e)
    \/ \E t \in tasks : TaskEnds(t)
    \/ \E w \in Waits, p \in Users \cup {Anyone} : WaitForParticipant(w, p)
    \/ \E there \in SUBSET Participants : Connect(there)
    \/ \E p \in Participants : ParticipantConnected(p) \/ ParticipantDisconnected(p)

Spec == Init /\ [][Next]_vars

-----------------------------------------------------------------------------
(* Properties *)

TypeOK ==
    /\ room \subseteq Participants /\ visits \in 0 .. MaxVisits
    /\ entries \subseteq Entries /\ tasks \subseteq served
    /\ known \in [Keys -> 0 .. MaxVisits] /\ rejoined \subseteq Keys
    /\ \A w \in Waits : waiting[w].for \in Users \cup {Anyone, None}

\* Each visit of a participant is served once by each entrypoint that was added before.
VisitsAreServed == served = due

\* The tasks that run are those that are known, and each is taken off once; unless its
\* participant came again before it had ended.
TasksAreKnown ==
    /\ \A t \in tasks : <<t.who, t.entry>> \notin rejoined => known[<<t.who, t.entry>>] = t.visit
    /\ \A k \in Keys \ rejoined : known[k] # 0 => Task(k[1], k[2], known[k]) \in tasks
    /\ missing => rejoined # {}

\* A wait that was not answered waits for nobody who is there, and the one that was found
\* is one that was asked for.
WaitsAreAnswered ==
    \A w \in Waits :
        /\ waiting[w].for # None /\ waiting[w].found = None =>
               ~\E p \in room : Matches(waiting[w], p)
        /\ waiting[w].found # None => Matches(waiting[w], waiting[w].found)
=============================================================================
