---------------------------- MODULE NativeInspector ----------------------------
(***************************************************************************)
(* The isolated inspection of attachments: the router that shares out the  *)
(* inspector processes (features/command-security/isolatedInspection.ts)   *)
(* and the client that talks to one of them through its pipes              *)
(* (nativeInspectorProcess.ts).                                            *)
(*                                                                         *)
(* A process greets once and answers each request once, in order; it may   *)
(* be slow, die at any point or write what is no frame.  Its standard      *)
(* output reaches pump in frames: a chunk that ends within a frame leaves  *)
(* the reader where it was.  The listeners of a process that was disposed  *)
(* of are gone, so its late output is never read.                          *)
(***************************************************************************)
EXTENDS Integers, Sequences, FiniteSets

CONSTANTS Job,         \* the inspections asked for
          Client,      \* the clients a router may create: processCount
          NoJob,
          MaxFaults    \* bound on dying, garbage, timeouts and stops

InspectorAssumption == NoJob \notin Job /\ Client # {} /\ MaxFaults \in Nat

VARIABLES made,      \* the router: clients
          idle,      \* its idle stack
          waiting,   \* its queue of jobs
          client,    \* the state of each client and of its process
          job,       \* of each job: its step, its client and the report it got
          faults

vars == <<made, idle, waiting, client, job, faults>>

(* ready: the promise of start; alive, inbox: the process and the requests *)
(* it has not answered; buffer: FrameReader; listening: the job of onFrame *)
(* and onBroken.                                                           *)
Fresh == [ready |-> "none", alive |-> FALSE, inbox |-> <<>>, buffer |-> <<>>,
          listening |-> NoJob]

Init ==
    /\ made = {} /\ idle = <<>> /\ waiting = <<>> /\ faults = 0
    /\ client = [c \in Client |-> Fresh]
    /\ job = [j \in Job |-> [pc |-> "new", at |-> {}, report |-> {}]]

Fault == faults < MaxFaults /\ faults' = faults + 1

Frame == Job \cup {"garbage"}

TypeOK ==
    /\ made \in SUBSET Client /\ idle \in Seq(Client) /\ waiting \in Seq(Job)
    /\ client \in [Client -> [ready : {"none", "pending", "ok"}, alive : BOOLEAN,
                              inbox : Seq(Job), buffer : Seq(Frame),
                              listening : Job \cup {NoJob}]]
    /\ job \in [Job -> [pc : {"new", "waiting", "given", "starting", "running", "ended", "done"},
                        at : SUBSET Client, report : SUBSET Job]]
    /\ faults \in 0 .. MaxFaults

At(j) == CHOOSE c \in Client : c \in job[j].at

-----------------------------------------------------------------------------
(* The router. *)

(* acquire: the client released last, a new one, or a place in the queue.  *)
Inspect(j) ==
    /\ job[j].pc = "new"
    /\ \/ /\ idle # <<>>
          /\ job' = [job EXCEPT ![j].pc = "given", ![j].at = {idle[Len(idle)]}]
          /\ idle' = SubSeq(idle, 1, Len(idle) - 1)
          /\ UNCHANGED <<made, waiting>>
       \/ \E c \in Client \ made :
            /\ idle = <<>> /\ made' = made \cup {c}
            /\ job' = [job EXCEPT ![j].pc = "given", ![j].at = {c}]
            /\ UNCHANGED <<idle, waiting>>
       \/ /\ idle = <<>> /\ made = Client
          /\ job' = [job EXCEPT ![j].pc = "waiting"] /\ waiting' = Append(waiting, j)
          /\ UNCHANGED <<made, idle>>
    /\ UNCHANGED <<client, faults>>

(* release: to the first that waits, or back on the stack. *)
Release(j) ==
    /\ job[j].pc = "ended"
    /\ LET done == [job EXCEPT ![j].pc = "done"]
       IN  IF waiting = <<>>
           THEN job' = done /\ idle' = Append(idle, At(j)) /\ UNCHANGED waiting
           ELSE /\ job' = [done EXCEPT ![Head(waiting)].pc = "given",
                                       ![Head(waiting)].at = job[j].at]
                /\ waiting' = Tail(waiting) /\ UNCHANGED idle
    /\ UNCHANGED <<made, client, faults>>

-----------------------------------------------------------------------------
(* The client. *)

Settle(j, report) == job' = [job EXCEPT ![j].pc = "ended", ![j].report = report]

(* pump, for the client s of job j: the first frame of the buffer settles  *)
(* the job; bytes that are no frame make it restart the process.           *)
Pump(c, s, j) ==
    IF s.buffer = <<>>
    THEN client' = [client EXCEPT ![c] = s] /\ job' = [job EXCEPT ![j].pc = "running"]
    ELSE IF Head(s.buffer) = "garbage"
         THEN client' = [client EXCEPT ![c] = Fresh] /\ Settle(j, {})
         ELSE /\ client' = [client EXCEPT ![c] = [s EXCEPT !.buffer = Tail(@), !.listening = NoJob]]
              /\ Settle(j, {Head(s.buffer)})

(* The request is written, and what the buffer holds is looked at.         *)
Asked(s, j) == [s EXCEPT !.listening = j, !.inbox = IF s.alive THEN Append(@, j) ELSE @]

(* inspect and start: the process is there and is asked, or is started.  A *)
(* client that is busy would fail the job: see ReportsAreOwn.              *)
Begin(j) ==
    /\ job[j].pc = "given"
    /\ LET c == At(j)
           s == client[c]
       IN  \/ s.ready = "ok" /\ Pump(c, Asked(s, j), j)
           \/ /\ s.ready = "none"
              /\ client' = [client EXCEPT ![c] = [s EXCEPT !.ready = "pending", !.alive = TRUE,
                                                            !.inbox = <<>>]]
              /\ job' = [job EXCEPT ![j].pc = "starting"]
    /\ UNCHANGED <<made, idle, waiting, faults>>

(* readReady: the greeting counts only where nothing is left before it.    *)
Ready(j) ==
    /\ job[j].pc = "starting"
    /\ LET c == At(j)
           s == client[c]
       IN  /\ s.ready = "pending" /\ s.alive /\ s.buffer = <<>>
           /\ client' = [client EXCEPT ![c] = Asked([s EXCEPT !.ready = "ok"], j)]
    /\ job' = [job EXCEPT ![j].pc = "running"]
    /\ UNCHANGED <<made, idle, waiting, faults>>

(* The process exits before it greets, cannot be started, or the greeting  *)
(* does not come in time: dispose.                                         *)
StartFails(j) ==
    /\ job[j].pc = "starting"
    /\ IF client[At(j)].alive /\ client[At(j)].buffer = <<>> THEN Fault ELSE UNCHANGED faults
    /\ client' = [client EXCEPT ![At(j)] = Fresh]
    /\ Settle(j, {})
    /\ UNCHANGED <<made, idle, waiting>>

(* A frame arrives: it settles the job that listens, or stays.             *)
Arrives(c, f, inbox) ==
    LET s == [client[c] EXCEPT !.inbox = inbox, !.buffer = Append(@, f)]
    IN  IF s.listening # NoJob THEN Pump(c, s, s.listening)
        ELSE client' = [client EXCEPT ![c] = s] /\ UNCHANGED job

Answer(c) ==
    /\ client[c].alive /\ client[c].inbox # <<>>
    /\ Arrives(c, Head(client[c].inbox), Tail(client[c].inbox))
    /\ UNCHANGED <<made, idle, waiting, faults>>

(* The process writes bytes that are no frame. *)
Garbage(c) ==
    /\ Fault /\ client[c].alive
    /\ Arrives(c, "garbage", client[c].inbox)
    /\ UNCHANGED <<made, idle, waiting>>

(* Mutant: a job that fails lets the process be, to spare a restart. *)
Restart_KeepProcess(c, j) ==
    /\ client' = [client EXCEPT ![c].listening = NoJob]
    /\ Settle(j, {})

(* restart: dispose kills the process and forgets all it wrote; the job    *)
(* ends without a report.                                                  *)
Restart(c, j) ==
    /\ client' = [client EXCEPT ![c] = Fresh]
    /\ Settle(j, {})

(* The timer of a running job; it also ends one whose router was stopped.  *)
TimedOut(j) ==
    /\ job[j].pc = "running"
    /\ IF client[At(j)].alive THEN Fault ELSE UNCHANGED faults
    /\ Restart(At(j), j)
    /\ UNCHANGED <<made, idle, waiting>>

Die(c) ==
    /\ Fault /\ client[c].alive
    /\ client' = [client EXCEPT ![c].alive = FALSE, ![c].inbox = <<>>]
    /\ UNCHANGED <<made, idle, waiting, job>>

(* The exit is heard: while a job listens the process is restarted;        *)
(* otherwise the next job starts another, and the reader keeps its bytes.  *)
Exit(c) ==
    /\ client[c].ready = "ok" /\ ~client[c].alive
    /\ IF client[c].listening # NoJob THEN Restart(c, client[c].listening)
       ELSE client' = [client EXCEPT ![c].ready = "none"] /\ UNCHANGED job
    /\ UNCHANGED <<made, idle, waiting, faults>>

(* stop, at shutdown: all processes are killed; the jobs in the queue are  *)
(* dropped, and the running ones end by their timers.  A job that comes    *)
(* later would get a router of its own: it is outside of the model.        *)
Stop ==
    /\ Fault /\ made # {} /\ \A j \in Job : job[j].pc # "new"
    /\ client' = [c \in Client |-> Fresh]
    /\ made' = {} /\ idle' = <<>> /\ waiting' = <<>> /\ UNCHANGED job

Next ==
    \/ \E j \in Job : Inspect(j) \/ Begin(j) \/ Ready(j) \/ StartFails(j) \/ TimedOut(j) \/ Release(j)
    \/ \E c \in Client : Answer(c) \/ Garbage(c) \/ Die(c) \/ Exit(c)
    \/ Stop

Spec == Init /\ [][Next]_vars

-----------------------------------------------------------------------------
(* The report a job is given is the report of its own attachment: an       *)
(* answer that comes after its job timed out, or after the process was     *)
(* replaced, must not be the verdict of the next attachment, whatever the  *)
(* order of timers, exits and frames; and a client serves one job.         *)
ReportsAreOwn ==
    /\ \A j \in Job : job[j].report \subseteq {j}
    /\ \A j, k \in Job : j # k /\ job[j].pc \in {"given", "starting", "running"}
                               /\ job[k].pc \in {"given", "starting", "running"}
                         => job[j].at # job[k].at

(* No attachment waits while a client could serve it: what is in the queue *)
(* waits for clients that are all at work, each for one job.               *)
NobodyWaitsIdly ==
    waiting # <<>> =>
        /\ made = Client /\ idle = <<>>
        /\ \A c \in Client : \E j \in Job :
               job[j].at = {c} /\ job[j].pc \in {"given", "starting", "running", "ended"}
=============================================================================
