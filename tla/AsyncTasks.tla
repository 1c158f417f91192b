------------------------------ MODULE AsyncTasks -----------------------------
(***************************************************************************)
(* Swoole\Async::exec and swoole_async_dns_lookup (swoole_async.cc): a     *)
(* call starts something outside the process and its callback gets the     *)
(* outcome.                                                                *)
(*                                                                         *)
(* exec() runs a child process and collects what it writes into a pipe.    *)
(* The reactor calls process_stream_onRead whenever the pipe has output or *)
(* has reached its end; the end calls the callback with the output and the *)
(* status of the child, if it has one by then.  A lookup goes to a worker  *)
(* of the thread pool, or with use_async_resolver to swDNSResolver_request.*)
(*                                                                         *)
(* Calls share no state, so what a callback does next is just another call.*)
(* Output is counted in units; MaxOutput and BufferSize bound it.          *)
(***************************************************************************)
EXTENDS Integers

CONSTANTS
    MaxTasks,    \* bound: number of calls
    MaxOutput,   \* bound: units a child writes
    BufferSize   \* units the buffer of exec() holds at first (1024 bytes)

ASSUME MaxTasksAssumption == MaxTasks \in Nat
ASSUME MaxOutputAssumption == MaxOutput \in Nat
ASSUME BufferSizeAssumption == BufferSize \in Nat \ {0}

VARIABLES
    use_async_resolver,   \* the setting of swoole_async_set
    tasks,    \* number of calls so far
    phase,    \* where each call is
    child,    \* the child process of each exec()
    ps,       \* its process_stream: units in the buffer, and its size
    answer    \* what each callback got

vars == <<use_async_resolver, tasks, phase, child, ps, answer>>

Tasks == 1..MaxTasks

(* reading: the pipe is in the reactor; queued, done: with the thread pool *)
Phases == {"none", "refused", "reading", "queued", "done", "failed", "told"}

(* left: units still to write; pipe: units in the pipe.  Its end of the    *)
(* pipe is closed before a child can be waited for.                        *)
ChildType == [output : 0..MaxOutput, left : 0..MaxOutput, pipe : 0..MaxOutput,
              life : {"none", "running", "closed", "exited"}]

NoChild == [output |-> 0, left |-> 0, pipe |-> 0, life |-> "none"]

(* units: the output, or an address (1) or none (0).  status FALSE: the    *)
(* callback is not told how the child ended.                               *)
AnswerType == [units : Nat, status : BOOLEAN]

NoAnswer == [units |-> 0, status |-> FALSE]

TypeOK ==
    /\ use_async_resolver \in BOOLEAN
    /\ tasks \in 0..MaxTasks
    /\ phase \in [Tasks -> Phases]
    /\ child \in [Tasks -> ChildType]
    /\ ps \in [Tasks -> [length : Nat, size : Nat]]
    /\ answer \in [Tasks -> AnswerType]

Init ==
    /\ use_async_resolver \in BOOLEAN
    /\ tasks = 0
    /\ phase = [t \in Tasks |-> "none"]
    /\ child = [t \in Tasks |-> NoChild]
    /\ ps = [t \in Tasks |-> [length |-> 0, size |-> BufferSize]]
    /\ answer = [t \in Tasks |-> NoAnswer]

Call(t) ==
    /\ t = tasks + 1
    /\ t \in Tasks
    /\ tasks' = t
    /\ UNCHANGED <<use_async_resolver, ps, answer>>

To(t, p) == phase' = [phase EXCEPT ![t] = p]

-----------------------------------------------------------------------------
(* exec()                                                                  *)

(* The command cannot be started, or the reactor does not take the pipe.   *)
ExecRefused(t) ==
    /\ Call(t)
    /\ To(t, "refused")
    /\ UNCHANGED child

Exec(t) ==
    /\ Call(t)
    /\ To(t, "reading")
    /\ \E n \in 0..MaxOutput :
          child' = [child EXCEPT ![t] = [output |-> n, left |-> n, pipe |-> 0,
                                         life |-> "running"]]

(* The child, outside the process.                                         *)
ChildWrites(t) ==
    /\ child[t].left > 0
    /\ child' = [child EXCEPT ![t].left = @ - 1, ![t].pipe = @ + 1]
    /\ UNCHANGED <<use_async_resolver, tasks, phase, ps, answer>>

ChildEnds(t) ==
    /\ child[t].left = 0
    /\ \/ /\ child[t].life = "running"
          /\ child' = [child EXCEPT ![t].life = "closed"]
       \/ /\ child[t].life = "closed"
          /\ child' = [child EXCEPT ![t].life = "exited"]
    /\ UNCHANGED <<use_async_resolver, tasks, phase, ps, answer>>

(* Faulty variant: the buffer keeps its size.                              *)
ExtendedBug(p) == p

(* A buffer that is full is extended at once, for the next read() to have  *)
(* room: with none it would return 0, as at the end of the pipe.           *)
Extended(p) == IF p.length = p.size THEN [p EXCEPT !.size = @ * 2] ELSE p

(* swString with n more units.                                             *)
Longer(p, n) == [p EXCEPT !.length = @ + n]

Room(t) == ps[t].size - ps[t].length

(* Faulty variant: a read() that empties the pipe is taken for its end.    *)
AtEndBug(t) == child[t].pipe = 0

(* read() returns 0.                                                       *)
AtEnd(t) ==
    \/ child[t].pipe = 0 /\ child[t].life # "running"
    \/ Room(t) = 0

(* process_stream_onRead with output.                                      *)
ReadOutput(t) ==
    /\ phase[t] = "reading"
    /\ \E n \in 1..Room(t) :
          /\ n <= child[t].pipe
          /\ child' = [child EXCEPT ![t].pipe = @ - n]
          /\ ps' = [ps EXCEPT ![t] = Extended(Longer(ps[t], n))]
    /\ UNCHANGED <<use_async_resolver, tasks, phase, answer>>

(* process_stream_onRead at the end: waitpid(WNOHANG) and the callback.    *)
ReadEnd(t) ==
    /\ phase[t] = "reading"
    /\ AtEnd(t)
    /\ To(t, "told")
    /\ answer' = [answer EXCEPT ![t] =
                     [units |-> ps[t].length,
                      status |-> child[t].life = "exited"]]
    /\ UNCHANGED <<use_async_resolver, tasks, child, ps>>

-----------------------------------------------------------------------------
(* dns_lookup()                                                            *)

(* swDNSResolver_request refuses a request that is not in its table, as a  *)
(* duplicate, and so the table stays empty.  Without it, the thread pool   *)
(* may not take the lookup.                                                *)
LookupRefused(t) ==
    /\ Call(t)
    /\ To(t, "refused")
    /\ UNCHANGED child

Lookup(t) ==
    /\ ~use_async_resolver
    /\ Call(t)
    /\ To(t, "queued")
    /\ UNCHANGED child

(* handler_gethostbyname, in a worker.                                     *)
HandlerGetHostByName(t) ==
    /\ phase[t] = "queued"
    /\ To(t, "done") \/ To(t, "failed")
    /\ UNCHANGED <<use_async_resolver, tasks, child, ps, answer>>

(* Faulty variant: a lookup that failed is not completed.                  *)
CompletedBug(t) == phase[t] = "done"

Completed(t) == phase[t] \in {"done", "failed"}

(* aio_onDNSCompleted: an address, or an empty string.                     *)
OnDNSCompleted(t) ==
    /\ Completed(t)
    /\ To(t, "told")
    /\ answer' = [answer EXCEPT ![t].units = IF phase[t] = "done" THEN 1 ELSE 0]
    /\ UNCHANGED <<use_async_resolver, tasks, child, ps>>

-----------------------------------------------------------------------------
Outside(t) == ChildWrites(t) \/ ChildEnds(t) \/ HandlerGetHostByName(t)

Handler(t) == ReadOutput(t) \/ ReadEnd(t) \/ OnDNSCompleted(t)

Next ==
    \E t \in Tasks :
        \/ ExecRefused(t) \/ Exec(t)
        \/ LookupRefused(t) \/ Lookup(t)
        \/ Outside(t)
        \/ Handler(t)

Spec == Init /\ [][Next]_vars

(* Children and workers come to an end, and the reactor serves its pipes.  *)
Fairness == \A t \in Tasks : WF_vars(Outside(t)) /\ WF_vars(Handler(t))

FairSpec == Spec /\ Fairness

-----------------------------------------------------------------------------
IsExec(t) == child[t].life # "none"

(* The callback of exec() gets all that the child writes, however the      *)
(* output is cut into reads and however often the buffer grows: nothing is *)
(* left in the pipe or still to be written when it is called.              *)
OutputIsComplete ==
    \A t \in Tasks : IsExec(t) /\ phase[t] = "told" =>
        answer[t].units = child[t].output

(* Every call that was not refused is answered.                            *)
EveryTaskEnds ==
    \A t \in Tasks : t <= tasks ~> phase[t] \in {"told", "refused"}
=============================================================================
