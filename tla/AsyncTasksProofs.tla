-------------------------- MODULE AsyncTasksProofs ---------------------------
(***************************************************************************)
(* Theorems about AsyncTasks, for any number of calls, any output and any  *)
(* size of the buffer.                                                     *)
(***************************************************************************)
EXTENDS AsyncTasks, TLAPS

USE DEF Tasks

(* No unit of output is lost between the child, the pipe and the buffer,   *)
(* and the buffer always has room for another one.                         *)
OutputIsKept(t) ==
    /\ ps[t].length + child[t].pipe + child[t].left = child[t].output
    /\ ps[t].length < ps[t].size
    /\ child[t].life \in {"closed", "exited"} => child[t].left = 0
    /\ phase[t] = "told" => answer[t].units = child[t].output \/ ~IsExec(t)

(* A call that is no exec() has no child, and a call to come has left no   *)
(* trace.                                                                  *)
OnlyExecHasChild(t) ==
    /\ phase[t] \notin {"reading", "told"} => child[t] = NoChild
    /\ phase[t] = "reading" => IsExec(t)
    /\ child[t].life = "none" => child[t] = NoChild
    /\ t > tasks => /\ phase[t] = "none"
                    /\ ps[t] = [length |-> 0, size |-> BufferSize]

IInv == TypeOK /\ \A t \in Tasks : OutputIsKept(t) /\ OnlyExecHasChild(t)

-----------------------------------------------------------------------------
LEMMA InitInvariant == Init => IInv
<1> SUFFICES ASSUME Init PROVE IInv
  OBVIOUS
<1> USE MaxTasksAssumption, MaxOutputAssumption, BufferSizeAssumption
<1>1. TypeOK
  BY DEF Init, TypeOK, Phases, ChildType, NoChild, AnswerType, NoAnswer
<1>2. ASSUME NEW t \in Tasks PROVE OutputIsKept(t) /\ OnlyExecHasChild(t)
  BY DEF Init, OutputIsKept, OnlyExecHasChild, NoChild, IsExec
<1> QED BY <1>1, <1>2 DEF IInv

(* What holds of a call holds after a step of another one.                 *)
LEMMA OthersKeepTheirs ==
    ASSUME IInv, NEW t \in Tasks, NEW u \in Tasks, u # t,
           phase'[u] = phase[u], child'[u] = child[u], ps'[u] = ps[u],
           answer'[u] = answer[u], tasks' \in {tasks, t}, tasks' >= tasks
    PROVE  (OutputIsKept(u) /\ OnlyExecHasChild(u))'
<1>1. OutputIsKept(u)'
  BY DEF IInv, OutputIsKept, IsExec
<1>2. u > tasks' => u > tasks
  BY MaxTasksAssumption DEF IInv, TypeOK
<1>3. OnlyExecHasChild(u)'
  BY <1>2 DEF IInv, OnlyExecHasChild, IsExec
<1> QED BY <1>1, <1>3

(* A call is refused or goes to the thread pool.                           *)
LEMMA CallInvariant ==
    ASSUME IInv, NEW t \in Tasks, Call(t), UNCHANGED child,
           NEW p \in {"refused", "queued"}, To(t, p)
    PROVE  IInv'
<1>1. t > tasks /\ tasks' = t /\ tasks \in Nat
  BY MaxTasksAssumption DEF Call, IInv, TypeOK
<1>2. TypeOK'
  BY MaxTasksAssumption DEF IInv, TypeOK, Call, To, Phases
<1>3. phase'[t] = p
  BY DEF IInv, TypeOK, To
<1>4. OutputIsKept(t)'
  BY <1>3 DEF IInv, OutputIsKept, Call, IsExec
<1>5. OnlyExecHasChild(t)'
  BY <1>1, <1>3 DEF IInv, OnlyExecHasChild, Call, NoChild, IsExec
<1>6. ASSUME NEW u \in Tasks, u # t
      PROVE  (OutputIsKept(u) /\ OnlyExecHasChild(u))'
  BY <1>1, <1>6, OthersKeepTheirs DEF Call, To, IInv, TypeOK
<1> QED BY <1>2, <1>4, <1>5, <1>6 DEF IInv

LEMMA ExecInvariant ==
    ASSUME IInv, NEW t \in Tasks, Exec(t)
    PROVE  IInv'
<1> PICK n \in 0..MaxOutput :
      child' = [child EXCEPT ![t] = [output |-> n, left |-> n, pipe |-> 0,
                                     life |-> "running"]]
  BY DEF Exec
<1>1. t > tasks /\ tasks' = t /\ tasks \in Nat
  BY MaxTasksAssumption DEF Exec, Call, IInv, TypeOK
<1>2. TypeOK'
  <2>1. [output |-> n, left |-> n, pipe |-> 0, life |-> "running"] \in ChildType
    BY MaxOutputAssumption DEF ChildType
  <2>2. child' \in [Tasks -> ChildType]
    BY <2>1 DEF IInv, TypeOK
  <2> QED BY <2>2, MaxTasksAssumption DEF IInv, TypeOK, Exec, Call, To, Phases
<1>3. /\ phase'[t] = "reading"
      /\ child'[t] = [output |-> n, left |-> n, pipe |-> 0, life |-> "running"]
      /\ ps'[t] = [length |-> 0, size |-> BufferSize]
  BY <1>1 DEF IInv, TypeOK, Exec, Call, To, OnlyExecHasChild
<1>4. OutputIsKept(t)'
  BY <1>3, MaxOutputAssumption, BufferSizeAssumption DEF OutputIsKept
<1>5. OnlyExecHasChild(t)'
  BY <1>1, <1>3 DEF OnlyExecHasChild, IsExec
<1>6. ASSUME NEW u \in Tasks, u # t
      PROVE  (OutputIsKept(u) /\ OnlyExecHasChild(u))'
  BY <1>1, <1>6, OthersKeepTheirs DEF Exec, Call, To, IInv, TypeOK
<1> QED BY <1>2, <1>4, <1>5, <1>6 DEF IInv

LEMMA ChildInvariant ==
    ASSUME IInv, NEW t \in Tasks, ChildWrites(t) \/ ChildEnds(t)
    PROVE  IInv'
<1> USE DEF IInv
<1>1. /\ UNCHANGED <<use_async_resolver, tasks, phase, ps, answer>>
      /\ tasks \in Nat /\ ps[t].length \in Nat
      /\ child \in [Tasks -> ChildType]
  BY DEF ChildWrites, ChildEnds, TypeOK
<1>2. CASE ChildWrites(t)
  <2> DEFINE c == [child[t] EXCEPT !.left = @ - 1, !.pipe = @ + 1]
  <2>1. child' = [child EXCEPT ![t] = c]
    BY <1>2 DEF ChildWrites
  <2>2. child[t] \in ChildType /\ child[t].left > 0
    BY <1>2, <1>1 DEF ChildWrites
  <2>3. ps[t].length + child[t].pipe + child[t].left = child[t].output
    BY DEF OutputIsKept
  <2>4. /\ c.life = child[t].life /\ c.output = child[t].output
        /\ c.left = child[t].left - 1 /\ c.pipe = child[t].pipe + 1
        /\ c \in ChildType
    <3>1. child[t].left - 1 \in 0..MaxOutput
      BY <2>2, MaxOutputAssumption DEF ChildType
    <3>2. child[t].pipe + 1 \in 0..MaxOutput
      BY <1>1, <2>2, <2>3, MaxOutputAssumption DEF ChildType
    <3> QED BY <2>2, <3>1, <3>2 DEF ChildType
  <2>5. child' \in [Tasks -> ChildType] /\ child'[t] = c
    BY <1>1, <2>1, <2>4
  <2> HIDE DEF c
  <2>6. TypeOK'
    BY <1>1, <2>5 DEF TypeOK
  <2>7. child[t] # NoChild
    BY <2>2 DEF NoChild
  <2>8. OutputIsKept(t)'
    <3>1. child[t].life \notin {"closed", "exited"}
      BY <2>2 DEF OutputIsKept, ChildType
    <3>2. ps'[t].length + c.pipe + c.left = c.output
      BY <1>1, <2>2, <2>3, <2>4, MaxOutputAssumption DEF ChildType
    <3> QED BY <1>1, <2>4, <2>5, <3>1, <3>2 DEF OutputIsKept, IsExec
  <2>9. OnlyExecHasChild(t)'
    BY <1>1, <2>4, <2>5, <2>7 DEF OnlyExecHasChild, IsExec
  <2>10. ASSUME NEW u \in Tasks, u # t
         PROVE  (OutputIsKept(u) /\ OnlyExecHasChild(u))'
    BY <1>1, <2>1, <2>10, OthersKeepTheirs
  <2> QED BY <2>6, <2>8, <2>9, <2>10
<1>3. CASE ChildEnds(t)
  <2>1. PICK next \in {"closed", "exited"} :
          /\ child[t].life \in {"running", "closed"}
          /\ child[t].left = 0
          /\ child' = [child EXCEPT ![t] = [child[t] EXCEPT !.life = next]]
    BY <1>3 DEF ChildEnds
  <2> DEFINE c == [child[t] EXCEPT !.life = next]
  <2>2. /\ c \in ChildType
        /\ c.life = next /\ c.output = child[t].output
        /\ c.left = child[t].left /\ c.pipe = child[t].pipe
    BY <1>1 DEF ChildType
  <2>3. child' \in [Tasks -> ChildType] /\ child'[t] = c
    BY <1>1, <2>1, <2>2
  <2> HIDE DEF c
  <2>4. TypeOK'
    BY <1>1, <2>3 DEF TypeOK
  <2>5. child[t] # NoChild
    BY <2>1 DEF NoChild
  <2>6. OutputIsKept(t)'
    BY <1>1, <2>1, <2>2, <2>3 DEF OutputIsKept, IsExec, ChildType
  <2>7. OnlyExecHasChild(t)'
    BY <1>1, <2>2, <2>3, <2>1, <2>5 DEF OnlyExecHasChild, IsExec
  <2>8. ASSUME NEW u \in Tasks, u # t
        PROVE  (OutputIsKept(u) /\ OnlyExecHasChild(u))'
    BY <1>1, <2>1, <2>8, OthersKeepTheirs
  <2> QED BY <2>4, <2>6, <2>7, <2>8
<1> QED BY <1>2, <1>3

(* A read() takes what it can of the pipe, and a buffer that is full grows. *)
LEMMA ReadInvariant ==
    ASSUME IInv, NEW t \in Tasks, ReadOutput(t)
    PROVE  IInv'
<1> USE DEF IInv
<1>1. /\ UNCHANGED <<use_async_resolver, tasks, phase, answer>>
      /\ child \in [Tasks -> ChildType]
      /\ ps \in [Tasks -> [length : Nat, size : Nat]]
      /\ phase[t] = "reading" /\ tasks \in Nat
  BY DEF ReadOutput, TypeOK
<1>2. PICK n \in 1..Room(t) :
        /\ n <= child[t].pipe
        /\ child' = [child EXCEPT ![t].pipe = @ - n]
        /\ ps' = [ps EXCEPT ![t] = Extended(Longer(ps[t], n))]
  BY DEF ReadOutput
<1> DEFINE c == [child[t] EXCEPT !.pipe = @ - n]
           q == Longer(ps[t], n)
           r == Extended(q)
<1>3. n \in Nat /\ n <= ps[t].size - ps[t].length
  BY <1>1, <1>2 DEF Room
<1>4. /\ c.life = child[t].life /\ c.output = child[t].output
      /\ c.left = child[t].left /\ c.pipe = child[t].pipe - n
      /\ c \in ChildType
  <2>1. child[t].pipe - n \in 0..MaxOutput
    BY <1>1, <1>2, <1>3, MaxOutputAssumption DEF ChildType
  <2> QED BY <1>1, <2>1 DEF ChildType
<1>5. /\ q \in [length : Nat, size : Nat]
      /\ q.length = ps[t].length + n /\ q.size = ps[t].size
      /\ q.length <= q.size /\ q.size > 0
  <2>1. ps[t].length + n \in Nat /\ ps[t].length + n <= ps[t].size
    BY <1>1, <1>3
  <2>2. ps[t].size > 0
    BY <1>1 DEF OutputIsKept
  <2> QED BY <1>1, <2>1, <2>2 DEF Longer
<1>6. /\ r \in [length : Nat, size : Nat]
      /\ r.length = q.length /\ r.length < r.size
  <2> HIDE DEF q
  <2>1. CASE q.length = q.size
    BY <1>5, <2>1 DEF Extended
  <2>2. CASE q.length # q.size
    BY <1>5, <2>2 DEF Extended
  <2> QED BY <2>1, <2>2
<1>7. /\ child' \in [Tasks -> ChildType] /\ child'[t] = c
      /\ ps' \in [Tasks -> [length : Nat, size : Nat]] /\ ps'[t] = r
  <2>1. child' = [child EXCEPT ![t] = c] /\ ps' = [ps EXCEPT ![t] = r]
    BY <1>2
  <2> HIDE DEF c, q, r
  <2> QED BY <1>1, <1>4, <1>6, <2>1
<1>8. child[t].life # "none"
  BY <1>1 DEF OnlyExecHasChild, IsExec
<1>9. ps'[t].length = ps[t].length + n
  BY <1>5, <1>6, <1>7
<1>10. ps'[t].length < ps'[t].size
  BY <1>6, <1>7
<1> HIDE DEF c, q, r
<1>11. TypeOK'
  BY <1>1, <1>7 DEF TypeOK
<1>12. OutputIsKept(t)'
  <2>1. ps'[t].length + c.pipe + c.left = c.output
    BY <1>1, <1>3, <1>4, <1>9, MaxOutputAssumption DEF OutputIsKept, ChildType
  <2> QED BY <1>1, <1>4, <1>7, <1>10, <2>1 DEF OutputIsKept, IsExec
<1>13. OnlyExecHasChild(t)'
  BY <1>1, <1>4, <1>7, <1>8 DEF OnlyExecHasChild, IsExec
<1>14. ASSUME NEW u \in Tasks, u # t
       PROVE  (OutputIsKept(u) /\ OnlyExecHasChild(u))'
  BY <1>1, <1>2, <1>14, OthersKeepTheirs
<1> QED BY <1>11, <1>12, <1>13, <1>14

(* The end of the pipe comes when the child has written everything and the *)
(* buffer holds it: a full buffer, which looks the same, never occurs.     *)
LEMMA EndInvariant ==
    ASSUME IInv, NEW t \in Tasks, ReadEnd(t)
    PROVE  IInv'
<1> USE DEF IInv
<1>1. /\ UNCHANGED <<use_async_resolver, tasks, child, ps>>
      /\ phase[t] = "reading" /\ tasks \in Nat
      /\ child[t] \in ChildType /\ ps[t] \in [length : Nat, size : Nat]
      /\ answer' = [answer EXCEPT ![t] =
                       [units |-> ps[t].length,
                        status |-> child[t].life = "exited"]]
  BY DEF ReadEnd, TypeOK
<1>2. [units |-> ps[t].length, status |-> child[t].life = "exited"]
         \in AnswerType
  BY <1>1 DEF AnswerType
<1>3. TypeOK'
  BY <1>1, <1>2 DEF TypeOK, ReadEnd, To, Phases
<1>4. phase'[t] = "told" /\ answer'[t].units = ps[t].length
  BY <1>1 DEF TypeOK, ReadEnd, To
<1>5. child[t].pipe = 0 /\ child[t].life \in {"closed", "exited"}
  <2>1. Room(t) # 0
    BY <1>1 DEF OutputIsKept, Room
  <2>2. child[t].life # "none"
    BY <1>1 DEF OnlyExecHasChild, IsExec
  <2> QED BY <1>1, <2>1, <2>2 DEF ReadEnd, AtEnd, ChildType
<1>6. child[t].left = 0
  BY <1>5 DEF OutputIsKept
<1>7. ps[t].length = child[t].output
  BY <1>1, <1>5, <1>6 DEF OutputIsKept
<1>8. OutputIsKept(t)'
  BY <1>1, <1>4, <1>7 DEF OutputIsKept
<1>9. OnlyExecHasChild(t)'
  BY <1>1, <1>4 DEF OnlyExecHasChild
<1>10. ASSUME NEW u \in Tasks, u # t
       PROVE  (OutputIsKept(u) /\ OnlyExecHasChild(u))'
  BY <1>1, <1>10, OthersKeepTheirs DEF ReadEnd, To, TypeOK
<1> QED BY <1>3, <1>8, <1>9, <1>10

LEMMA LookupInvariant ==
    ASSUME IInv, NEW t \in Tasks,
           HandlerGetHostByName(t) \/ OnDNSCompleted(t)
    PROVE  IInv'
<1> USE DEF IInv
<1>1. /\ UNCHANGED <<use_async_resolver, tasks, child, ps>>
      /\ phase[t] \in {"queued", "done", "failed"} /\ tasks \in Nat
  BY DEF HandlerGetHostByName, OnDNSCompleted, Completed, TypeOK
<1>2. PICK p \in {"done", "failed", "told"} : To(t, p)
  BY DEF HandlerGetHostByName, OnDNSCompleted
<1>3. phase' \in [Tasks -> Phases] /\ phase'[t] = p
  BY <1>2 DEF TypeOK, To, Phases
<1>4. answer' \in [Tasks -> AnswerType]
  BY DEF TypeOK, HandlerGetHostByName, OnDNSCompleted, AnswerType
<1>5. TypeOK'
  BY <1>1, <1>3, <1>4 DEF TypeOK
<1>6. child[t] = NoChild /\ ~IsExec(t)
  BY <1>1 DEF OnlyExecHasChild, NoChild, IsExec
<1>7. OutputIsKept(t)'
  BY <1>1, <1>6 DEF OutputIsKept, IsExec
<1>8. OnlyExecHasChild(t)'
  BY <1>1, <1>3, <1>6 DEF OnlyExecHasChild
<1>9. ASSUME NEW u \in Tasks, u # t
      PROVE  (OutputIsKept(u) /\ OnlyExecHasChild(u))'
  <2>1. phase'[u] = phase[u]
    BY <1>2, <1>9 DEF To, TypeOK
  <2>2. answer'[u] = answer[u]
    BY <1>9 DEF TypeOK, HandlerGetHostByName, OnDNSCompleted
  <2> QED BY <1>1, <1>9, <2>1, <2>2, OthersKeepTheirs
<1> QED BY <1>5, <1>7, <1>8, <1>9

LEMMA NextInvariant == IInv /\ [Next]_vars => IInv'
<1> SUFFICES ASSUME IInv, [Next]_vars PROVE IInv'
  OBVIOUS
<1>1. CASE UNCHANGED vars
  BY <1>1 DEF vars, IInv, TypeOK, OutputIsKept, OnlyExecHasChild, IsExec
<1>2. CASE Next
  <2> PICK t \in Tasks :
        \/ ExecRefused(t) \/ LookupRefused(t) \/ Lookup(t)
        \/ Exec(t)
        \/ ChildWrites(t) \/ ChildEnds(t)
        \/ HandlerGetHostByName(t) \/ OnDNSCompleted(t)
        \/ ReadOutput(t)
        \/ ReadEnd(t)
    BY <1>2 DEF Next, Outside, Handler
  <2>1. CASE ExecRefused(t) \/ LookupRefused(t) \/ Lookup(t)
    BY <2>1, CallInvariant DEF ExecRefused, LookupRefused, Lookup
  <2>2. CASE Exec(t)
    BY <2>2, ExecInvariant
  <2>3. CASE ChildWrites(t) \/ ChildEnds(t)
    BY <2>3, ChildInvariant
  <2>4. CASE HandlerGetHostByName(t) \/ OnDNSCompleted(t)
    BY <2>4, LookupInvariant
  <2>5. CASE ReadOutput(t)
    BY <2>5, ReadInvariant
  <2>6. CASE ReadEnd(t)
    BY <2>6, EndInvariant
  <2> QED BY <2>1, <2>2, <2>3, <2>4, <2>5, <2>6
<1> QED BY <1>1, <1>2

LEMMA Invariance == Spec => []IInv
BY InitInvariant, NextInvariant, PTL DEF Spec

(* Every variable keeps its type, for any number of calls: the counts of a *)
(* child stay within what it writes.                                       *)
THEOREM TypeCorrect == Spec => []TypeOK
<1>1. IInv => TypeOK
  BY DEF IInv
<1> QED BY <1>1, Invariance, PTL

(* Whatever a child writes reaches the callback of exec(), for any amount  *)
(* of output and any size of the buffer.                                   *)
THEOREM OutputReachesTheScript == Spec => []OutputIsComplete
<1>1. IInv => OutputIsComplete
  BY DEF IInv, OutputIsKept, OutputIsComplete
<1> QED BY <1>1, Invariance, PTL
=============================================================================
