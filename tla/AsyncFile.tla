----------------------------- MODULE AsyncFile -----------------------------
(***************************************************************************)
(* The asynchronous file functions of swoole_async.cc: swoole_async_write, *)
(* swoole_async_writefile, swoole_async_read and swoole_async_readfile.    *)
(*                                                                         *)
(* The script's thread opens a descriptor and hands a request to a pool of *)
(* worker threads; a worker calls pread() or pwrite(); the reactor of the  *)
(* script's thread then runs aio_onFileCompleted, which calls the user     *)
(* callback and frees, continues or closes.  Requests run on any worker,   *)
(* in any order.  All swoole_async_write calls on one file share one       *)
(* descriptor, counted in open_write_files.                                *)
(*                                                                         *)
(* The file system and the descriptor table of the process (disk, fds) and *)
(* the worker pool are external.  Data is counted in units, and only       *)
(* counted: a file is its size, and a write writes one unit.               *)
(***************************************************************************)
EXTENDS Integers, Sequences, FiniteSets, FiniteSetsExt,
        Functions

CONSTANTS
    Files,
    NoFile,        \* what a closed descriptor refers to
    MaxFd,         \* bound: descriptors the process may hold
    MaxRequests,   \* bound: calls of the script
    Offsets,       \* the offsets the script passes
    Sizes,         \* sizes of the files before the first call
    Chunk,         \* buf_size of swoole_async_read
    Calls,         \* the functions the script calls
    Env            \* the behaviours its surroundings may show

Behaviours == {
    "ioFails",         \* pread() or pwrite() fails
    "flockFails",      \* event->lock, which no caller sets, makes flock fail
    "dispatchFails",   \* the pool takes no request
    "callbackFails",   \* the callback cannot be called
    "keepsOpen" }      \* a write callback that returns something but false

Functions == {"write", "writefile", "read", "readfile"}

ASSUME FileAssumption ==
    /\ NoFile \notin Files
    /\ MaxFd \in Nat \ {0}
    /\ MaxRequests \in Nat
    /\ Offsets \subseteq Int
    /\ Sizes \subseteq Nat
    /\ Chunk \in Nat \ {0}
    /\ Calls \subseteq Functions
    /\ Env \subseteq Behaviours

VARIABLES
    disk,            \* size of each file
    fds,             \* descriptor table of the process
    openWriteFiles,  \* open_write_files: descriptor and count of a file
    request,         \* the file_request and AsyncEvent of each call, and
                     \* heard: the chunks its callback was given so far
    running,         \* the request whose callback runs, or 0
    issued           \* calls so far

vars == <<disk, fds, openWriteFiles, request, running, issued>>

Requests == 1..MaxRequests
Fds == 1..MaxFd
Closed == [file |-> NoFile, append |-> FALSE]

Phases == {"none", "queued", "done", "callback", "ended", "lost"}

NoRequest == [call |-> "none", file |-> NoFile, fd |-> 0, start |-> 0,
              offset |-> 0, nbytes |-> 0, phase |-> "none", ret |-> 0,
              heard |-> <<>>]

(* Where a chunk was in the file, and its length.                          *)
Chunks == [from : Nat, length : Nat]

RequestType ==
    [call : Functions \cup {"none"}, file : Files \cup {NoFile},
     fd : {0} \cup Fds, start : Nat, offset : Nat, nbytes : Nat,
     phase : Phases, ret : Int, heard : Seq(Chunks)]

TypeOK ==
    /\ disk \in [Files -> Nat]
    /\ fds \in [Fds -> {Closed} \cup [file : Files, append : BOOLEAN]]
    /\ openWriteFiles \in [Files -> [fd : {0} \cup Fds, refcount : Nat]]
    /\ request \in [Requests -> RequestType]
    /\ running \in {0} \cup Requests
    /\ issued \in 0..MaxRequests

Init ==
    /\ disk \in [Files -> Sizes]
    /\ fds = [d \in Fds |-> Closed]
    /\ openWriteFiles = [f \in Files |-> [fd |-> 0, refcount |-> 0]]
    /\ request = [r \in Requests |-> NoRequest]
    /\ running = 0
    /\ issued = 0

-----------------------------------------------------------------------------
(* The kernel and the pool.                                                *)

FreeFds == {d \in Fds : fds[d] = Closed}

NewFd == Min(FreeFds)

(* pwrite() of one unit; a descriptor opened with O_APPEND ignores the     *)
(* offset.                                                                 *)
SizeAfter(size, append, offset) ==
    IF append THEN size + 1 ELSE Max({size, offset + 1})

(* What pread() returns. *)
Available(size, offset, nbytes) ==
    IF offset >= size THEN 0 ELSE Min({nbytes, size - offset})

-----------------------------------------------------------------------------
(* The calls of the script, between two events or in a callback.           *)

IsWrite(r) == request[r].call \in {"write", "writefile"}

(* Between dispatch() and the end of aio_onFileCompleted.                  *)
Outstanding(r) == request[r].phase \in {"queued", "done", "callback"}

Accept(r, call) ==
    /\ call \in Calls
    /\ issued < MaxRequests
    /\ r = issued + 1
    /\ issued' = r
    /\ UNCHANGED running

(* php_swoole_file_request_free; a request that is lost stays allocated,   *)
(* and nothing refers to it any more.                                      *)
Over(r, phase) ==
    request' = [request EXCEPT ![r] = [NoRequest EXCEPT !.phase = phase]]

(* swoole::async::dispatch.  A call whose request the pool does not take   *)
(* returns false and gives nothing back that it took.                      *)
Dispatch(r, call, f, fd, offset, nbytes) ==
    \/ request' = [request EXCEPT ![r] =
           [call |-> call, file |-> f, fd |-> fd, start |-> offset,
            offset |-> offset, nbytes |-> nbytes, phase |-> "queued",
            ret |-> 0, heard |-> <<>>]]
    \/ "dispatchFails" \in Env /\ Over(r, "lost")

(* A negative offset is replaced before it can select O_APPEND.            *)
Clamped(offset) == IF offset < 0 THEN 0 ELSE offset

(* Faulty variant: a call that reuses a descriptor is not counted.         *)
CountedBug(f) == openWriteFiles[f]

Counted(f) == [openWriteFiles[f] EXCEPT !.refcount = @ + 1]

AsyncWrite(r, f, asked) ==
    LET offset == Clamped(asked) IN
    /\ Accept(r, "write")
    /\ \/ /\ openWriteFiles[f].refcount = 0
          /\ FreeFds # {}
          /\ fds' = [fds EXCEPT ![NewFd] =
                        [file |-> f, append |-> offset < 0]]
          /\ openWriteFiles' = [openWriteFiles EXCEPT ![f] =
                                    [fd |-> NewFd, refcount |-> 1]]
       \/ /\ openWriteFiles[f].refcount > 0
          /\ openWriteFiles' = [openWriteFiles EXCEPT ![f] = Counted(f)]
          /\ UNCHANGED fds
    /\ Dispatch(r, "write", f, openWriteFiles'[f].fd, offset, 1)
    /\ UNCHANGED disk

(* The file is truncated by the call, not by the worker.                   *)
AsyncWriteFile(r, f, append) ==
    /\ Accept(r, "writefile")
    /\ FreeFds # {}
    /\ fds' = [fds EXCEPT ![NewFd] = [file |-> f, append |-> append]]
    /\ disk' = IF append THEN disk ELSE [disk EXCEPT ![f] = 0]
    /\ Dispatch(r, "writefile", f, NewFd, 0, 1)
    /\ UNCHANGED openWriteFiles

AsyncRead(r, f, offset) ==
    /\ Accept(r, "read")
    /\ FreeFds # {}
    /\ offset >= 0 /\ offset < disk[f]
    /\ fds' = [fds EXCEPT ![NewFd] = [file |-> f, append |-> FALSE]]
    /\ Dispatch(r, "read", f, NewFd, offset, Chunk)
    /\ UNCHANGED <<disk, openWriteFiles>>

AsyncReadFile(r, f) ==
    /\ Accept(r, "readfile")
    /\ FreeFds # {}
    /\ disk[f] > 0
    /\ fds' = [fds EXCEPT ![NewFd] = [file |-> f, append |-> FALSE]]
    /\ Dispatch(r, "readfile", f, NewFd, 0, disk[f])
    /\ UNCHANGED <<disk, openWriteFiles>>

Call ==
    \E r \in Requests, f \in Files :
        \/ \E asked \in Offsets : AsyncWrite(r, f, asked)
        \/ \E append \in BOOLEAN : AsyncWriteFile(r, f, append)
        \/ \E offset \in Offsets : AsyncRead(r, f, offset)
        \/ AsyncReadFile(r, f)

-----------------------------------------------------------------------------
(* The workers.                                                            *)

Performed(r, ret) ==
    request' = [request EXCEPT ![r].phase = "done", ![r].ret = ret]

HandlerRead(r) ==
    LET d == fds[request[r].fd] IN
    /\ request[r].phase = "queued" /\ ~IsWrite(r)
    /\ \/ /\ d # Closed
          /\ Performed(r, Available(disk[d.file], request[r].offset,
                                     request[r].nbytes))
       \/ /\ d = Closed \/ Env \cap {"ioFails", "flockFails"} # {}
          /\ Performed(r, -1)
    /\ UNCHANGED <<disk, fds, openWriteFiles, running, issued>>

(* Without the lock handler_write returns before it sets retval: the       *)
(* script is told whatever the event held.                                 *)
HandlerWrite(r) ==
    LET d == fds[request[r].fd] IN
    /\ request[r].phase = "queued" /\ IsWrite(r)
    /\ \/ /\ d # Closed
          /\ disk' = [disk EXCEPT ![d.file] =
                         SizeAfter(@, d.append, request[r].offset)]
          /\ Performed(r, 1)
       \/ /\ d = Closed \/ "ioFails" \in Env
          /\ Performed(r, -1)
          /\ UNCHANGED disk
       \/ /\ "flockFails" \in Env
          /\ \E ret \in {-1, 0, 1} : Performed(r, ret)
          /\ UNCHANGED disk
    /\ UNCHANGED <<fds, openWriteFiles, running, issued>>

Worker == \E r \in Requests : HandlerRead(r) \/ HandlerWrite(r)

-----------------------------------------------------------------------------
(* aio_onFileCompleted on the script's thread.                             *)

(* Faulty variants: an error moves the request too; it moves by the length *)
(* it asked for.                                                           *)
AdvancedBugError(r) == request[r].offset + request[r].ret

AdvancedBugLength(r) == request[r].offset + request[r].nbytes

(* The request moves on behind what it read.  readfile advances too when   *)
(* it got everything it asked for.                                         *)
Advanced(r) ==
    IF /\ ~IsWrite(r) /\ request[r].ret > 0
       /\ request[r].call = "readfile" => request[r].ret = request[r].nbytes
    THEN request[r].offset + request[r].ret
    ELSE request[r].offset

(* The callback is given the chunk at the offset of the request.           *)
Hears(r, length) ==
    Append(request[r].heard, [from |-> request[r].offset, length |-> length])

(* The handler up to the user callback.  A write without a callback is one *)
(* whose callback does nothing and returns null.                           *)
Complete(r) ==
    /\ running = 0
    /\ request[r].phase = "done"
    /\ \/ /\ request' = [request EXCEPT
                 ![r].phase = "callback",
                 ![r].offset = Advanced(r),
                 ![r].heard = Hears(r, Max({0, request[r].ret}))]
          /\ running' = r
       \/ /\ "callbackFails" \in Env
          /\ Over(r, "lost")
          /\ UNCHANGED running
    /\ UNCHANGED <<disk, fds, openWriteFiles, issued>>

(* Faulty variant: the entry stays when the descriptor is closed.          *)
ReleasedBug(entry) == [entry EXCEPT !.refcount = IF @ > 1 THEN @ - 1 ELSE 1]

Released(entry) ==
    IF entry.refcount = 1 THEN [fd |-> 0, refcount |-> 0]
                          ELSE [entry EXCEPT !.refcount = @ - 1]

(* Faulty variants: the descriptor is closed whoever else uses it; the     *)
(* count is compared before it is decremented.                             *)
LastUserBugOthers(r) == TRUE

LastUserBugBefore(r) ==
    request[r].call = "write" => openWriteFiles[request[r].file].refcount = 0

LastUser(r) ==
    request[r].call = "write" => openWriteFiles[request[r].file].refcount = 1

(* The label close_file.                                                   *)
CloseFile(r) ==
    /\ openWriteFiles' =
          IF request[r].call = "write"
          THEN [openWriteFiles EXCEPT ![request[r].file] = Released(@)]
          ELSE openWriteFiles
    /\ fds' = IF LastUser(r) THEN [fds EXCEPT ![request[r].fd] = Closed]
                             ELSE fds
    /\ Over(r, "ended")

(* Faulty variant: the end of the file is not looked at.                   *)
ReadsOnBug(r, stop) == request[r].call = "read" /\ ~stop

(* The callback of a read asks to go on and the file goes on.              *)
ReadsOn(r, stop) ==
    request[r].call = "read" /\ ~stop /\ request[r].ret # 0

(* Faulty variant: the branch for req->once = 1 is missing.                *)
FinishesBug(r, stop) ==
    \/ request[r].call = "write" /\ stop
    \/ request[r].call = "read" /\ ~ReadsOn(r, stop)

Finishes(r, stop) ==
    \/ request[r].call \in {"readfile", "writefile"}
    \/ request[r].call = "write" /\ stop
    \/ request[r].call = "read" /\ ~ReadsOn(r, stop)

(* The handler behind the callback; stop: the callback returned false.     *)
ReturnAndClose(r, stop) ==
    /\ running = r
    /\ Finishes(r, stop)
    /\ CloseFile(r)
    /\ running' = 0
    /\ UNCHANGED <<disk, issued>>

(* A write callback that returns anything else leaves the descriptor to    *)
(* the calls that follow.                                                  *)
ReturnAndKeep(r) ==
    /\ "keepsOpen" \in Env
    /\ running = r
    /\ request[r].call = "write"
    /\ Over(r, "ended")
    /\ running' = 0
    /\ UNCHANGED <<disk, fds, openWriteFiles, issued>>

ShortRead(r) == request[r].ret < request[r].nbytes

(* Behind a chunk that was not full (or an error) the handler calls itself *)
(* for the end of the file.                                                *)
ReturnAndRepeat(r) ==
    /\ running = r
    /\ ReadsOn(r, FALSE)
    /\ ShortRead(r)
    /\ request' = [request EXCEPT ![r].ret = 0,
                                  ![r].heard = Hears(r, 0)]
    /\ UNCHANGED <<disk, fds, openWriteFiles, running, issued>>

ReturnAndContinue(r) ==
    /\ running = r
    /\ ReadsOn(r, FALSE)
    /\ ~ShortRead(r)
    /\ \/ /\ request' = [request EXCEPT ![r].phase = "queued"]
          /\ UNCHANGED <<fds, openWriteFiles>>
       \/ "dispatchFails" \in Env /\ CloseFile(r)
    /\ running' = 0
    /\ UNCHANGED <<disk, issued>>

Return ==
    \E r \in Requests :
        \/ \E stop \in BOOLEAN : ReturnAndClose(r, stop)
        \/ ReturnAndKeep(r)
        \/ ReturnAndRepeat(r)
        \/ ReturnAndContinue(r)

Next ==
    \/ Call
    \/ Worker
    \/ \E r \in Requests : Complete(r)
    \/ Return

Spec == Init /\ [][Next]_vars

(* Every worker and the reactor go on, and callbacks return.               *)
Fairness ==
    /\ \A r \in Requests :
          /\ WF_vars(HandlerRead(r) \/ HandlerWrite(r))
          /\ WF_vars(Complete(r))
    /\ WF_vars(Return)

FairSpec == Spec /\ Fairness

-----------------------------------------------------------------------------
(* Safety.                                                                 *)

Writers(f) == {r \in Requests : /\ request[r].call = "write"
                                /\ request[r].file = f
                                /\ Outstanding(r)}

IsOpenOn(d, f) == d \in Fds /\ fds[d] # Closed /\ fds[d].file = f

(* The descriptor of a request is open on the file of its call until the   *)
(* request ends: no worker reads or writes a descriptor that another       *)
(* request closed, or that the kernel gave to another file since.          *)
DescriptorIsTheirs ==
    \A r \in Requests : Outstanding(r) =>
        IsOpenOn(request[r].fd, request[r].file)

(* Two requests under way share a descriptor only when both are writes     *)
(* that open_write_files counts.                                           *)
DescriptorIsShared ==
    \A r, s \in Requests :
        /\ r # s
        /\ Outstanding(r) /\ Outstanding(s)
        /\ request[r].fd = request[s].fd
        => /\ request[r].call = "write" /\ request[s].call = "write"
           /\ openWriteFiles[request[r].file].refcount >= 2

(* open_write_files counts every write under way, and its descriptor is    *)
(* open on its file.                                                       *)
WritesAreCounted ==
    \A f \in Files :
        /\ Cardinality(Writers(f)) <= openWriteFiles[f].refcount
        /\ openWriteFiles[f].refcount > 0 =>
              IsOpenOn(openWriteFiles[f].fd, f)

(* When every request ended, every descriptor is closed again (the         *)
(* callbacks of writes return false, as those of tests/swoole_async/       *)
(* ref.phpt do).                                                           *)
DescriptorsAreReleased ==
    (\A r \in Requests : ~Outstanding(r)) =>
        /\ FreeFds = Fds
        /\ \A f \in Files : openWriteFiles[f].refcount = 0

(* A read that the script never stops gets the end of the file as its last *)
(* chunk, once, whatever it got before: nothing follows an empty chunk.    *)
NothingFollowsTheEnd ==
    \A r \in Requests : request[r].call = "read" =>
        \A i \in 1..(Len(request[r].heard) - 1) :
            request[r].heard[i].length # 0

(* Where the first i chunks of a request end.                              *)
Reached(r, i) ==
    IF i = 0 THEN request[r].start
    ELSE request[r].heard[i].from + request[r].heard[i].length

Contiguous(r) ==
    /\ \A i \in 1..Len(request[r].heard) :
          request[r].heard[i].from = Reached(r, i - 1)
    /\ request[r].offset = Reached(r, Len(request[r].heard))

(* The chunks of a read follow each other in the file: the first starts at *)
(* the offset of the call, each other one where the one before it ended,   *)
(* and the request goes on behind the last.                                *)
ChunksAreContiguous ==
    \A r \in Requests : request[r].call = "read" => Contiguous(r)

-----------------------------------------------------------------------------
(* The inductive invariant behind the safety properties.                   *)

(* A write under way uses the descriptor of its file's entry.              *)
WritersShare ==
    \A r \in Requests : Outstanding(r) /\ request[r].call = "write" =>
        /\ request[r].file \in Files
        /\ request[r].fd = openWriteFiles[request[r].file].fd

(* Any other request has a descriptor of its own: no second request and no *)
(* entry of open_write_files refers to it.                                 *)
OthersAreAlone ==
    \A r \in Requests : Outstanding(r) /\ request[r].call # "write" =>
        /\ IsOpenOn(request[r].fd, request[r].file)
        /\ \A s \in Requests \ {r} :
              Outstanding(s) => request[s].fd # request[r].fd
        /\ \A f \in Files : openWriteFiles[f].refcount > 0 =>
              openWriteFiles[f].fd # request[r].fd

(* The callback that runs is that of a request under way, and requests     *)
(* under way are those of calls.                                           *)
RunningIsOutstanding ==
    /\ running # 0 => Outstanding(running)
    /\ \A r \in Requests : Outstanding(r) => r <= issued

IInv ==
    /\ WritesAreCounted
    /\ WritersShare
    /\ OthersAreAlone
    /\ RunningIsOutstanding

(* When nothing is lost and callbacks of writes return false, an open      *)
(* descriptor is that of a request under way, and open_write_files counts  *)
(* nothing else than the writes under way.                                 *)
DescriptorsAreUsed ==
    /\ \A d \in Fds : fds[d] # Closed =>
          \E r \in Requests : Outstanding(r) /\ request[r].fd = d
    /\ \A f \in Files : openWriteFiles[f].refcount <= Cardinality(Writers(f))

(* When reading does not fail, the only chunk of a read that may be empty  *)
(* is the one its callback is given, and then the handler knows: ret is 0. *)
EndsOnce(r) ==
    LET heard == request[r].heard IN
    /\ request[r].ret >= 0
    /\ \A i \in 1..Len(heard) : heard[i].length = 0 =>
          i = Len(heard) /\ request[r].phase = "callback"
                         /\ request[r].ret = 0

EndIsLast ==
    \A r \in Requests : request[r].call = "read" => EndsOnce(r)

-----------------------------------------------------------------------------
(* Liveness.                                                               *)

(* Every request the pool takes ends: the script hears of it, and a read   *)
(* comes to the end of its file or is stopped.                             *)
EveryRequestEnds ==
    \A r \in Requests :
        request[r].phase = "queued" ~> request[r].phase = "ended"

-----------------------------------------------------------------------------
(* tests/swoole_async/fd.phpt:22 (close.phpt:23, ref.phpt:22): the file    *)
(* holds what writes without an offset wrote, one behind the other.        *)
AppendsConcatenate ==
    /\ Calls = {"write"} /\ Offsets = {-1}
    /\ \A r \in 1..issued : request[r].phase = "ended"
    => SumFunction(disk) >= issued
=============================================================================
