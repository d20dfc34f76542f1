----------------------------- MODULE PipeReader -----------------------------
(***************************************************************************)
(* The reader task of a pipe: pipe_write_and_read_poster() of              *)
(* app/modules/pipe.c, which is both pipe:write() and the task that calls  *)
(* the Lua callback, over the task queue that luaL_posttask() posts to.    *)
(*                                                                         *)
(* What the pipe holds is abstracted to the number of its bytes (module    *)
(* PipeBuffer has the bytes).  Tasks run one at a time; the queue of the   *)
(* reader's priority is shared with other tasks and holds QueueLen events, *)
(* of which only the number matters here.                                  *)
(***************************************************************************)
EXTENDS Naturals

CONSTANTS QueueLen,   \* TASK_DEFAULT_QUEUE_LEN
          MaxOthers,  \* bound on the other tasks in the queue
          MaxLen,     \* bound on the bytes in the pipe
          MaxWrites,  \* bound on the writes of a behaviour
          CBWrites,   \* the Lua callback may itself write to the pipe
          Returns     \* what the Lua callback may return

ASSUME ReaderAssumption ==
  /\ QueueLen \in Nat \ {0} /\ MaxOthers \in Nat /\ MaxLen \in Nat
  /\ MaxWrites \in Nat
  /\ CBWrites \in BOOLEAN
  /\ Returns \subseteq {"true", "false", "nil"}

VARIABLES state,    \* the upvalue UVstate without its write flag
          updated,  \* its CB_WRITE_UPDATED flag
          entry,    \* that flag as the running task read it on entry
          progress, \* the running callback has read, or found nothing to read
          running,  \* the Lua callback runs
          len,      \* bytes in the pipe
          pending,  \* reader tasks in the queue
          others,   \* other tasks in the queue
          writes,   \* writes so far
          lost,     \* a post has failed since the task last ran (history)
          gaveUp    \* a post or the callback has failed, or the callback left
                    \* bytes it did not read or ask to read later (history)

vars == <<state, updated, entry, progress, running, len, pending, others,
          writes, lost, gaveUp>>

Init ==
  /\ state \in {"quiescent", "not_used"}  \* pipe.create() with or without callback
  /\ updated = FALSE
  /\ entry = FALSE /\ progress = FALSE /\ running = FALSE
  /\ len = 0 /\ pending = 0 /\ others = 0 /\ writes = 0
  /\ lost = FALSE /\ gaveUp = FALSE

-----------------------------------------------------------------------------
(* luaL_posttask: the post fails, with a Lua error, when the queue is full. *)

QueueFull == pending + others >= QueueLen

PostReader ==
  IF QueueFull THEN lost' = TRUE /\ UNCHANGED pending
               ELSE pending' = pending + 1 /\ UNCHANGED lost

(* pipe:write(), by any task or by the callback itself. *)

MayWrite == writes < MaxWrites /\ (running => CBWrites)

\* Fault model: every write raises the flag and posts.
FlagsEveryTime == state # "not_used"

\* The first write since the callback was called raises the flag ...
Flags == state # "not_used" /\ ~updated

\* Fault model: the task is posted only from within the callback.
PostGuardActive == state = "active"

\* ... and posts the task.  The code means to post only in the quiescent state,
\* but == binds tighter than | and the test is always true.
PostGuard == TRUE

Posts == Flags /\ PostGuard

Store(k) ==
  /\ MayWrite
  /\ len + k <= MaxLen
  /\ len' = len + k
  /\ writes' = writes + 1
  /\ UNCHANGED <<state, entry, progress, running, others>>

pipe_write(k) ==
  /\ Store(k)
  /\ Posts => ~QueueFull
  /\ updated' = (updated \/ Flags)
  /\ pending' = IF Posts THEN pending + 1 ELSE pending
  /\ UNCHANGED <<lost, gaveUp>>

\* The post fails after the flag was set: write() raises an error.
pipe_write_overflow(k) ==
  /\ Store(k)
  /\ Posts /\ QueueFull
  /\ updated' = TRUE
  /\ PostReader
  /\ gaveUp' = TRUE

\* pipe:read() by any task; when the callback reads it has made progress.
pipe_read_some(k) ==
  /\ k <= len
  /\ len' = len - k
  /\ progress' = (progress \/ running)
  /\ UNCHANGED <<state, updated, entry, running, pending, others, writes, lost,
                 gaveUp>>

-----------------------------------------------------------------------------
(* The reader task. *)

\* Fault model: the write flag is kept when the callback is called.
ReaderTaskKeepsFlag ==
  /\ ~running
  /\ pending > 0
  /\ pending' = pending - 1
  /\ entry' = updated
  /\ state' = "active"
  /\ running' = TRUE
  /\ progress' = (len = 0)
  /\ lost' = FALSE
  /\ UNCHANGED <<updated, len, others, writes, gaveUp>>

\* The state is read, then set to active only, and the Lua callback is called.
ReaderTask ==
  /\ ~running
  /\ pending > 0
  /\ pending' = pending - 1
  /\ entry' = updated
  /\ state' = "active" /\ updated' = FALSE
  /\ running' = TRUE
  /\ progress' = (len = 0)
  /\ lost' = FALSE
  /\ UNCHANGED <<len, others, writes, gaveUp>>

\* Fault model: true does not force a repost.
RepostIgnoringTrue(r) == r = "nil" /\ entry

\* A boolean decides, true only while the pipe is not empty; otherwise the flag
\* that was read on entry does.
Repost(r) == IF r = "nil" THEN entry ELSE r = "true" /\ len > 0

\* The callback returns: the state is overwritten, then the task reposted.
CBReturns(r) ==
  /\ running
  /\ running' = FALSE
  /\ state' = "quiescent" /\ updated' = Repost(r)
  /\ IF Repost(r) THEN PostReader ELSE UNCHANGED <<pending, lost>>
  /\ gaveUp' = (gaveUp \/ (Repost(r) /\ QueueFull)
                       \/ (len > 0 /\ (~progress \/ r = "false")))
  /\ UNCHANGED <<entry, progress, len, others, writes>>

\* An error in the callback is thrown through the task: the state stays as is.
CBFails ==
  /\ running
  /\ running' = FALSE
  /\ gaveUp' = TRUE
  /\ UNCHANGED <<state, updated, entry, progress, len, pending, others, writes, lost>>

-----------------------------------------------------------------------------
(* Other tasks of the same priority. *)

OtherPosted ==
  /\ others < MaxOthers /\ ~QueueFull
  /\ others' = others + 1
  /\ UNCHANGED <<state, updated, entry, progress, running, len, pending, writes, lost,
                 gaveUp>>

OtherTask ==
  /\ ~running
  /\ others > 0
  /\ others' = others - 1
  /\ UNCHANGED <<state, updated, entry, progress, running, len, pending, writes, lost,
                 gaveUp>>

Write == \E k \in 1..MaxLen : pipe_write(k) \/ pipe_write_overflow(k)

Next ==
  \/ Write
  \/ \E k \in 1..MaxLen : pipe_read_some(k)
  \/ ReaderTask
  \/ \E r \in Returns : CBReturns(r)
  \/ CBFails
  \/ OtherPosted \/ OtherTask

Spec == Init /\ [][Next]_vars

\* The queue is served in order, so a queued task is served in the end; the
\* callback returns or fails (the watchdog resets the chip otherwise).
Fairness ==
  /\ SF_vars(ReaderTask)
  /\ WF_vars(CBFails \/ \E r \in Returns : CBReturns(r))

FairSpec == Spec /\ Fairness

-----------------------------------------------------------------------------
FlagTypes ==
  /\ state \in {"not_used", "quiescent", "active"}
  /\ updated \in BOOLEAN /\ entry \in BOOLEAN /\ progress \in BOOLEAN
  /\ running \in BOOLEAN /\ lost \in BOOLEAN /\ gaveUp \in BOOLEAN

CounterTypes ==
  /\ len \in 0..MaxLen /\ writes \in 0..MaxWrites
  /\ pending \in Nat /\ others \in Nat
  /\ pending + others <= QueueLen

\* Every variable stays within its type, and the queue within its length.
TypeOK == FlagTypes /\ CounterTypes

\* No wake-up is lost, whatever the callback does: when the write flag keeps
\* further writes from posting the reader task, a reader task is in the queue,
\* unless the post that goes with the flag has failed on a full queue.
UpdatedMeansPending == ~running /\ updated /\ ~lost => pending > 0

\* pipe.c:28, "at most only one pending reader task is pending, and this
\* prevents overrun of the task queueing system".
AtMostOnePending == pending <= 1

\* A write whose post succeeded is followed by a call of the callback.
WriteWakesReader == (updated /\ ~lost) ~> running

\* The pipe of a callback that reads something each time it is called, does
\* not fail and does not return false over unread bytes, is empty in the end.
EventuallyDrained == state # "not_used" => <>gaveUp \/ <>[](len = 0)
=============================================================================
