--------------------------- MODULE CniConnection ---------------------------
(***************************************************************************)
(* One direct TCP connection to a C-Bus CNI: class CbusCniConnection of    *)
(* protocol.py, with the asyncio tasks that run it.                        *)
(*                                                                         *)
(* Four kinds of task share the object on one event loop.  A task runs     *)
(* without interruption between two awaits that suspend it, so a step of   *)
(* the model is one such stretch of code:                                  *)
(*   - the run task (_run): connect, initialise, read, close, sleep, retry *)
(*   - the callers of send_level, one command each                         *)
(*   - stop(), called once by the runtime that owns the connection         *)
(*   - pause(), which nothing in this repository calls yet                 *)
(* The environment is the CNI and TCP: it answers commands, closes or      *)
(* resets the connection, or says nothing.                                 *)
(*                                                                         *)
(* Abstracted: the bytes of a command (its confirmation tag is kept), the  *)
(* lighting events a read yields, the length of every delay (a timer may   *)
(* fire at any moment, except where SleepOver says), last_error.           *)
(***************************************************************************)
EXTENDS Integers, FiniteSets

CONSTANTS
  Callers,    \* tasks that call send_level, each at most one call at a time
  TagCount,   \* len(self._confirmation_codes): 17 in the code
  Sockets,    \* TCP connections; one may be reused once it is gone
  None,       \* the absent caller, socket or tag
  Timely,     \* TRUE: no call is cancelled, and an answer that has not come
              \*       within the 5 s of wait_for never comes
  Pausing     \* TRUE: pause() and resume() are used

ASSUME CallersAssumption  == IsFiniteSet(Callers) /\ None \notin Callers
ASSUME TagCountAssumption == TagCount \in Nat \ {0}
ASSUME NoneAssumption     == None \notin Sockets /\ None \notin 0 .. TagCount - 1
ASSUME SwitchAssumption   == Timely \in BOOLEAN /\ Pausing \in BOOLEAN

Tags    == 0 .. TagCount - 1            \* positions in "jklmnopqrstuvwxyz"
Closers == {"run", "stop", "pause"}     \* the tasks that call _close()

VARIABLES
  sock,       \* TCP as asyncio sees it: "free", "open", "eof" (the CNI closed
              \* its side), "closing" (close() called, not yet lost)
  owed,       \* per socket, the <<tag, caller>> of commands the CNI has not
              \* answered; caller None: the call has ended meanwhile
  connected,  \* self._connected
  writer,     \* self._writer (and self._reader: they are set together)
  conf,       \* self._confirmations: tag -> the call whose future it holds
  cursor,     \* self._confirmation_chars: the tag itertools.cycle yields next
  slots,      \* value of the semaphore self._confirmation_slots
  lock,       \* holder of self._write_lock
  paused,     \* self._paused_until is in the future
  run,        \* where the run task stands
  rsock,      \* the socket whose StreamReader the run task reads
  cancelling, \* stop() has cancelled the run task, which has not resumed yet
  closer,     \* the socket a task awaits in wait_closed() inside _close()
  stopper,    \* where stop() stands
  pc,         \* where a send_level call stands
  tag,        \* its local variable confirmation
  fut,        \* its future
  csock,      \* the socket it wrote to
  verdict,    \* history: what the CNI answered to this very command
  ret         \* history: what the last call of this caller reported

linkVars   == <<sock, owed>>
runVars    == <<run, rsock, cancelling>>
callVars   == <<pc, tag, csock, ret>>
vars == <<sock, owed, connected, writer, conf, cursor, slots, lock, paused, run,
          rsock, cancelling, closer, stopper, pc, tag, fut, csock, verdict, ret>>

TypeOK ==
  /\ sock \in [Sockets -> {"free", "open", "eof", "closing"}]
  /\ owed \in [Sockets -> SUBSET (Tags \X (Callers \cup {None}))]
  /\ connected \in BOOLEAN
  /\ writer \in Sockets \cup {None}
  /\ conf \in [Tags -> Callers \cup {None}]
  /\ cursor \in Tags
  /\ slots \in 0 .. TagCount
  /\ lock \in Callers \cup {None}
  /\ paused \in BOOLEAN
  /\ run \in {"none", "begin", "opening", "init", "reading", "closing", "sleep", "done"}
  /\ rsock \in Sockets \cup {None}
  /\ cancelling \in BOOLEAN
  /\ closer \in [Closers -> Sockets \cup {None}]
  /\ stopper \in {"idle", "closing", "joining", "done"}
  /\ pc \in [Callers -> {"idle", "slot", "lock", "drain", "reply"}]
  /\ tag \in [Callers -> Tags \cup {None}]
  /\ fut \in [Callers -> {"none", "pending", "ok", "rejected", "closed"}]
  /\ csock \in [Callers -> Sockets \cup {None}]
  /\ verdict \in [Callers -> {"none", "accepted", "rejected"}]
  /\ ret \in [Callers -> {"none", "ok", "error"}]

Init ==
  /\ sock = [k \in Sockets |-> "free"]
  /\ owed = [k \in Sockets |-> {}]
  /\ connected = FALSE
  /\ writer = None
  /\ conf = [t \in Tags |-> None]
  /\ cursor = 0
  /\ slots = TagCount
  /\ lock = None
  /\ paused = FALSE
  /\ run = "none"
  /\ rsock = None
  /\ cancelling = FALSE
  /\ closer = [c \in Closers |-> None]
  /\ stopper = "idle"
  /\ pc = [s \in Callers |-> "idle"]
  /\ tag = [s \in Callers |-> None]
  /\ fut = [s \in Callers |-> "none"]
  /\ csock = [s \in Callers |-> None]
  /\ verdict = [s \in Callers |-> "none"]
  /\ ret = [s \in Callers |-> "none"]

-----------------------------------------------------------------------------
(* _close(), shared by the run task, stop() and pause().                   *)

\* Mutant: the table is emptied, but nobody is told.
FailConfirmationsSilently == conf' = [t \in Tags |-> None] /\ UNCHANGED fut

\* Mutant: the futures are left to their timeout.
FailNoConfirmation == UNCHANGED <<conf, fut>>

\* The end of _close(): every future still registered and pending gets a
\* ConnectionError, and the table is emptied.
FailConfirmations ==
  /\ fut' = [s \in Callers |->
               IF fut[s] = "pending" /\ \E t \in Tags : conf[t] = s
               THEN "closed" ELSE fut[s]]
  /\ conf' = [t \in Tags |-> None]

\* await writer.wait_closed() suspends unless there is no writer to close or
\* its transport is already gone.
MustWaitClosed == writer # None /\ sock[writer] # "free"

\* _close() called by c, up to its first suspension or to its end.
Close(c) ==
  /\ connected' = FALSE
  /\ writer' = None
  /\ \/ /\ MustWaitClosed
        /\ sock' = [sock EXCEPT ![writer] = "closing"]
        /\ closer' = [closer EXCEPT ![c] = writer]
        /\ UNCHANGED <<conf, fut>>
     \/ /\ ~MustWaitClosed
        /\ FailConfirmations
        /\ UNCHANGED <<sock, closer>>

\* The transport c waits for is gone: _close() resumes and ends.
TransportGone(c) == closer[c] # None /\ sock[closer[c]] = "free"

CloseResumes(c) ==
  /\ TransportGone(c)
  /\ closer' = [closer EXCEPT ![c] = None]
  /\ FailConfirmations

-----------------------------------------------------------------------------
(* send_level(): slot, write lock, tag, write, drain, reply.               *)

CommandReady == writer # None /\ connected

\* async_set_level refuses a call while the connection is down; otherwise the
\* call begins by waiting for one of the TagCount slots.
Call(s) ==
  /\ pc[s] = "idle"
  /\ connected
  /\ pc' = [pc EXCEPT ![s] = "slot"]
  /\ ret' = [ret EXCEPT ![s] = "none"]
  /\ verdict' = [verdict EXCEPT ![s] = "none"]
  /\ UNCHANGED <<linkVars, runVars, connected, writer, conf, cursor, slots, lock,
                 paused, closer, stopper, tag, fut, csock>>

\* Mutant: nothing limits the calls in flight.
AcquireSlotUnlimited(s) ==
  /\ pc[s] = "slot"
  /\ slots' = IF slots > 0 THEN slots - 1 ELSE 0
  /\ pc' = [pc EXCEPT ![s] = "lock"]
  /\ UNCHANGED <<linkVars, runVars, connected, writer, conf, cursor, lock, paused,
                 closer, stopper, tag, fut, csock, verdict, ret>>

AcquireSlot(s) ==
  /\ pc[s] = "slot"
  /\ slots > 0
  /\ slots' = slots - 1
  /\ pc' = [pc EXCEPT ![s] = "lock"]
  /\ UNCHANGED <<linkVars, runVars, connected, writer, conf, cursor, lock, paused,
                 closer, stopper, tag, fut, csock, verdict, ret>>

\* Mutant: tags are taken in turn, in flight or not.
TagsInTurn == Tags

FreeTags == {t \in Tags : conf[t] = None}

\* How many tags the cycle yields before it yields t.
Draws(t) == (t - cursor + TagCount) % TagCount

\* The tag _allocate_confirmation returns: the first one drawn that is free.
IsNextTag(t) == t \in FreeTags /\ \A u \in FreeTags : Draws(t) <= Draws(u)

\* With the write lock held: allocate a tag, register a future under it and
\* write the command.  A CNI that has closed its side will not answer.
WriteCommand(s) ==
  /\ pc[s] = "lock"
  /\ lock = None
  /\ CommandReady
  /\ \E t \in Tags :
       /\ IsNextTag(t)
       /\ cursor' = (t + 1) % TagCount
       /\ conf' = [conf EXCEPT ![t] = s]
       /\ tag' = [tag EXCEPT ![s] = t]
       /\ owed' = [owed EXCEPT ![writer] =
                     IF sock[writer] = "open" THEN @ \cup {<<t, s>>} ELSE @]
  /\ fut' = [fut EXCEPT ![s] = "pending"]
  /\ csock' = [csock EXCEPT ![s] = writer]
  /\ lock' = s
  /\ pc' = [pc EXCEPT ![s] = "drain"]
  /\ UNCHANGED <<sock, runVars, connected, writer, slots, paused, closer, stopper,
                 verdict, ret>>

\* The finally clause of send_level: pop the tag, release the slot.  What the
\* CNI still owes for the command has no call waiting for it any more.
Leave(s, outcome) ==
  /\ conf' = [t \in Tags |-> IF t = tag[s] THEN None ELSE conf[t]]
  /\ slots' = slots + 1
  /\ pc' = [pc EXCEPT ![s] = "idle"]
  /\ tag' = [tag EXCEPT ![s] = None]
  /\ fut' = [fut EXCEPT ![s] = "none"]
  /\ csock' = [csock EXCEPT ![s] = None]
  /\ ret' = [ret EXCEPT ![s] = outcome]
  /\ owed' = [k \in Sockets |->
                {o \in owed[k] : o[2] # s} \cup
                {<<o[1], None>> : o \in {p \in owed[k] : p[2] = s /\ ~Timely}}]
  /\ UNCHANGED <<sock, runVars, connected, writer, cursor, paused, closer, stopper,
                 verdict>>

\* Mutant: the connection is checked before the try block.
WriteRefusedEarly(s) ==
  /\ pc[s] = "lock"
  /\ lock = None
  /\ ~CommandReady
  /\ pc' = [pc EXCEPT ![s] = "idle"]
  /\ ret' = [ret EXCEPT ![s] = "error"]
  /\ UNCHANGED <<linkVars, runVars, connected, writer, conf, cursor, slots, lock,
                 paused, closer, stopper, tag, fut, csock, verdict>>

\* The connection went down while the call waited for a slot or for the lock.
WriteRefused(s) ==
  /\ pc[s] = "lock"
  /\ lock = None
  /\ ~CommandReady
  /\ Leave(s, "error")
  /\ UNCHANGED lock

\* Mutant: the result of the confirmation is not looked at.
OutcomeUnchecked(s) == IF fut[s] \in {"ok", "rejected"} THEN "ok" ELSE "error"

\* What send_level makes of a resolved future.
Outcome(s) == IF fut[s] = "ok" THEN "ok" ELSE "error"

\* drain() returns and the write lock is released; wait_for waits.
DrainDone(s) ==
  /\ pc[s] = "drain"
  /\ sock[csock[s]] # "free"
  /\ fut[s] = "pending"
  /\ lock' = None
  /\ pc' = [pc EXCEPT ![s] = "reply"]
  /\ UNCHANGED <<linkVars, runVars, connected, writer, conf, cursor, slots, paused,
                 closer, stopper, tag, fut, csock, verdict, ret>>

\* The future was resolved during drain(): wait_for does not suspend.
DrainReplied(s) ==
  /\ pc[s] = "drain"
  /\ sock[csock[s]] # "free"
  /\ fut[s] # "pending"
  /\ Leave(s, Outcome(s))
  /\ lock' = None

\* drain() raises: the transport is gone.
DrainLost(s) ==
  /\ pc[s] = "drain"
  /\ sock[csock[s]] = "free"
  /\ Leave(s, "error")
  /\ lock' = None

\* wait_for returns or raises what the future holds.
Reply(s) ==
  /\ pc[s] = "reply"
  /\ fut[s] # "pending"
  /\ Leave(s, Outcome(s))
  /\ UNCHANGED lock

\* Mutant: the future is awaited without a timeout.
NoTimeout(s) == FALSE

\* wait_for gives up after 5 s, possibly in the turn of the event loop in which
\* the future was resolved.
Timeout(s) ==
  /\ pc[s] = "reply"
  /\ Leave(s, "error")
  /\ UNCHANGED lock

\* Mutant: the slot is acquired inside the try block, so that finally releases it.
CancelWaitingReleases(s) ==
  /\ ~Timely
  /\ pc[s] = "slot"
  /\ slots' = slots + 1
  /\ pc' = [pc EXCEPT ![s] = "idle"]
  /\ ret' = [ret EXCEPT ![s] = "error"]
  /\ UNCHANGED <<linkVars, runVars, connected, writer, conf, cursor, lock, paused,
                 closer, stopper, tag, fut, csock, verdict>>

\* The calling task is cancelled before it has a slot: nothing to give back.
CancelWaiting(s) ==
  /\ ~Timely
  /\ pc[s] = "slot"
  /\ pc' = [pc EXCEPT ![s] = "idle"]
  /\ ret' = [ret EXCEPT ![s] = "error"]
  /\ UNCHANGED <<linkVars, runVars, connected, writer, conf, cursor, slots, lock,
                 paused, closer, stopper, tag, fut, csock, verdict>>

\* The calling task is cancelled at a later await.
CancelCall(s) ==
  /\ ~Timely
  /\ pc[s] \in {"lock", "drain", "reply"}
  /\ Leave(s, "error")
  /\ lock' = IF lock = s THEN None ELSE lock

-----------------------------------------------------------------------------
(* The CNI and TCP.                                                        *)

\* The run task reads a two-byte confirmation and resolves the future that is
\* registered under its tag, if there is one and it is pending.
Confirm(k, o, accepted) ==
  /\ run = "reading" /\ ~cancelling
  /\ rsock = k
  /\ o \in owed[k]
  /\ owed' = [owed EXCEPT ![k] = @ \ {o}]
  /\ verdict' = [s \in Callers |->
                   IF s = o[2] THEN IF accepted THEN "accepted" ELSE "rejected"
                   ELSE verdict[s]]
  /\ fut' = [s \in Callers |->
               IF conf[o[1]] = s /\ fut[s] = "pending"
               THEN IF accepted THEN "ok" ELSE "rejected"
               ELSE fut[s]]
  /\ UNCHANGED <<sock, runVars, callVars, connected, writer, conf, cursor, slots,
                 lock, paused, closer, stopper>>

Answer(k) == \E o \in owed[k], accepted \in BOOLEAN : Confirm(k, o, accepted)

LinkStep(k, state) ==
  /\ sock' = [sock EXCEPT ![k] = state]
  /\ owed' = [owed EXCEPT ![k] = {}]
  /\ UNCHANGED <<runVars, callVars, connected, writer, conf, cursor, slots, lock,
                 paused, closer, stopper, fut, verdict>>

\* The CNI closes the connection: the reader sees end of file.
PeerCloses(k) == sock[k] = "open" /\ LinkStep(k, "eof")

\* The connection is reset: asyncio drops the transport at once.
PeerResets(k) == sock[k] \in {"open", "eof"} /\ LinkStep(k, "free")

\* A transport that was closed here has flushed its buffer, or TCP gave up.
TransportLost(k) == sock[k] = "closing" /\ LinkStep(k, "free")

-----------------------------------------------------------------------------
(* The run task.                                                           *)

Start ==
  /\ run = "none"
  /\ run' = "begin"
  /\ UNCHANGED <<linkVars, callVars, connected, writer, conf, cursor, slots, lock,
                 paused, rsock, cancelling, closer, stopper, fut, verdict>>

\* Top of the loop: while paused the task only sleeps and looks again.
Dial ==
  /\ run = "begin" /\ ~cancelling
  /\ ~paused
  /\ run' = "opening"
  /\ UNCHANGED <<linkVars, callVars, connected, writer, conf, cursor, slots, lock,
                 paused, rsock, cancelling, closer, stopper, fut, verdict>>

\* A lost connection's name is reused once nobody refers to it.
Unused(k) ==
  /\ sock[k] = "free"
  /\ \A c \in Closers : closer[c] # k
  /\ \A s \in Callers : csock[s] # k

OpenSucceeds(k) ==
  /\ run = "opening" /\ ~cancelling
  /\ Unused(k)
  /\ sock' = [sock EXCEPT ![k] = "open"]
  /\ writer' = k
  /\ rsock' = k
  /\ run' = "init"
  /\ UNCHANGED <<owed, callVars, connected, conf, cursor, slots, lock, paused,
                 cancelling, closer, stopper, fut, verdict>>

\* Mutant: the run task ends with its first connection.
GiveUp == "done"

\* The task leaves its try block by an exception: the finally clause closes.
\* It then sleeps before the next attempt, unless stop() has been called.
AfterClose == IF stopper = "idle" THEN "sleep" ELSE "done"

\* Mutant: no finally clause, the socket is left to the garbage collector.
LeaveTryOpen ==
  /\ run' = AfterClose
  /\ rsock' = None
  /\ writer' = None
  /\ connected' = FALSE
  /\ FailConfirmations
  /\ UNCHANGED <<linkVars, callVars, cursor, slots, lock, paused, closer, stopper,
                 verdict>>

LeaveTry ==
  /\ Close("run")
  /\ run' = IF MustWaitClosed THEN "closing" ELSE AfterClose
  /\ rsock' = None
  /\ UNCHANGED <<owed, callVars, cursor, slots, lock, paused, stopper, verdict>>

\* Refused, unreachable, or no answer within 10 s.
OpenFails ==
  /\ run = "opening" /\ ~cancelling
  /\ LeaveTry
  /\ UNCHANGED cancelling

\* A call that the event loop can resume now.
CallerReady(s) ==
  \/ pc[s] = "slot" /\ slots > 0
  \/ pc[s] = "lock" /\ lock = None
  \/ pc[s] = "drain" /\ sock[csock[s]] = "free"
  \/ pc[s] = "reply" /\ fut[s] # "pending"

\* Every other task waits.  The loop resumes the ready ones, in order, long
\* before a sleep of 0.3 s (_initialise) or of 2 s and more (_run) is over.
Settled ==
  /\ ~ \E s \in Callers : CallerReady(s)
  /\ ~ \E c \in Closers : TransportGone(c)

\* Reset, application select, Local SAL and MMI monitoring have been written.
InitDone ==
  /\ run = "init" /\ ~cancelling
  /\ Settled
  /\ writer # None
  /\ connected' = TRUE
  /\ run' = "reading"
  /\ UNCHANGED <<linkVars, callVars, writer, conf, cursor, slots, lock, paused,
                 rsock, cancelling, closer, stopper, fut, verdict>>

\* The transport is gone, or pause() took the writer away: the next write (or,
\* after the last one, the assertion of _read_loop) raises.
InitFails ==
  /\ run = "init" /\ ~cancelling
  /\ ~MustWaitClosed
  /\ LeaveTry
  /\ UNCHANGED cancelling

\* End of file, reset, or no reader left once a last chunk has been handled.
ReadFails ==
  /\ run = "reading" /\ ~cancelling
  /\ sock[rsock] \in {"eof", "free"} \/ writer = None
  /\ LeaveTry
  /\ UNCHANGED cancelling

\* Handling a line raises, or a callback that is told of its event.
HandlerRaises ==
  /\ run = "reading" /\ ~cancelling
  /\ writer # None
  /\ LeaveTry
  /\ UNCHANGED cancelling

RunClosed ==
  /\ run = "closing" /\ ~cancelling
  /\ CloseResumes("run")
  /\ run' = AfterClose
  /\ UNCHANGED <<linkVars, callVars, connected, writer, cursor, slots, lock, paused,
                 rsock, cancelling, stopper, verdict>>


SleepOver ==
  /\ run = "sleep" /\ ~cancelling
  /\ Settled
  /\ run' = "begin"
  /\ UNCHANGED <<linkVars, callVars, connected, writer, conf, cursor, slots, lock,
                 paused, rsock, cancelling, closer, stopper, fut, verdict>>

\* CancelledError is raised where the task waits.  Inside the try block the
\* finally clause still closes; inside _close() the rest of _close() is skipped.
CancelInTry ==
  /\ cancelling
  /\ run \in {"opening", "init", "reading"}
  /\ cancelling' = FALSE
  /\ LeaveTry

CancelOutside ==
  /\ cancelling
  /\ run \in {"begin", "sleep", "closing"}
  /\ cancelling' = FALSE
  /\ run' = "done"
  /\ closer' = [closer EXCEPT !["run"] = None]
  /\ UNCHANGED <<linkVars, callVars, connected, writer, conf, cursor, slots, lock,
                 paused, rsock, stopper, fut, verdict>>

-----------------------------------------------------------------------------
(* stop(), pause() and resume().                                           *)

\* Mutant: stop() relies on the finally clause of the run task.
StopWithoutClose ==
  /\ stopper = "idle"
  /\ run # "none"
  /\ cancelling' = (run # "done")
  /\ stopper' = "joining"
  /\ UNCHANGED <<linkVars, callVars, connected, writer, conf, cursor, slots, lock,
                 paused, run, rsock, closer, fut, verdict>>

\* Mutant: stop() closes and waits, but does not cancel the run task.
StopWithoutCancel ==
  /\ stopper = "idle"
  /\ run # "none"
  /\ Close("stop")
  /\ stopper' = IF MustWaitClosed THEN "closing" ELSE "joining"
  /\ UNCHANGED <<owed, callVars, cursor, slots, lock, paused, runVars, verdict>>

\* Cancel the run task, then _close().
Stop ==
  /\ stopper = "idle"
  /\ run # "none"
  /\ cancelling' = (run # "done")
  /\ Close("stop")
  /\ stopper' = IF MustWaitClosed THEN "closing" ELSE "joining"
  /\ UNCHANGED <<owed, callVars, cursor, slots, lock, paused, run, rsock, verdict>>

StopClosed ==
  /\ stopper = "closing"
  /\ CloseResumes("stop")
  /\ stopper' = "joining"
  /\ UNCHANGED <<linkVars, runVars, callVars, connected, writer, cursor, slots, lock,
                 paused, verdict>>

\* The await on the run task returns: stop() is over.
StopJoined ==
  /\ stopper = "joining"
  /\ run = "done"
  /\ stopper' = "done"
  /\ UNCHANGED <<linkVars, runVars, callVars, connected, writer, conf, cursor, slots,
                 lock, paused, closer, fut, verdict>>

Pause ==
  /\ Pausing
  /\ stopper = "idle" /\ closer["pause"] = None
  /\ paused' = TRUE
  /\ Close("pause")
  /\ UNCHANGED <<owed, runVars, callVars, cursor, slots, lock, stopper, verdict>>

PauseClosed ==
  /\ CloseResumes("pause")
  /\ UNCHANGED <<linkVars, runVars, callVars, connected, writer, cursor, slots, lock,
                 paused, stopper, verdict>>

\* The period is over, or resume() is called while the run task lives.
PauseEnds ==
  /\ paused
  /\ paused' = FALSE
  /\ UNCHANGED <<linkVars, runVars, callVars, connected, writer, conf, cursor, slots,
                 lock, closer, stopper, fut, verdict>>

\* A stopped connection with no call left does nothing more.
Finished ==
  /\ stopper = "done"
  /\ \A s \in Callers : pc[s] = "idle"
  /\ UNCHANGED vars

-----------------------------------------------------------------------------
CallerStep(s) ==
  \/ Call(s) \/ AcquireSlot(s) \/ WriteCommand(s) \/ WriteRefused(s)
  \/ DrainDone(s) \/ DrainReplied(s) \/ DrainLost(s) \/ Reply(s)
  \/ Timeout(s) \/ CancelWaiting(s) \/ CancelCall(s)

NetworkStep(k) ==
  \/ OpenSucceeds(k) \/ Answer(k) \/ PeerCloses(k) \/ PeerResets(k) \/ TransportLost(k)

RunStep ==
  \/ Start \/ Dial \/ OpenFails \/ InitDone \/ InitFails \/ ReadFails
  \/ HandlerRaises \/ RunClosed \/ SleepOver \/ CancelInTry \/ CancelOutside

ControlStep == Stop \/ StopClosed \/ StopJoined \/ Pause \/ PauseClosed \/ PauseEnds

Next ==
  \/ \E s \in Callers : CallerStep(s)
  \/ \E k \in Sockets : NetworkStep(k)
  \/ RunStep
  \/ ControlStep
  \/ Finished

Spec == Init /\ [][Next]_vars
-----------------------------------------------------------------------------
(* Safety.                                                                 *)

Holders == {s \in Callers : pc[s] \in {"lock", "drain", "reply"}}

\* Every slot of the semaphore is either available or held by a call that will
\* give it back: no exit path of send_level leaks one or returns one twice.
SlotsConserved == slots + Cardinality(Holders) = TagCount

\* A call that holds a slot finds a free tag: the RuntimeError at the end of
\* _allocate_confirmation is never raised, because a tag is popped before the
\* slot that pays for it is released.
TagAlwaysFree == \A s \in Callers : pc[s] = "lock" => FreeTags # {}

\* A call waiting for its confirmation is registered under its own tag: no two
\* calls share one, and no call that ends late pops the entry of a call that
\* took the same tag on a later connection.  Otherwise neither a confirmation
\* nor _close() could reach the call.
WaitingIsRegistered ==
  \A s \in Callers : fut[s] = "pending" => tag[s] \in Tags /\ conf[tag[s]] = s

\* A call waits only for a connection that is up, or that some task is closing
\* and will fail it: none is forgotten on a connection that is gone.
WaitingHasLink ==
  \A s \in Callers : fut[s] = "pending" =>
     \/ connected /\ csock[s] = writer
     \/ \E c \in Closers : closer[c] # None /\ closer[c] = csock[s]

\* A call reports success only if the CNI accepted that very command
\* ("matched to asynchronous two-byte confirmations").
ConfirmationMatches ==
  \A s \in Callers : fut[s] = "ok" \/ ret[s] = "ok" => verdict[s] = "accepted"

\* The only socket not yet closed is the writer's: no reconnection leaks one
\* (a CNI accepts very few clients).
SingleClient ==
  \A k \in Sockets : sock[k] \in {"open", "eof"} => writer = k

\* When stop() returns the run task has ended, every socket is closed and no
\* call waits for a confirmation.
StopReleases ==
  stopper = "done" =>
    /\ run = "done" /\ ~cancelling
    /\ ~connected /\ writer = None
    /\ \A k \in Sockets : sock[k] \in {"free", "closing"}
    /\ \A s \in Callers : fut[s] # "pending"

\* From the moment stop() is called nothing connects, announces the connection
\* as available or writes a command, wherever the run task and the calls stand.
QuietAfterStop ==
  [][stopper # "idle" =>
       /\ ~connected'
       /\ \A k \in Sockets : sock[k] = "free" => sock'[k] = "free"
       /\ \A s \in Callers : fut'[s] = "pending" => fut[s] = "pending"]_vars

-----------------------------------------------------------------------------
(* Liveness.  asyncio resumes every task that is ready, and Semaphore and  *)
(* Lock serve their waiters in order.  Timers fire, and a transport closed *)
(* here is lost in the end.  Nothing is assumed of the CNI: it need not    *)
(* accept a connection, answer or close, but it lets drain() return.       *)

Fairness ==
  /\ \A s \in Callers :
       /\ SF_vars(AcquireSlot(s))
       /\ SF_vars(WriteCommand(s) \/ WriteRefused(s))
       /\ WF_vars(DrainDone(s) \/ DrainReplied(s) \/ DrainLost(s))
       /\ WF_vars(Reply(s) \/ Timeout(s))
  /\ \A k \in Sockets : WF_vars(TransportLost(k))
  /\ WF_vars(Dial)
  /\ WF_vars(OpenFails \/ \E k \in Sockets : OpenSucceeds(k))
  /\ WF_vars(InitDone \/ InitFails)
  /\ WF_vars(ReadFails)
  /\ WF_vars(RunClosed)
  /\ WF_vars(SleepOver)
  /\ WF_vars(CancelInTry \/ CancelOutside)
  /\ WF_vars(StopClosed)
  /\ WF_vars(StopJoined)
  /\ WF_vars(PauseClosed)

FairSpec == Spec /\ Fairness

\* Every send_level call returns or raises, whatever the CNI does and however
\* often the connection is lost while it waits for a slot, the lock or a reply.
EveryCallReturns == \A s \in Callers : pc[s] # "idle" ~> pc[s] = "idle"

\* stop() returns, wherever the run task and the calls stand.
StopCompletes == stopper # "idle" ~> stopper = "done"

\* The run task never gives up: while the connection is down and neither stop()
\* nor pause() is called it dials again (or the link it is setting up comes up).
KeepsReconnecting ==
  run # "none" /\ ~connected /\ ~paused /\ stopper = "idle"
    ~> connected \/ run = "opening" \/ paused \/ stopper # "idle"

-----------------------------------------------------------------------------
(* Refinement.                                                             *)

PhaseOf == [s \in Callers |->
              CASE pc[s] = "idle"               -> "idle"
                [] pc[s] \in {"slot", "lock"}   -> "waiting"
                [] pc[s] \in {"drain", "reply"} -> "sent"]

Commands == INSTANCE ConfirmedCommands
              WITH Limit <- TagCount, up <- connected, phase <- PhaseOf,
                   answer <- verdict, outcome <- ret

\* The connection keeps the promise of ConfirmedCommands: commands go out only
\* while it is announced as connected, never more than there are tags, each is
\* answered at most once, and success is reported only for an accepted one.
KeepsPromise == Commands!Promise
=============================================================================
