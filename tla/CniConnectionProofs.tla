------------------------ MODULE CniConnectionProofs ------------------------
(***************************************************************************)
(* Theorems of CniConnection, for any number of calls, tags and sockets.   *)
(***************************************************************************)
EXTENDS CniConnection, FiniteSetTheorems, TLAPS

USE DEF Tags, Closers

LEMMA ModInTags == ASSUME NEW a \in Int PROVE a % TagCount \in Tags
  BY TagCountAssumption

-----------------------------------------------------------------------------
(* Types and slots.  slots + 1 <= TagCount needs SlotsConserved, so that   *)
(* the two are one inductive invariant.                                    *)

TypedSlots == TypeOK /\ SlotsConserved

LEMMA HoldersFinite == IsFiniteSet(Holders) /\ Cardinality(Holders) \in Nat
  <1>1. IsFiniteSet(Holders)
    BY CallersAssumption, FS_Subset DEF Holders
  <1> QED  BY <1>1, FS_CardinalityType

\* A call that takes a slot.
LEMMA SlotTaken ==
  ASSUME TypedSlots, NEW s \in Callers, AcquireSlot(s)
  PROVE  slots' \in 0 .. TagCount /\ SlotsConserved'
  <1>1. Holders' = Holders \cup {s} /\ s \notin Holders
    BY DEF Holders, AcquireSlot, TypedSlots, TypeOK
  <1>2. Cardinality(Holders') = Cardinality(Holders) + 1
    BY <1>1, HoldersFinite, FS_AddElement
  <1> QED  BY <1>2, HoldersFinite, TagCountAssumption
           DEF AcquireSlot, TypedSlots, TypeOK, SlotsConserved

\* A call that ends gives its slot back.
LEMMA SlotReleased ==
  ASSUME TypedSlots, NEW s \in Callers, s \in Holders, NEW o, Leave(s, o)
  PROVE  slots' \in 0 .. TagCount /\ SlotsConserved'
  <1>1. Holders' = Holders \ {s}
    BY DEF Holders, Leave, TypedSlots, TypeOK
  <1>2. Cardinality(Holders') = Cardinality(Holders) - 1
    BY <1>1, HoldersFinite, FS_RemoveElement
  <1>3. slots' = slots + 1
    BY DEF Leave
  <1>4. Cardinality(Holders') \in Nat
    BY <1>1, <1>2, HoldersFinite, FS_RemoveElement, FS_CardinalityType
  <1> QED  BY <1>2, <1>3, <1>4, HoldersFinite, TagCountAssumption
           DEF TypedSlots, TypeOK, SlotsConserved

\* A step that leaves the set of holders and the semaphore alone.
LEMMA SlotsKept ==
  ASSUME TypedSlots, slots' = slots, Holders' = Holders
  PROVE  slots' \in 0 .. TagCount /\ SlotsConserved'
  BY DEF TypedSlots, TypeOK, SlotsConserved

\* The types of what Leave assigns.
LEMMA LeaveTyped ==
  ASSUME TypedSlots, NEW s \in Callers, s \in Holders, NEW o \in {"ok", "error"},
         Leave(s, o), lock' \in Callers \cup {None}
  PROVE  TypedSlots'
  <1>1. slots' \in 0 .. TagCount /\ SlotsConserved'
    BY SlotReleased
  <1>2. owed' \in [Sockets -> SUBSET (Tags \X (Callers \cup {None}))]
    BY DEF Leave, TypedSlots, TypeOK
  <1>3. /\ conf' \in [Tags -> Callers \cup {None}]
        /\ pc' \in [Callers -> {"idle", "slot", "lock", "drain", "reply"}]
        /\ tag' \in [Callers -> Tags \cup {None}]
        /\ fut' \in [Callers -> {"none", "pending", "ok", "rejected", "closed"}]
        /\ csock' \in [Callers -> Sockets \cup {None}]
        /\ ret' \in [Callers -> {"none", "ok", "error"}]
    BY DEF Leave, TypedSlots, TypeOK
  <1> QED  BY <1>1, <1>2, <1>3 DEF Leave, TypedSlots, TypeOK, runVars

\* The types of what _close() assigns.
LEMMA FailTyped ==
  ASSUME TypeOK, FailConfirmations
  PROVE  /\ conf' \in [Tags -> Callers \cup {None}]
         /\ fut' \in [Callers -> {"none", "pending", "ok", "rejected", "closed"}]
  <1>1. conf' \in [Tags -> Callers \cup {None}]
    BY DEF FailConfirmations
  <1>2. fut' \in [Callers -> {"none", "pending", "ok", "rejected", "closed"}]
    BY DEF FailConfirmations, TypeOK
  <1> QED  BY <1>1, <1>2

LEMMA CloseTyped ==
  ASSUME TypeOK, NEW c \in Closers, Close(c)
  PROVE  /\ sock' \in [Sockets -> {"free", "open", "eof", "closing"}]
         /\ connected' \in BOOLEAN
         /\ writer' \in Sockets \cup {None}
         /\ closer' \in [Closers -> Sockets \cup {None}]
         /\ conf' \in [Tags -> Callers \cup {None}]
         /\ fut' \in [Callers -> {"none", "pending", "ok", "rejected", "closed"}]
  <1>1. connected' \in BOOLEAN /\ writer' \in Sockets \cup {None}
    BY DEF Close
  <1>2. CASE MustWaitClosed
    BY <1>1, <1>2 DEF Close, MustWaitClosed, TypeOK
  <1>3. CASE ~MustWaitClosed
    BY <1>1, <1>3, FailTyped DEF Close, TypeOK
  <1> QED  BY <1>2, <1>3

LEMMA CloseResumesTyped ==
  ASSUME TypeOK, NEW c \in Closers, CloseResumes(c)
  PROVE  /\ closer' \in [Closers -> Sockets \cup {None}]
         /\ conf' \in [Tags -> Callers \cup {None}]
         /\ fut' \in [Callers -> {"none", "pending", "ok", "rejected", "closed"}]
  BY FailTyped DEF CloseResumes, TypeOK

LEMMA TypedSlotsInit == Init => TypedSlots
  <1> SUFFICES ASSUME Init PROVE TypedSlots
    OBVIOUS
  <1>1. TypeOK
    <2>1. slots \in 0 .. TagCount /\ cursor \in Tags
      BY TagCountAssumption DEF Init
    <2>2. /\ owed \in [Sockets -> SUBSET (Tags \X (Callers \cup {None}))]
          /\ conf \in [Tags -> Callers \cup {None}]
          /\ tag \in [Callers -> Tags \cup {None}]
      BY DEF Init
    <2> QED  BY <2>1, <2>2 DEF Init, TypeOK
  <1>2. Holders = {}
    BY DEF Init, Holders
  <1>3. SlotsConserved
    BY <1>2, FS_EmptySet, TagCountAssumption DEF Init, SlotsConserved
  <1> QED  BY <1>1, <1>3 DEF TypedSlots

\* The steps of a call.
LEMMA TypedSlotsCaller ==
  ASSUME TypedSlots, NEW s \in Callers, CallerStep(s)
  PROVE  TypedSlots'
  <1> USE DEF linkVars, runVars
  <1>1. CASE Call(s)
    <2>1. Holders' = Holders
      BY <1>1 DEF Call, Holders, TypedSlots, TypeOK
    <2> QED  BY <1>1, <2>1, SlotsKept DEF Call, TypedSlots, TypeOK
  <1>2. CASE AcquireSlot(s)
    <2>1. slots' \in 0 .. TagCount /\ SlotsConserved'
      BY <1>2, SlotTaken
    <2>2. pc' \in [Callers -> {"idle", "slot", "lock", "drain", "reply"}]
      BY <1>2 DEF AcquireSlot, TypedSlots, TypeOK
    <2> QED  BY <1>2, <2>1, <2>2 DEF AcquireSlot, TypedSlots, TypeOK
  <1>3. CASE WriteCommand(s)
    <2>1. Holders' = Holders
      BY <1>3 DEF WriteCommand, Holders, TypedSlots, TypeOK
    <2>2. slots' \in 0 .. TagCount /\ SlotsConserved'
      BY <1>3, <2>1, SlotsKept DEF WriteCommand
    <2>3. PICK t \in Tags :
            /\ cursor' = (t + 1) % TagCount
            /\ conf' = [conf EXCEPT ![t] = s]
            /\ tag' = [tag EXCEPT ![s] = t]
            /\ owed' = [owed EXCEPT ![writer] =
                          IF sock[writer] = "open" THEN @ \cup {<<t, s>>} ELSE @]
      BY <1>3 DEF WriteCommand
    <2>4. cursor' \in Tags
      BY <2>3, ModInTags, TagCountAssumption
    <2>5. owed' \in [Sockets -> SUBSET (Tags \X (Callers \cup {None}))]
      <3>1. <<t, s>> \in Tags \X (Callers \cup {None})
        OBVIOUS
      <3>2. owed \in [Sockets -> SUBSET (Tags \X (Callers \cup {None}))]
        BY DEF TypedSlots, TypeOK
      <3>3. writer \in Sockets
        BY <1>3 DEF WriteCommand, CommandReady, TypedSlots, TypeOK
      <3>4. owed[writer] \cup {<<t, s>>} \in SUBSET (Tags \X (Callers \cup {None}))
        BY <3>1, <3>2, <3>3
      <3> HIDE DEF Tags
      <3> QED  BY <2>3, <3>2, <3>4
    <2>6. conf' \in [Tags -> Callers \cup {None}] /\ tag' \in [Callers -> Tags \cup {None}]
      BY <2>3 DEF TypedSlots, TypeOK
    <2>7. writer \in Sockets
      BY <1>3 DEF WriteCommand, CommandReady, TypedSlots, TypeOK
    <2> QED  BY <1>3, <2>2, <2>4, <2>5, <2>6, <2>7 DEF WriteCommand, TypedSlots, TypeOK
  <1>4. CASE WriteRefused(s)
    BY <1>4, LeaveTyped DEF WriteRefused, Holders, TypedSlots, TypeOK
  <1>5. CASE DrainDone(s)
    <2>1. Holders' = Holders
      BY <1>5 DEF DrainDone, Holders, TypedSlots, TypeOK
    <2> QED  BY <1>5, <2>1, SlotsKept DEF DrainDone, TypedSlots, TypeOK
  <1>6. CASE DrainReplied(s)
    BY <1>6, LeaveTyped DEF DrainReplied, Outcome, Holders
  <1>7. CASE DrainLost(s)
    BY <1>7, LeaveTyped DEF DrainLost, Holders
  <1>8. CASE Reply(s)
    BY <1>8, LeaveTyped DEF Reply, Outcome, Holders, TypedSlots, TypeOK
  <1>9. CASE Timeout(s)
    BY <1>9, LeaveTyped DEF Timeout, Holders, TypedSlots, TypeOK
  <1>10. CASE CancelWaiting(s)
    <2>1. Holders' = Holders
      BY <1>10 DEF CancelWaiting, Holders, TypedSlots, TypeOK
    <2> QED  BY <1>10, <2>1, SlotsKept DEF CancelWaiting, TypedSlots, TypeOK
  <1>11. CASE CancelCall(s)
    BY <1>11, LeaveTyped DEF CancelCall, Holders, TypedSlots, TypeOK
  <1> QED  BY <1>1, <1>2, <1>3, <1>4, <1>5, <1>6, <1>7, <1>8, <1>9, <1>10, <1>11
           DEF CallerStep

\* Every other step leaves the calls and the semaphore alone.
LEMMA OthersKeepSlots ==
  ASSUME TypedSlots, pc' = pc, slots' = slots
  PROVE  slots' \in 0 .. TagCount /\ SlotsConserved'
  BY SlotsKept DEF Holders

LEMMA TypedSlotsNetwork ==
  ASSUME TypedSlots, NEW k \in Sockets, NetworkStep(k)
  PROVE  TypedSlots'
  <1> USE DEF linkVars, runVars, callVars
  <1>1. CASE OpenSucceeds(k)
    BY <1>1, OthersKeepSlots DEF OpenSucceeds, TypedSlots, TypeOK
  <1>2. CASE Answer(k)
    <2>1. PICK o \in owed[k], accepted \in BOOLEAN : Confirm(k, o, accepted)
      BY <1>2 DEF Answer
    <2>2. /\ owed' \in [Sockets -> SUBSET (Tags \X (Callers \cup {None}))]
          /\ verdict' \in [Callers -> {"none", "accepted", "rejected"}]
          /\ fut' \in [Callers -> {"none", "pending", "ok", "rejected", "closed"}]
      BY <2>1 DEF Confirm, TypedSlots, TypeOK
    <2> QED  BY <2>1, <2>2, OthersKeepSlots DEF Confirm, TypedSlots, TypeOK
  <1>3. ASSUME NEW state \in {"free", "eof"}, LinkStep(k, state)
        PROVE  TypedSlots'
    BY <1>3, OthersKeepSlots DEF LinkStep, TypedSlots, TypeOK
  <1> QED  BY <1>1, <1>2, <1>3 DEF NetworkStep, PeerCloses, PeerResets, TransportLost

LEMMA TypedSlotsRun ==
  ASSUME TypedSlots, RunStep
  PROVE  TypedSlots'
  <1> USE DEF linkVars, runVars, callVars
  <1>1. CASE Start \/ Dial \/ InitDone \/ SleepOver
    BY <1>1, OthersKeepSlots, ZenonT(60) DEF Start, Dial, InitDone, SleepOver, TypedSlots, TypeOK
  <1>2. ASSUME LeaveTry, cancelling' \in BOOLEAN
        PROVE  TypedSlots'
    BY <1>2, CloseTyped, OthersKeepSlots DEF LeaveTry, AfterClose, TypedSlots, TypeOK
  <1>3. CASE OpenFails \/ InitFails \/ ReadFails \/ HandlerRaises \/ CancelInTry
    BY <1>2, <1>3 DEF OpenFails, InitFails, ReadFails, HandlerRaises, CancelInTry,
             TypedSlots, TypeOK
  <1>4. CASE RunClosed
    BY <1>4, CloseResumesTyped, OthersKeepSlots
    DEF RunClosed, AfterClose, TypedSlots, TypeOK
  <1>5. CASE CancelOutside
    BY <1>5, OthersKeepSlots DEF CancelOutside, TypedSlots, TypeOK
  <1> QED  BY <1>1, <1>3, <1>4, <1>5 DEF RunStep

LEMMA TypedSlotsControl ==
  ASSUME TypedSlots, ControlStep
  PROVE  TypedSlots'
  <1> USE DEF linkVars, runVars, callVars
  <1>1. CASE Stop
    BY <1>1, CloseTyped, OthersKeepSlots DEF Stop, TypedSlots, TypeOK
  <1>2. CASE StopClosed
    BY <1>2, CloseResumesTyped, OthersKeepSlots DEF StopClosed, TypedSlots, TypeOK
  <1>3. CASE StopJoined \/ PauseEnds
    BY <1>3, OthersKeepSlots, ZenonT(60) DEF StopJoined, PauseEnds, TypedSlots, TypeOK
  <1>4. CASE Pause
    BY <1>4, CloseTyped, OthersKeepSlots DEF Pause, TypedSlots, TypeOK
  <1>5. CASE PauseClosed
    BY <1>5, CloseResumesTyped, OthersKeepSlots DEF PauseClosed, TypedSlots, TypeOK
  <1> QED  BY <1>1, <1>2, <1>3, <1>4, <1>5 DEF ControlStep

LEMMA TypedSlotsStep == TypedSlots /\ [Next]_vars => TypedSlots'
  <1> SUFFICES ASSUME TypedSlots, [Next]_vars PROVE TypedSlots'
    OBVIOUS
  <1>1. CASE \E s \in Callers : CallerStep(s)
    BY <1>1, TypedSlotsCaller
  <1>2. CASE \E k \in Sockets : NetworkStep(k)
    BY <1>2, TypedSlotsNetwork
  <1>3. CASE RunStep
    BY <1>3, TypedSlotsRun
  <1>4. CASE ControlStep
    BY <1>4, TypedSlotsControl
  <1>5. CASE UNCHANGED vars
    BY <1>5, OthersKeepSlots DEF vars, TypedSlots, TypeOK
  <1> QED  BY <1>1, <1>2, <1>3, <1>4, <1>5 DEF Next, Finished

LEMMA TypedSlotsInvariant == Spec => []TypedSlots
  BY TypedSlotsInit, TypedSlotsStep, PTL DEF Spec

\* Every variable keeps its type; in particular the semaphore never exceeds the
\* number of tags and the tag cursor stays among them.
THEOREM TypeCorrect == Spec => []TypeOK
  BY TypedSlotsInvariant, PTL DEF TypedSlots

\* No exit path of send_level leaks a slot or releases one twice.
THEOREM SlotsAreConserved == Spec => []SlotsConserved
  BY TypedSlotsInvariant, PTL DEF TypedSlots

-----------------------------------------------------------------------------
(* Tags.  Every tag in use is held by a call that has the slot for it.     *)

TagsHeld ==
  \A t \in Tags : conf[t] # None =>
     conf[t] \in Callers /\ pc[conf[t]] \in {"drain", "reply"} /\ tag[conf[t]] = t

LEMMA TagsHeldInit == Init => TagsHeld
  BY DEF Init, TagsHeld

\* Steps that take no tag and end no call, but may empty the table.
LEMMA TagsHeldKept ==
  ASSUME TagsHeld, tag' = tag, conf' = conf \/ FailConfirmations,
         \A s \in Callers : pc[s] \in {"drain", "reply"} => pc'[s] \in {"drain", "reply"}
  PROVE  TagsHeld'
  BY DEF TagsHeld, FailConfirmations

LEMMA TagsHeldLeave ==
  ASSUME TagsHeld, TypeOK, NEW s \in Callers, NEW o, Leave(s, o)
  PROVE  TagsHeld'
  <1> SUFFICES ASSUME NEW t \in Tags, conf'[t] # None
               PROVE  /\ conf'[t] \in Callers
                      /\ pc'[conf'[t]] \in {"drain", "reply"}
                      /\ tag'[conf'[t]] = t
    BY DEF TagsHeld
  <1>1. t # tag[s] /\ conf'[t] = conf[t]
    BY DEF Leave
  <1>2. conf[t] \in Callers /\ pc[conf[t]] \in {"drain", "reply"} /\ tag[conf[t]] = t
    BY <1>1 DEF TagsHeld
  <1>3. conf[t] # s
    BY <1>1, <1>2
  <1> QED  BY <1>1, <1>2, <1>3 DEF Leave, TypeOK

LEMMA TagsHeldStep == TypeOK /\ TagsHeld /\ [Next]_vars => TagsHeld'
  <1> SUFFICES ASSUME TypeOK, TagsHeld, [Next]_vars PROVE TagsHeld'
    OBVIOUS
  <1> USE DEF linkVars, runVars, callVars
  <1>1. ASSUME NEW s \in Callers, CallerStep(s)
        PROVE  TagsHeld'
    <2>1. CASE Call(s) \/ AcquireSlot(s) \/ CancelWaiting(s)
      BY <2>1, TagsHeldKept DEF Call, AcquireSlot, CancelWaiting, TypeOK
    <2>2. CASE DrainDone(s)
      BY <2>2, TagsHeldKept DEF DrainDone, TypeOK
    <2>3. CASE WriteCommand(s)
      <3>1. PICK t \in Tags : conf' = [conf EXCEPT ![t] = s] /\ tag' = [tag EXCEPT ![s] = t]
        BY <2>3 DEF WriteCommand
      <3>2. pc' = [pc EXCEPT ![s] = "drain"] /\ pc[s] = "lock"
        BY <2>3 DEF WriteCommand
      <3>3. ASSUME NEW u \in Tags, u # t, conf'[u] # None
            PROVE  /\ conf'[u] \in Callers
                   /\ pc'[conf'[u]] \in {"drain", "reply"}
                   /\ tag'[conf'[u]] = u
        <4>1. conf'[u] = conf[u] /\ conf[u] \in Callers /\ tag[conf[u]] = u
              /\ pc[conf[u]] \in {"drain", "reply"}
          BY <3>1, <3>3 DEF TagsHeld, TypeOK
        <4>2. conf[u] # s
          BY <3>2, <4>1
        <4> QED  BY <3>1, <3>2, <4>1, <4>2 DEF TypeOK
      <3>4. conf'[t] = s /\ pc'[s] = "drain" /\ tag'[s] = t
        BY <3>1, <3>2 DEF TypeOK
      <3> QED  BY <3>3, <3>4 DEF TagsHeld
    <2>4. ASSUME NEW o, Leave(s, o)
          PROVE  TagsHeld'
      BY <2>4, TagsHeldLeave
    <2> QED  BY <1>1, <2>1, <2>2, <2>3, <2>4
             DEF CallerStep, WriteRefused, DrainReplied, DrainLost, Reply, Timeout, CancelCall
  <1>2. ASSUME NEW k \in Sockets, NetworkStep(k)
        PROVE  TagsHeld'
    <2>1. tag' = tag /\ conf' = conf /\ pc' = pc
      BY <1>2 DEF NetworkStep, OpenSucceeds, Answer, Confirm, PeerCloses, PeerResets,
                  TransportLost, LinkStep
    <2> QED  BY <2>1, TagsHeldKept
  <1>3. ASSUME RunStep \/ ControlStep
        PROVE  TagsHeld'
    <2>1. tag' = tag /\ pc' = pc
      BY <1>3 DEF RunStep, Start, Dial, OpenFails, InitDone, InitFails, ReadFails, HandlerRaises,
                  RunClosed, SleepOver, CancelInTry, CancelOutside, LeaveTry,
                  ControlStep, Stop, StopClosed, StopJoined, Pause, PauseClosed, PauseEnds
    <2>2. conf' = conf \/ FailConfirmations
      BY <1>3 DEF RunStep, Start, Dial, OpenFails, InitDone, InitFails, ReadFails, HandlerRaises,
                  RunClosed, SleepOver, CancelInTry, CancelOutside, LeaveTry,
                  ControlStep, Stop, StopClosed, StopJoined, Pause, PauseClosed, PauseEnds,
                  Close, CloseResumes
    <2> QED  BY <2>1, <2>2, TagsHeldKept
  <1>4. CASE UNCHANGED vars
    BY <1>4, TagsHeldKept DEF vars
  <1> QED  BY <1>1, <1>2, <1>3, <1>4 DEF Next, Finished

\* More tags than other holders: were all tags in use, two would be in use by
\* one call, which knows only one of them.
LEMMA FreeTagLeft == TypedSlots /\ TagsHeld => TagAlwaysFree
  <1> SUFFICES ASSUME TypedSlots, TagsHeld, NEW s \in Callers, pc[s] = "lock", FreeTags = {}
               PROVE  FALSE
    BY DEF TagAlwaysFree
  <1> DEFINE Rest == Holders \ {s}
  <1>1. s \in Holders
    BY DEF Holders
  <1>2. IsFiniteSet(Rest) /\ Cardinality(Rest) = Cardinality(Holders) - 1
    BY <1>1, HoldersFinite, FS_RemoveElement
  <1>3. IsFiniteSet(Tags) /\ Cardinality(Tags) = TagCount
    BY FS_Interval, TagCountAssumption
  <1>4. Cardinality(Holders) <= TagCount
    BY HoldersFinite, TagCountAssumption DEF TypedSlots, TypeOK, SlotsConserved
  <1>5. Cardinality(Rest) < Cardinality(Tags)
    BY <1>2, <1>3, <1>4, HoldersFinite, TagCountAssumption
  <1>6. \A t \in Tags : conf[t] \in Rest /\ tag[conf[t]] = t
    BY DEF FreeTags, TagsHeld, Holders
  <1>7. conf \in [Tags -> Rest]
    BY <1>6 DEF TypedSlots, TypeOK
  <1>8. PICK t \in Tags, u \in Tags : t # u /\ conf[t] = conf[u]
    <2> HIDE DEF Rest, Tags
    <2> QED  BY <1>2, <1>3, <1>5, <1>7, FS_PigeonHole
  <1> QED  BY <1>6, <1>8

\* _allocate_confirmation always finds a free tag: the RuntimeError at its end
\* is never raised, whatever the number of tags and of concurrent calls.
THEOREM TagIsAlwaysFree == Spec => []TagAlwaysFree
  <1>1. Spec => []TagsHeld
    BY TypedSlotsInvariant, TagsHeldInit, TagsHeldStep, PTL DEF Spec, TypedSlots
  <1> QED  BY <1>1, TypedSlotsInvariant, FreeTagLeft, PTL

-----------------------------------------------------------------------------
(* The link.  The writer belongs to the run task: it exists only while the *)
(* task initialises or reads, and not any more once stop() was called.     *)

WriterOwned ==
  /\ connected => writer # None
  /\ writer # None => /\ run \in {"init", "reading"}
                     /\ stopper = "idle"
                     /\ ~cancelling

StopCancels ==
  /\ stopper # "idle" => cancelling \/ run = "done"
  /\ cancelling => stopper # "idle"

LinkInv == TypeOK /\ WriterOwned /\ StopCancels /\ SingleClient

LEMMA LinkInit == Init => LinkInv
  <1>1. Init => TypeOK
    BY TypedSlotsInit DEF TypedSlots
  <1> QED  BY <1>1 DEF Init, LinkInv, WriterOwned, StopCancels, SingleClient

\* _close() by any task leaves no writer and no socket open.
LEMMA CloseLeavesNothing ==
  ASSUME LinkInv, NEW c \in Closers, Close(c)
  PROVE  ~connected' /\ writer' = None /\ SingleClient'
  <1>1. ~connected' /\ writer' = None
    BY DEF Close
  <1>2. ASSUME NEW k \in Sockets
        PROVE  sock'[k] \notin {"open", "eof"}
    <2>1. CASE MustWaitClosed
      BY <2>1 DEF Close, MustWaitClosed, LinkInv, SingleClient, TypeOK
    <2>2. CASE ~MustWaitClosed
      BY <2>2, NoneAssumption DEF Close, MustWaitClosed, LinkInv, SingleClient, TypeOK
    <2> QED  BY <2>1, <2>2
  <1> QED  BY <1>1, <1>2 DEF SingleClient

LEMMA LinkStepRun ==
  ASSUME LinkInv, TypeOK', RunStep
  PROVE  LinkInv'
  <1> USE DEF linkVars, runVars, callVars
  <1>1. CASE Start \/ Dial \/ SleepOver
    BY <1>1 DEF Start, Dial, SleepOver, LinkInv, WriterOwned, StopCancels, SingleClient
  <1>2. CASE InitDone
    BY <1>2 DEF InitDone, LinkInv, WriterOwned, StopCancels, SingleClient
  <1>3. ASSUME LeaveTry, ~cancelling'
        PROVE  WriterOwned' /\ SingleClient'
    BY <1>3, CloseLeavesNothing DEF LeaveTry, WriterOwned
  <1>4. CASE OpenFails \/ InitFails \/ ReadFails \/ HandlerRaises
    <2>1. LeaveTry /\ ~cancelling /\ cancelling' = cancelling /\ run # "done"
      BY <1>4 DEF OpenFails, InitFails, ReadFails, HandlerRaises
    <2>2. stopper = "idle" /\ stopper' = "idle"
      BY <2>1 DEF LinkInv, StopCancels, LeaveTry
    <2> QED  BY <1>3, <2>1, <2>2 DEF LinkInv, StopCancels
  <1>5. CASE CancelInTry
    <2>1. LeaveTry /\ cancelling /\ ~cancelling'
      BY <1>5 DEF CancelInTry
    <2>2. stopper # "idle" /\ writer = None
      BY <2>1 DEF LinkInv, StopCancels, WriterOwned
    <2>3. run' = "done"
      BY <2>1, <2>2 DEF LeaveTry, MustWaitClosed, AfterClose
    <2> QED  BY <1>3, <2>1, <2>3 DEF LinkInv, StopCancels
  <1>6. CASE RunClosed
    BY <1>6 DEF RunClosed, CloseResumes, AfterClose, LinkInv, WriterOwned, StopCancels,
                SingleClient
  <1>7. CASE CancelOutside
    BY <1>7 DEF CancelOutside, LinkInv, WriterOwned, StopCancels, SingleClient
  <1> QED  BY <1>1, <1>2, <1>4, <1>5, <1>6, <1>7 DEF RunStep

LEMMA LinkStepControl ==
  ASSUME LinkInv, TypeOK', ControlStep
  PROVE  LinkInv'
  <1> USE DEF linkVars, runVars, callVars
  <1>1. CASE Stop
    <2>1. ~connected' /\ writer' = None /\ SingleClient'
      BY <1>1, CloseLeavesNothing DEF Stop
    <2> QED  BY <1>1, <2>1 DEF Stop, LinkInv, WriterOwned, StopCancels
  <1>2. CASE Pause
    <2>1. ~connected' /\ writer' = None /\ SingleClient'
      BY <1>2, CloseLeavesNothing DEF Pause
    <2> QED  BY <1>2, <2>1 DEF Pause, LinkInv, WriterOwned, StopCancels
  <1>3. CASE StopClosed \/ StopJoined \/ PauseClosed \/ PauseEnds
    BY <1>3 DEF StopClosed, StopJoined, PauseClosed, PauseEnds, LinkInv, WriterOwned,
                StopCancels, SingleClient
  <1> QED  BY <1>1, <1>2, <1>3 DEF ControlStep

LEMMA LinkStepNetwork ==
  ASSUME LinkInv, TypeOK', NEW k \in Sockets, NetworkStep(k)
  PROVE  LinkInv'
  <1> USE DEF linkVars, runVars, callVars
  <1>1. CASE OpenSucceeds(k)
    <2>1. writer = None /\ stopper = "idle" /\ ~cancelling
      BY <1>1 DEF OpenSucceeds, LinkInv, WriterOwned, StopCancels
    <2>2. \A j \in Sockets : sock'[j] \in {"open", "eof"} => j = k
      BY <1>1, <2>1, NoneAssumption DEF OpenSucceeds, LinkInv, SingleClient, TypeOK
    <2> QED  BY <1>1, <2>1, <2>2, NoneAssumption
             DEF OpenSucceeds, LinkInv, WriterOwned, StopCancels, SingleClient
  <1>2. CASE Answer(k)
    BY <1>2 DEF Answer, Confirm, LinkInv, WriterOwned, StopCancels, SingleClient
  <1>3. CASE PeerCloses(k) \/ PeerResets(k) \/ TransportLost(k)
    <2>1. \A j \in Sockets : sock'[j] \in {"open", "eof"} => sock[j] \in {"open", "eof"}
      BY <1>3 DEF PeerCloses, PeerResets, TransportLost, LinkStep, LinkInv, TypeOK
    <2> QED  BY <1>3, <2>1 DEF PeerCloses, PeerResets, TransportLost, LinkStep, LinkInv,
                               WriterOwned, StopCancels, SingleClient
  <1> QED  BY <1>1, <1>2, <1>3 DEF NetworkStep

LEMMA CallersKeepLink ==
  ASSUME TypeOK, NEW s \in Callers, CallerStep(s)
  PROVE  /\ UNCHANGED <<sock, connected, writer, run, cancelling, stopper>>
         /\ \A u \in Callers : fut'[u] = "pending" => fut[u] = "pending" \/ WriteCommand(s)
  <1>1. UNCHANGED <<sock, connected, writer, run, cancelling, stopper>>
    BY DEF CallerStep, Call, AcquireSlot, WriteCommand, WriteRefused, DrainDone,
           DrainReplied, DrainLost, Reply, Timeout, CancelWaiting, CancelCall, Leave,
           linkVars, runVars
  <1>2. ASSUME NEW u \in Callers, fut'[u] = "pending", ~WriteCommand(s)
        PROVE  fut[u] = "pending"
    BY <1>2 DEF CallerStep, Call, AcquireSlot, WriteRefused, DrainDone,
           DrainReplied, DrainLost, Reply, Timeout, CancelWaiting, CancelCall, Leave, TypeOK
  <1> QED  BY <1>1, <1>2

LEMMA LinkStepHolds == LinkInv /\ TypeOK' /\ [Next]_vars => LinkInv'
  <1> SUFFICES ASSUME LinkInv, TypeOK', [Next]_vars PROVE LinkInv'
    OBVIOUS
  <1>1. ASSUME NEW s \in Callers, CallerStep(s)
        PROVE  LinkInv'
    BY <1>1, CallersKeepLink DEF LinkInv, WriterOwned, StopCancels, SingleClient
  <1>2. ASSUME NEW k \in Sockets, NetworkStep(k)
        PROVE  LinkInv'
    BY <1>2, LinkStepNetwork
  <1>3. CASE UNCHANGED vars
    BY <1>3 DEF vars, LinkInv, WriterOwned, StopCancels, SingleClient
  <1> QED  BY <1>1, <1>2, <1>3, LinkStepRun, LinkStepControl DEF Next, Finished

LEMMA LinkInvariant == Spec => []LinkInv
  BY TypeCorrect, LinkInit, LinkStepHolds, PTL DEF Spec

\* The connection never has two sockets that it has not closed: however a
\* connection attempt ends, the next one begins with the old socket closed.
THEOREM OneClient == Spec => []SingleClient
  BY LinkInvariant, PTL DEF LinkInv

\* One step after stop() was called: no connection, no announcement, no command.
LEMMA QuietStep ==
  ASSUME LinkInv, [Next]_vars, stopper # "idle"
  PROVE  /\ ~connected'
         /\ \A k \in Sockets : sock[k] = "free" => sock'[k] = "free"
         /\ \A s \in Callers : fut'[s] = "pending" => fut[s] = "pending"
  <1> USE DEF linkVars, runVars, callVars
  <1>1. ~connected /\ writer = None /\ (cancelling \/ run = "done")
    BY DEF LinkInv, WriterOwned, StopCancels
  <1>2. ASSUME NEW s \in Callers, CallerStep(s)
        PROVE  /\ connected' = connected /\ sock' = sock
               /\ \A u \in Callers : fut'[u] = "pending" => fut[u] = "pending"
    <2>1. ~WriteCommand(s)
      BY <1>1 DEF WriteCommand, CommandReady
    <2> QED  BY <1>2, <2>1, CallersKeepLink DEF LinkInv
  <1>3. ASSUME NEW k \in Sockets, NetworkStep(k)
        PROVE  /\ connected' = connected
               /\ \A j \in Sockets : sock[j] = "free" => sock'[j] = "free"
               /\ \A u \in Callers : fut'[u] = "pending" => fut[u] = "pending"
    BY <1>1, <1>3 DEF NetworkStep, OpenSucceeds, Answer, Confirm, PeerCloses, PeerResets,
                      TransportLost, LinkStep, LinkInv, TypeOK
  <1>4. ASSUME NEW c \in Closers, Close(c)
        PROVE  /\ ~connected'
               /\ \A j \in Sockets : sock[j] = "free" => sock'[j] = "free"
               /\ \A u \in Callers : fut'[u] = "pending" => fut[u] = "pending"
    BY <1>1, <1>4 DEF Close, MustWaitClosed, FailConfirmations, LinkInv, TypeOK
  <1>5. ASSUME NEW c \in Closers, CloseResumes(c)
        PROVE  \A u \in Callers : fut'[u] = "pending" => fut[u] = "pending"
    BY <1>5 DEF CloseResumes, FailConfirmations, LinkInv, TypeOK
  <1>6. CASE RunStep
    BY <1>1, <1>4, <1>5, <1>6 DEF RunStep, Start, Dial, OpenFails, InitDone, InitFails,
       ReadFails, HandlerRaises, RunClosed, SleepOver, CancelInTry, CancelOutside, LeaveTry
  <1>7. CASE ControlStep
    BY <1>1, <1>4, <1>5, <1>7 DEF ControlStep, Stop, StopClosed, StopJoined, Pause,
       PauseClosed, PauseEnds
  <1>8. CASE UNCHANGED vars
    BY <1>1, <1>8 DEF vars
  <1> QED  BY <1>1, <1>2, <1>3, <1>6, <1>7, <1>8 DEF Next, Finished

\* From the moment stop() is called nothing connects, announces the connection
\* or writes a command, whatever the run task and the calls were doing.
THEOREM NothingAfterStop == Spec => QuietAfterStop
  <1>1. LinkInv /\ [Next]_vars =>
          [stopper # "idle" =>
             /\ ~connected'
             /\ \A k \in Sockets : sock[k] = "free" => sock'[k] = "free"
             /\ \A s \in Callers : fut'[s] = "pending" => fut[s] = "pending"]_vars
    BY QuietStep
  <1> QED  BY <1>1, LinkInvariant, PTL DEF Spec, QuietAfterStop

-----------------------------------------------------------------------------
(* The calls that wait for a confirmation, on connections that are not     *)
(* paused: nothing in the repository calls pause().                        *)

Sent(s) == pc[s] \in {"drain", "reply"}

Registered(s) == conf[tag[s]] = s

-----------------------------------------------------------------------------
(* The invariant.  While stop() has not been called, where the run task    *)
(* stands says what every sent command waits for: nothing was sent before  *)
(* the connection is up, everything sent is registered while the task      *)
(* reads or closes, and is failed when the task sleeps.  Nothing is left   *)
(* of it when the task dials again (Settled).                              *)

\* What a call has got is what its place in send_level says.
CallShape ==
  \A s \in Callers :
    /\ Sent(s) => tag[s] \in Tags /\ csock[s] \in Sockets
    /\ ~Sent(s) => tag[s] = None /\ csock[s] = None /\ fut[s] = "none"

\* Were one sent command not registered any more, all of them would have been
\* failed.
AllOrNone ==
  (\E s \in Callers : Sent(s) /\ ~Registered(s)) => \A u \in Callers : fut[u] # "pending"

WaitsFor(k) == \A s \in Callers : Sent(s) => Registered(s) /\ csock[s] = k

RunPhase ==
  stopper = "idle" =>
    /\ connected <=> run = "reading"
    /\ run \in {"none", "begin", "opening", "init"} => \A s \in Callers : ~Sent(s)
    /\ run = "reading" => writer # None /\ WaitsFor(writer)
    /\ run = "closing" => closer["run"] # None /\ WaitsFor(closer["run"])
    /\ run = "sleep" => \A s \in Callers :
                          Sent(s) => fut[s] # "pending" /\ sock[csock[s]] = "free"

StopPhase ==
  /\ stopper # "idle" => \A s \in Callers :
       fut[s] = "pending" => stopper = "closing" /\ closer["stop"] = csock[s]
  /\ stopper = "done" => run = "done"
  /\ run = "done" => ~cancelling /\ stopper # "idle"
  /\ run = "none" => stopper = "idle"
  /\ closer["pause"] = None

CallInv == CallShape /\ AllOrNone /\ RunPhase /\ StopPhase

LEMMA CallInvInit == Init => CallInv
  BY DEF Init, CallInv, CallShape, AllOrNone, RunPhase, StopPhase, Sent, Closers

LEMMA PendingIsRegistered ==
  ASSUME CallShape, AllOrNone
  PROVE  WaitingIsRegistered
  <1> SUFFICES ASSUME NEW s \in Callers, fut[s] = "pending"
               PROVE  tag[s] \in Tags /\ conf[tag[s]] = s
    BY DEF WaitingIsRegistered
  <1>1. Sent(s) /\ tag[s] \in Tags
    BY DEF CallShape
  <1> QED  BY <1>1 DEF AllOrNone, Registered

-----------------------------------------------------------------------------
(* The steps of a call.                                                    *)

\* A call that was not sent, or that goes on waiting, leaves all as it is.
LEMMA CallGoesOn ==
  ASSUME TypeOK, CallInv, TypeOK',
         UNCHANGED <<sock, connected, writer, run, cancelling, closer, stopper>>,
         UNCHANGED <<conf, tag, fut, csock>>,
         \A s \in Callers : Sent(s)' <=> Sent(s)
  PROVE  CallInv'
  BY DEF CallInv, CallShape, AllOrNone, RunPhase, StopPhase, WaitsFor, Registered

LEMMA CallEnds ==
  ASSUME TypeOK, CallInv, NEW s \in Callers, pc[s] \in {"lock", "drain", "reply"},
         NEW o, Leave(s, o)
  PROVE  CallInv'
  <1>1. UNCHANGED <<sock, connected, writer, run, cancelling, closer, stopper>>
    BY DEF Leave, runVars
  <1>2. /\ pc' = [pc EXCEPT ![s] = "idle"]
        /\ tag' = [tag EXCEPT ![s] = None]
        /\ csock' = [csock EXCEPT ![s] = None]
        /\ fut' = [fut EXCEPT ![s] = "none"]
        /\ conf' = [t \in Tags |-> IF t = tag[s] THEN None ELSE conf[t]]
    BY DEF Leave
  <1>3. ~Sent(s)'
    BY <1>2 DEF Sent, TypeOK
  <1>4. ASSUME NEW u \in Callers, u # s
        PROVE  /\ Sent(u)' <=> Sent(u)
               /\ tag'[u] = tag[u] /\ csock'[u] = csock[u] /\ fut'[u] = fut[u]
    BY <1>2, <1>4 DEF Sent, TypeOK
  <1>5. CallShape'
    BY <1>2, <1>3, <1>4 DEF CallInv, CallShape, TypeOK
  \* No other sent call loses its entry, unless two calls have one tag.
  <1>6. ASSUME NEW u \in Callers, u # s, Sent(u), Registered(u), ~Registered(u)'
        PROVE  Sent(s) /\ ~Registered(s)
    <2>1. tag[u] \in Tags /\ conf[tag[u]] = u /\ conf'[tag[u]] # u
      BY <1>4, <1>6 DEF Registered, CallInv, CallShape
    <2>2. tag[u] = tag[s]
      BY <1>2, <2>1
    <2>3. tag[s] # None
      BY <2>1, <2>2, NoneAssumption DEF Tags
    <2>4. Sent(s)
      BY <2>3 DEF CallInv, CallShape
    <2> QED  BY <1>6, <2>1, <2>2, <2>4 DEF Registered
  <1>7. AllOrNone'
    BY <1>2, <1>3, <1>4, <1>6 DEF AllOrNone, CallInv, TypeOK
  <1>8. ASSUME NEW k, WaitsFor(k)
        PROVE  WaitsFor(k)'
    BY <1>3, <1>4, <1>6, <1>8 DEF WaitsFor
  <1>9. RunPhase'
    <2> SUFFICES ASSUME stopper = "idle"
                 PROVE  /\ connected <=> run = "reading"
                        /\ run \in {"none", "begin", "opening", "init"} =>
                             \A u \in Callers : ~Sent(u)'
                        /\ run = "reading" => writer # None /\ WaitsFor(writer)'
                        /\ run = "closing" => closer["run"] # None /\ WaitsFor(closer["run"])'
                        /\ run = "sleep" => \A u \in Callers :
                             Sent(u)' => fut'[u] # "pending" /\ sock[csock'[u]] = "free"
      BY <1>1 DEF RunPhase, WaitsFor
    <2> QED  BY <1>1, <1>3, <1>4, <1>8 DEF CallInv, RunPhase
  <1>10. StopPhase'
    BY <1>1, <1>2, <1>4 DEF StopPhase, CallInv, TypeOK
  <1> QED  BY <1>5, <1>7, <1>9, <1>10 DEF CallInv

\* A command goes out only while the run task reads; then everything sent is
\* registered, and the tag taken is not the tag of another call.
LEMMA CallIsSent ==
  ASSUME LinkInv, CallInv, NEW s \in Callers, WriteCommand(s)
  PROVE  CallInv'
  <1>1. TypeOK /\ pc[s] = "lock" /\ ~Sent(s)
    BY DEF LinkInv, WriteCommand, Sent
  <1>2. UNCHANGED <<sock, connected, writer, run, cancelling, closer, stopper>>
    BY DEF WriteCommand, runVars
  <1>3. writer \in Sockets /\ connected /\ stopper = "idle" /\ run = "reading"
    BY <1>1 DEF WriteCommand, CommandReady, LinkInv, WriterOwned, CallInv, RunPhase, TypeOK
  <1>4. WaitsFor(writer)
    BY <1>3 DEF CallInv, RunPhase
  <1>5. PICK t \in Tags : conf[t] = None /\ conf' = [conf EXCEPT ![t] = s]
                          /\ tag' = [tag EXCEPT ![s] = t]
    BY DEF WriteCommand, IsNextTag, FreeTags
  <1>6. /\ fut' = [fut EXCEPT ![s] = "pending"]
        /\ csock' = [csock EXCEPT ![s] = writer]
        /\ pc' = [pc EXCEPT ![s] = "drain"]
    BY DEF WriteCommand
  <1>7. Sent(s)' /\ Registered(s)' /\ csock'[s] = writer /\ tag'[s] = t
    BY <1>1, <1>5, <1>6 DEF Sent, Registered, TypeOK
  <1>8. ASSUME NEW u \in Callers, u # s
        PROVE  /\ Sent(u)' <=> Sent(u)
               /\ tag'[u] = tag[u] /\ csock'[u] = csock[u] /\ fut'[u] = fut[u]
    BY <1>1, <1>5, <1>6, <1>8 DEF Sent, TypeOK
  <1>9. ASSUME NEW u \in Callers, u # s, Sent(u)
        PROVE  Registered(u)' /\ csock'[u] = writer
    <2>1. conf[tag[u]] = u /\ csock[u] = writer /\ tag[u] \in Tags
      BY <1>4, <1>9 DEF WaitsFor, Registered, CallInv, CallShape
    <2>2. tag[u] # t
      BY <1>5, <2>1, CallersAssumption
    <2> QED  BY <1>1, <1>5, <1>8, <1>9, <2>1, <2>2 DEF Registered, TypeOK
  <1>10. CallShape'
    BY <1>3, <1>7, <1>8 DEF CallInv, CallShape
  <1>11. AllOrNone' /\ WaitsFor(writer)'
    BY <1>2, <1>7, <1>8, <1>9 DEF AllOrNone, WaitsFor
  <1>12. RunPhase'
    BY <1>2, <1>3, <1>11, NoneAssumption DEF RunPhase, CallInv, WaitsFor
  <1>13. StopPhase'
    BY <1>2, <1>3 DEF StopPhase, CallInv
  <1> QED  BY <1>10, <1>11, <1>12, <1>13 DEF CallInv

LEMMA CallInvCaller ==
  ASSUME LinkInv, CallInv, TypeOK', NEW s \in Callers, CallerStep(s)
  PROVE  CallInv'
  <1> USE DEF linkVars, runVars
  <1>0. TypeOK
    BY DEF LinkInv
  <1>1. CASE Call(s) \/ AcquireSlot(s) \/ CancelWaiting(s) \/ DrainDone(s)
    <2>1. /\ UNCHANGED <<sock, connected, writer, run, cancelling, closer, stopper>>
          /\ UNCHANGED <<conf, tag, fut, csock>>
      BY <1>1 DEF Call, AcquireSlot, CancelWaiting, DrainDone
    <2>2. \A u \in Callers : Sent(u)' <=> Sent(u)
      BY <1>0, <1>1 DEF Call, AcquireSlot, CancelWaiting, DrainDone, Sent, TypeOK
    <2> QED  BY <1>0, <2>1, <2>2, CallGoesOn
  <1>2. CASE WriteCommand(s)
    BY <1>2, CallIsSent
  <1>3. ASSUME NEW o, Leave(s, o), pc[s] \in {"lock", "drain", "reply"}
        PROVE  CallInv'
    BY <1>0, <1>3, CallEnds
  <1> QED  BY <1>1, <1>2, <1>3 DEF CallerStep, WriteRefused, DrainReplied, DrainLost,
                                   Reply, Timeout, CancelCall

-----------------------------------------------------------------------------
(* The other steps: none of them changes what a call holds, but they fail  *)
(* the calls and move the run task.                                        *)

CallsKept == UNCHANGED <<pc, tag, csock>>

\* _close() reaches every call that waits.
LEMMA AllFailed ==
  ASSUME TypeOK, CallShape, AllOrNone, FailConfirmations
  PROVE  \A u \in Callers : fut'[u] # "pending" /\ (fut[u] = "none" => fut'[u] = "none")
  BY PendingIsRegistered DEF FailConfirmations, WaitingIsRegistered, TypeOK

LEMMA ShapeKept ==
  ASSUME TypeOK, CallInv, CallsKept, UNCHANGED <<conf, fut>> \/ FailConfirmations
  PROVE  CallShape' /\ AllOrNone'
  <1>1. CASE UNCHANGED <<conf, fut>>
    BY <1>1 DEF CallInv, CallShape, AllOrNone, CallsKept, Sent, Registered
  <1>2. CASE FailConfirmations
    BY <1>2, AllFailed DEF CallInv, CallShape, AllOrNone, CallsKept, Sent
  <1> QED  BY <1>1, <1>2

LEMMA CallInvNetwork ==
  ASSUME LinkInv, CallInv, NEW k \in Sockets, NetworkStep(k)
  PROVE  CallInv'
  <1> USE DEF runVars, callVars
  <1>0. TypeOK
    BY DEF LinkInv
  <1>1. CASE OpenSucceeds(k)
    <2>1. CallsKept /\ UNCHANGED <<conf, fut, connected, cancelling, closer, stopper>>
      BY <1>1 DEF OpenSucceeds, CallsKept
    <2>2. run = "opening" /\ run' = "init" /\ stopper = "idle"
      BY <1>1 DEF OpenSucceeds, LinkInv, StopCancels
    <2>3. CallShape' /\ AllOrNone'
      BY <1>0, <2>1, ShapeKept
    <2> QED  BY <2>1, <2>2, <2>3 DEF CallInv, RunPhase, StopPhase, CallsKept, Sent
  <1>2. CASE Answer(k)
    <2>1. /\ CallsKept
          /\ UNCHANGED <<conf, sock, run, writer, connected, cancelling, closer, stopper>>
      BY <1>2 DEF Answer, Confirm, CallsKept
    <2>2. /\ run = "reading"
          /\ \A s \in Callers : /\ fut'[s] = "pending" => fut[s] = "pending"
                                /\ fut[s] = "none" => fut'[s] = "none"
      BY <1>2 DEF Answer, Confirm
    <2>3. CallShape' /\ AllOrNone'
      BY <2>1, <2>2 DEF CallInv, CallShape, AllOrNone, CallsKept, Sent, Registered
    <2> QED  BY <2>1, <2>2, <2>3
             DEF CallInv, RunPhase, StopPhase, WaitsFor, CallsKept, Sent, Registered
  <1>3. CASE PeerCloses(k) \/ PeerResets(k) \/ TransportLost(k)
    <2>1. /\ CallsKept
          /\ UNCHANGED <<conf, fut, run, writer, connected, cancelling, closer, stopper>>
      BY <1>3 DEF PeerCloses, PeerResets, TransportLost, LinkStep, CallsKept
    <2>2. \A j \in Sockets : sock[j] = "free" => sock'[j] = "free"
      BY <1>0, <1>3 DEF PeerCloses, PeerResets, TransportLost, LinkStep, TypeOK
    <2>3. CallShape' /\ AllOrNone'
      BY <1>0, <2>1, ShapeKept
    <2> QED  BY <2>1, <2>2, <2>3
             DEF CallInv, CallShape, RunPhase, StopPhase, WaitsFor, CallsKept, Sent, Registered
  <1> QED  BY <1>1, <1>2, <1>3 DEF NetworkStep

\* The run task leaves its try block.
LEMMA CallInvLeaveTry ==
  ASSUME LinkInv, CallInv, LeaveTry,
         run \in {"opening", "reading"} \/ (run = "init" /\ ~MustWaitClosed),
         stopper # "idle" => cancelling /\ ~cancelling',
         stopper = "idle" => ~cancelling'
  PROVE  CallInv'
  <1>0. TypeOK /\ CallShape /\ AllOrNone
    BY DEF LinkInv, CallInv
  <1>1. CallsKept /\ connected' = FALSE /\ writer' = None /\ stopper' = stopper
    BY DEF LeaveTry, Close, CallsKept, callVars
  <1>2. CASE MustWaitClosed
    <2>1. writer # None /\ stopper = "idle" /\ run = "reading" /\ run' = "closing"
      BY <1>2 DEF MustWaitClosed, LinkInv, WriterOwned, LeaveTry
    <2>2. UNCHANGED <<conf, fut>> /\ closer' = [closer EXCEPT !["run"] = writer]
      BY <1>2 DEF LeaveTry, Close
    <2>3. closer'["run"] = writer /\ closer'["pause"] = closer["pause"]
      BY <1>0, <2>2 DEF TypeOK, Closers
    <2>4. CallShape' /\ AllOrNone'
      BY <1>0, <1>1, <2>2, ShapeKept
    <2>5. RunPhase'
      BY <1>1, <2>1, <2>2, <2>3
      DEF RunPhase, CallInv, WaitsFor, CallsKept, Sent, Registered
    <2>6. StopPhase'
      BY <1>1, <2>1, <2>3 DEF StopPhase, CallInv
    <2> QED  BY <2>4, <2>5, <2>6 DEF CallInv
  <1>3. CASE ~MustWaitClosed
    <2>1. /\ FailConfirmations /\ UNCHANGED <<sock, closer>>
          /\ run' = IF stopper = "idle" THEN "sleep" ELSE "done"
      BY <1>3 DEF LeaveTry, Close, AfterClose
    <2>2. CallShape' /\ AllOrNone'
      BY <1>0, <1>1, <2>1, ShapeKept
    <2>3. \A u \in Callers : fut'[u] # "pending"
      BY <1>0, <2>1, AllFailed
    <2>4. ASSUME stopper = "idle", NEW s \in Callers, Sent(s)
          PROVE  sock[csock[s]] = "free"
      <3>1. run = "reading" /\ writer # None /\ csock[s] = writer
        BY <2>4 DEF CallInv, RunPhase, WaitsFor
      <3> QED  BY <1>3, <3>1 DEF MustWaitClosed
    <2>5. RunPhase'
      BY <1>1, <2>1, <2>3, <2>4 DEF RunPhase, CallsKept, Sent
    <2>6. StopPhase'
      BY <1>1, <2>1, <2>3 DEF StopPhase, CallInv
    <2> QED  BY <2>2, <2>5, <2>6 DEF CallInv
  <1> QED  BY <1>2, <1>3

\* When the loop has settled, nothing is left of the calls that were failed.
LEMMA NothingLeft ==
  ASSUME TypeOK, CallInv, stopper = "idle", run = "sleep", Settled
  PROVE  \A s \in Callers : ~Sent(s)
  BY DEF Settled, CallerReady, CallInv, RunPhase, Sent

LEMMA CallInvRun ==
  ASSUME LinkInv, CallInv, RunStep
  PROVE  CallInv'
  <1> USE DEF linkVars, callVars
  <1>0. TypeOK
    BY DEF LinkInv
  <1>1. CASE Start \/ Dial \/ InitDone \/ SleepOver
    <2>1. CallsKept /\ UNCHANGED <<conf, fut, sock, writer, cancelling, closer, stopper>>
      BY <1>1 DEF Start, Dial, InitDone, SleepOver, CallsKept
    <2>2. CallShape' /\ AllOrNone'
      BY <1>0, <2>1, ShapeKept
    <2>3. stopper = "idle"
      BY <1>1 DEF Start, Dial, InitDone, SleepOver, LinkInv, StopCancels, CallInv, StopPhase
    <2>4. \A s \in Callers : ~Sent(s)
      BY <1>0, <1>1, <2>3, NothingLeft
      DEF Start, Dial, InitDone, SleepOver, CallInv, RunPhase
    <2>5. /\ connected' <=> run' = "reading"
          /\ run' \in {"begin", "opening", "reading"}
          /\ run' = "reading" => writer # None
      BY <1>1, <2>3 DEF Start, Dial, InitDone, SleepOver, CallInv, RunPhase
    <2>6. RunPhase'
      BY <2>1, <2>3, <2>4, <2>5 DEF RunPhase, WaitsFor, CallsKept, Sent
    <2>7. StopPhase'
      BY <2>1, <2>3, <2>5 DEF StopPhase, CallInv
    <2> QED  BY <2>2, <2>6, <2>7 DEF CallInv
  <1>2. CASE OpenFails \/ InitFails \/ ReadFails \/ HandlerRaises \/ CancelInTry
    <2>0. cancelling => ~MustWaitClosed
      BY DEF MustWaitClosed, LinkInv, WriterOwned
    <2>1. /\ LeaveTry
          /\ run \in {"opening", "reading"} \/ (run = "init" /\ ~MustWaitClosed)
      BY <1>2, <2>0 DEF OpenFails, InitFails, ReadFails, HandlerRaises, CancelInTry
    <2>2. (stopper # "idle" => cancelling /\ ~cancelling') /\ (stopper = "idle" => ~cancelling')
      BY <1>2 DEF OpenFails, InitFails, ReadFails, HandlerRaises, CancelInTry, LinkInv, StopCancels
    <2> QED  BY <2>1, <2>2, CallInvLeaveTry
  <1>3. CASE RunClosed
    <2>1. CallsKept /\ UNCHANGED <<sock, writer, connected, cancelling, stopper>>
      BY <1>3 DEF RunClosed, CallsKept
    <2>2. /\ FailConfirmations /\ run = "closing" /\ run' = "sleep" /\ stopper = "idle"
          /\ sock[closer["run"]] = "free" /\ closer'["pause"] = closer["pause"]
      BY <1>0, <1>3 DEF RunClosed, CloseResumes, TransportGone, AfterClose, LinkInv,
                        StopCancels, TypeOK, Closers
    <2>3. CallShape' /\ AllOrNone'
      BY <1>0, <2>1, <2>2, ShapeKept
    <2>4. \A u \in Callers : fut'[u] # "pending"
      BY <1>0, <2>2, AllFailed DEF CallInv
    <2>5. RunPhase'
      BY <2>1, <2>2, <2>4 DEF RunPhase, CallInv, WaitsFor, CallsKept, Sent
    <2>6. StopPhase'
      BY <2>1, <2>2, <2>4 DEF StopPhase, CallInv
    <2> QED  BY <2>3, <2>5, <2>6 DEF CallInv
  <1>4. CASE CancelOutside
    <2>1. CallsKept /\ UNCHANGED <<conf, fut, sock, writer, connected, stopper>>
      BY <1>4 DEF CancelOutside, CallsKept
    <2>2. /\ stopper # "idle" /\ run' = "done" /\ ~cancelling'
          /\ closer'["stop"] = closer["stop"] /\ closer'["pause"] = closer["pause"]
      BY <1>0, <1>4 DEF CancelOutside, LinkInv, StopCancels, TypeOK, Closers
    <2>3. CallShape' /\ AllOrNone'
      BY <1>0, <2>1, ShapeKept
    <2> QED  BY <2>1, <2>2, <2>3 DEF CallInv, RunPhase, StopPhase, CallsKept
  <1> QED  BY <1>1, <1>2, <1>3, <1>4 DEF RunStep

\* stop() finds the calls waiting for the writer it closes, or for the socket
\* that the run task is closing; in the second case it fails them at once.
LEMMA CallInvControl ==
  ASSUME LinkInv, CallInv, ~Pausing, ControlStep
  PROVE  CallInv'
  <1> USE DEF linkVars, runVars, callVars
  <1>0. TypeOK /\ CallShape /\ AllOrNone /\ ~Pause
    BY DEF LinkInv, CallInv, Pause
  <1>1. CASE Stop
    <2>1. CallsKept /\ Close("stop") /\ UNCHANGED run /\ stopper = "idle" /\ run # "none"
      BY <1>1 DEF Stop, CallsKept
    <2>2. stopper' = (IF MustWaitClosed THEN "closing" ELSE "joining")
          /\ cancelling' = (run # "done")
      BY <1>1 DEF Stop
    <2>3. UNCHANGED <<conf, fut>> \/ FailConfirmations
      BY <2>1 DEF Close
    <2>4. CallShape' /\ AllOrNone'
      BY <1>0, <2>1, <2>3, ShapeKept
    <2>5. ASSUME NEW s \in Callers, fut'[s] = "pending"
          PROVE  MustWaitClosed /\ closer'["stop"] = csock'[s]
      <3>1. MustWaitClosed /\ UNCHANGED fut /\ closer'["stop"] = writer
        BY <1>0, <2>1, <2>5, AllFailed DEF Close, TypeOK, Closers
      <3>2. Sent(s)
        BY <1>0, <2>5, <3>1 DEF CallShape
      <3>3. run = "reading"
        BY <2>1, <3>1, <3>2 DEF MustWaitClosed, LinkInv, WriterOwned, CallInv, RunPhase
      <3> QED  BY <2>1, <3>1, <3>2, <3>3 DEF CallInv, RunPhase, WaitsFor, CallsKept
    <2>6. closer'["pause"] = closer["pause"]
      BY <1>0, <2>1 DEF Close, TypeOK, Closers
    <2>7. RunPhase' /\ StopPhase'
      BY <2>1, <2>2, <2>5, <2>6 DEF RunPhase, StopPhase, CallInv
    <2> QED  BY <2>4, <2>7 DEF CallInv
  <1>2. CASE StopClosed
    <2>1. /\ CallsKept /\ UNCHANGED <<run, cancelling>>
          /\ stopper = "closing" /\ stopper' = "joining"
      BY <1>2 DEF StopClosed, CallsKept
    <2>2. FailConfirmations /\ closer'["pause"] = closer["pause"]
      BY <1>0, <1>2 DEF StopClosed, CloseResumes, TypeOK, Closers
    <2>3. CallShape' /\ AllOrNone'
      BY <1>0, <2>1, <2>2, ShapeKept
    <2>4. \A u \in Callers : fut'[u] # "pending"
      BY <1>0, <2>2, AllFailed
    <2> QED  BY <2>1, <2>2, <2>3, <2>4 DEF CallInv, RunPhase, StopPhase
  <1>3. CASE StopJoined
    <2>1. CallsKept /\ UNCHANGED <<conf, fut, run, cancelling, closer>>
      BY <1>3 DEF StopJoined, CallsKept
    <2>2. stopper = "joining" /\ stopper' = "done" /\ run = "done"
      BY <1>3 DEF StopJoined
    <2>3. CallShape' /\ AllOrNone'
      BY <1>0, <2>1, ShapeKept
    <2> QED  BY <2>1, <2>2, <2>3 DEF CallInv, RunPhase, StopPhase
  <1>4. CASE PauseEnds
    <2>1. CallsKept /\ UNCHANGED <<conf, fut>>
          /\ UNCHANGED <<sock, writer, connected, run, cancelling, closer, stopper>>
      BY <1>4 DEF PauseEnds, CallsKept
    <2>2. CallShape' /\ AllOrNone'
      BY <1>0, <2>1, ShapeKept
    <2> QED  BY <2>1, <2>2
             DEF CallInv, RunPhase, StopPhase, WaitsFor, CallsKept, Sent, Registered
  <1>5. ~PauseClosed
    BY DEF PauseClosed, CloseResumes, TransportGone, CallInv, StopPhase
  <1> QED  BY <1>0, <1>1, <1>2, <1>3, <1>4, <1>5 DEF ControlStep

LEMMA CallInvStep ==
  ASSUME ~Pausing
  PROVE  LinkInv /\ TypeOK' /\ CallInv /\ [Next]_vars => CallInv'
  <1> SUFFICES ASSUME LinkInv, TypeOK', CallInv, [Next]_vars PROVE CallInv'
    OBVIOUS
  <1>1. CASE UNCHANGED vars
    BY <1>1 DEF vars, CallInv, CallShape, AllOrNone, RunPhase, StopPhase, WaitsFor,
                Sent, Registered
  <1> QED  BY <1>1, CallInvCaller, CallInvNetwork, CallInvRun, CallInvControl
           DEF Next, Finished

LEMMA CallInvariant == ASSUME ~Pausing PROVE Spec => []CallInv
  <1>1. LinkInv /\ TypeOK' /\ CallInv /\ [Next]_vars => CallInv'
    BY CallInvStep
  <1> QED  BY <1>1, CallInvInit, LinkInvariant, TypeCorrect, PTL DEF Spec

-----------------------------------------------------------------------------
\* Every call that waits can be reached, by its confirmation and by _close():
\* no other call ever has or pops its tag.
THEOREM EveryWaitingCallIsRegistered ==
  ASSUME ~Pausing
  PROVE  Spec => []WaitingIsRegistered
  <1>1. CallInv => WaitingIsRegistered
    BY PendingIsRegistered DEF CallInv
  <1> QED  BY <1>1, CallInvariant, PTL

\* No call waits on a connection that is gone: the one it waits for is up, or
\* some task is closing it and fails the call when it has.
THEOREM EveryWaitingCallHasALink ==
  ASSUME ~Pausing
  PROVE  Spec => []WaitingHasLink
  <1>1. LinkInv /\ CallInv => WaitingHasLink
    <2> SUFFICES ASSUME LinkInv, CallInv, NEW s \in Callers, fut[s] = "pending"
                 PROVE  \/ connected /\ csock[s] = writer
                        \/ \E c \in Closers : closer[c] # None /\ closer[c] = csock[s]
      BY DEF WaitingHasLink
    <2>1. Sent(s) /\ csock[s] # None
      BY NoneAssumption DEF CallInv, CallShape
    <2>2. CASE stopper # "idle"
      BY <2>1, <2>2 DEF CallInv, StopPhase, Closers
    <2>3. CASE stopper = "idle"
      <3>1. run \in {"reading", "closing"}
        BY <2>1, <2>3 DEF CallInv, RunPhase, StopPhase, LinkInv, TypeOK
      <3> QED  BY <2>1, <2>3, <3>1 DEF CallInv, RunPhase, WaitsFor, Closers
    <2> QED  BY <2>2, <2>3
  <1> QED  BY <1>1, CallInvariant, LinkInvariant, PTL

\* stop() returns with the run task ended, every socket closed and no call
\* waiting for a confirmation.
THEOREM StopReleasesAll ==
  ASSUME ~Pausing
  PROVE  Spec => []StopReleases
  <1>1. LinkInv /\ CallInv => StopReleases
    BY NoneAssumption DEF LinkInv, TypeOK, WriterOwned, SingleClient, CallInv, StopPhase,
                          StopReleases
  <1> QED  BY <1>1, CallInvariant, LinkInvariant, PTL

-----------------------------------------------------------------------------
(* A connection that is not paused, and whose calls outlive the answers    *)
(* the CNI gives them (Timely), implements ConfirmedCommands.              *)

\* What the CNI owes, it owes to a call that is still there and that it has not
\* answered yet: an answer is never late, and never the second one.
OwedToCalls ==
  \A k \in Sockets : \A o \in owed[k] :
    /\ o[2] \in Callers /\ Sent(o[2]) /\ tag[o[2]] = o[1] /\ csock[o[2]] = k
    /\ verdict[o[2]] = "none"

\* Histories of a call: nothing is said of it before it is sent, nothing is
\* reported before it ends, and success only follows acceptance.
Histories ==
  \A s \in Callers :
    /\ pc[s] \in {"slot", "lock"} => verdict[s] = "none"
    /\ pc[s] # "idle" => ret[s] = "none"
    /\ fut[s] = "ok" => verdict[s] = "accepted"
    /\ ret[s] = "ok" => verdict[s] = "accepted"

AnswerInv == OwedToCalls /\ Histories

LEMMA AnswerInvInit == Init => AnswerInv
  BY DEF Init, AnswerInv, OwedToCalls, Histories

\* Steps that answer no command and end no call.
LEMMA AnswersKept ==
  ASSUME AnswerInv, UNCHANGED <<pc, tag, csock, ret, verdict>>,
         \A k \in Sockets : owed'[k] \subseteq owed[k],
         \A s \in Callers : fut'[s] = "ok" => fut[s] = "ok"
  PROVE  AnswerInv'
  BY DEF AnswerInv, OwedToCalls, Histories, Sent

LEMMA AnswersLeave ==
  ASSUME TypeOK, AnswerInv, Timely, NEW s \in Callers, NEW o \in {"ok", "error"},
         pc[s] # "idle", o = "ok" => fut[s] = "ok", Leave(s, o)
  PROVE  AnswerInv'
  <1>1. /\ pc' = [pc EXCEPT ![s] = "idle"]
        /\ tag' = [tag EXCEPT ![s] = None]
        /\ csock' = [csock EXCEPT ![s] = None]
        /\ fut' = [fut EXCEPT ![s] = "none"]
        /\ ret' = [ret EXCEPT ![s] = o]
        /\ verdict' = verdict
    BY DEF Leave
  <1>2. \A k \in Sockets : owed'[k] = {e \in owed[k] : e[2] # s}
    BY DEF Leave
  <1>3. OwedToCalls'
    BY <1>1, <1>2 DEF AnswerInv, OwedToCalls, Sent, TypeOK
  <1>4. Histories'
    BY <1>1 DEF AnswerInv, Histories, TypeOK
  <1> QED  BY <1>3, <1>4 DEF AnswerInv

\* The run task hands an answer to the call it is for.
LEMMA AnswerFinds ==
  ASSUME LinkInv, CallInv, AnswerInv,
         NEW k \in Sockets, NEW o \in owed[k], NEW accepted \in BOOLEAN,
         Confirm(k, o, accepted)
  PROVE  /\ connected /\ o[2] \in Callers /\ Sent(o[2]) /\ verdict[o[2]] = "none"
         /\ conf[o[1]] = o[2]
  <1>1. run = "reading" /\ ~cancelling
    BY DEF Confirm
  <1>2. stopper = "idle"
    BY <1>1 DEF LinkInv, StopCancels
  <1>3. o[2] \in Callers /\ Sent(o[2]) /\ tag[o[2]] = o[1] /\ verdict[o[2]] = "none"
    BY DEF AnswerInv, OwedToCalls
  <1>4. connected /\ Registered(o[2])
    BY <1>1, <1>2, <1>3 DEF CallInv, RunPhase, WaitsFor
  <1> QED  BY <1>3, <1>4 DEF Registered

LEMMA AnswersConfirm ==
  ASSUME LinkInv, CallInv, AnswerInv,
         NEW k \in Sockets, NEW o \in owed[k], NEW accepted \in BOOLEAN,
         Confirm(k, o, accepted)
  PROVE  AnswerInv'
  <1>0. TypeOK
    BY DEF LinkInv
  <1>1. PICK s \in Callers : /\ s = o[2] /\ conf[o[1]] = s /\ Sent(s)
                             /\ tag[s] = o[1] /\ csock[s] = k /\ verdict[s] = "none"
    BY AnswerFinds DEF AnswerInv, OwedToCalls
  <1>2. /\ UNCHANGED <<pc, tag, csock, ret>>
        /\ owed' = [owed EXCEPT ![k] = @ \ {o}]
        /\ verdict' = [verdict EXCEPT ![s] = IF accepted THEN "accepted" ELSE "rejected"]
        /\ \A u \in Callers : fut'[u] = "ok" => fut[u] = "ok" \/ (u = s /\ accepted)
    <2>1. UNCHANGED <<pc, tag, csock, ret>> /\ owed' = [owed EXCEPT ![k] = @ \ {o}]
      BY DEF Confirm, callVars
    <2>2. verdict' = [u \in Callers |->
                        IF u = s THEN IF accepted THEN "accepted" ELSE "rejected"
                        ELSE verdict[u]]
      BY <1>1 DEF Confirm
    <2>3. verdict' = [verdict EXCEPT ![s] = IF accepted THEN "accepted" ELSE "rejected"]
      BY <1>0, <2>2 DEF TypeOK
    <2>4. \A u \in Callers : fut'[u] = "ok" => fut[u] = "ok" \/ (u = s /\ accepted)
      BY <1>1 DEF Confirm
    <2> QED  BY <2>1, <2>3, <2>4
  <1>3. fut[s] # "ok" /\ ret[s] # "ok"
    BY <1>1 DEF AnswerInv, Histories
  \* No other answer is owed to s: a call is sent once, under one tag.
  <1>4. ASSUME NEW j \in Sockets, NEW e \in owed'[j]
        PROVE  e \in owed[j] /\ e[2] # s
    <2>1. e \in owed[j] /\ (j = k => e # o)
      BY <1>0, <1>2, <1>4 DEF TypeOK
    <2>2. e \in Tags \X (Callers \cup {None}) /\ o \in Tags \X (Callers \cup {None})
      BY <1>0, <2>1 DEF TypeOK
    <2>3. e[2] = s => j = k /\ e[1] = o[1]
      BY <1>1, <2>1 DEF AnswerInv, OwedToCalls
    <2> QED  BY <1>1, <2>1, <2>2, <2>3
  <1>5. OwedToCalls'
    BY <1>0, <1>2, <1>4 DEF AnswerInv, OwedToCalls, Sent, TypeOK
  <1>6. Histories'
    BY <1>0, <1>1, <1>2, <1>3 DEF AnswerInv, Histories, Sent, TypeOK
  <1> QED  BY <1>5, <1>6 DEF AnswerInv

LEMMA AnswerInvCaller ==
  ASSUME LinkInv, AnswerInv, CallInv, Timely, NEW s \in Callers, CallerStep(s)
  PROVE  AnswerInv'
  <1> USE DEF linkVars, runVars
  <1>0. TypeOK
    BY DEF LinkInv
  <1>1. CASE Call(s)
    <2>1. fut[s] = "none"
      BY <1>1 DEF Call, CallInv, CallShape, Sent
    <2> QED  BY <1>0, <1>1, <2>1 DEF Call, AnswerInv, OwedToCalls, Histories, Sent, TypeOK
  <1>2. CASE AcquireSlot(s)
    BY <1>0, <1>2 DEF AcquireSlot, AnswerInv, OwedToCalls, Histories, Sent, TypeOK
  <1>3. CASE WriteCommand(s)
    <2>1. PICK t \in Tags :
            /\ tag' = [tag EXCEPT ![s] = t]
            /\ owed' = [owed EXCEPT ![writer] =
                          IF sock[writer] = "open" THEN @ \cup {<<t, s>>} ELSE @]
      BY <1>3 DEF WriteCommand
    <2>2. /\ pc' = [pc EXCEPT ![s] = "drain"] /\ csock' = [csock EXCEPT ![s] = writer]
          /\ fut' = [fut EXCEPT ![s] = "pending"] /\ UNCHANGED <<ret, verdict>>
          /\ pc[s] = "lock" /\ writer \in Sockets
      BY <1>0, <1>3 DEF WriteCommand, CommandReady, TypeOK
    <2>3. verdict[s] = "none" /\ ret[s] = "none"
      BY <2>2 DEF AnswerInv, Histories
    <2>4. ASSUME NEW k \in Sockets, NEW o \in owed'[k]
          PROVE  /\ o[2] \in Callers /\ Sent(o[2])' /\ tag'[o[2]] = o[1] /\ csock'[o[2]] = k
                 /\ verdict'[o[2]] = "none"
      <3>1. CASE o \in owed[k]
        <4>1. /\ o[2] \in Callers /\ Sent(o[2]) /\ tag[o[2]] = o[1] /\ csock[o[2]] = k
              /\ verdict[o[2]] = "none"
          BY <3>1 DEF AnswerInv, OwedToCalls
        <4>2. o[2] # s
          BY <2>2, <4>1 DEF Sent
        <4> QED  BY <1>0, <2>1, <2>2, <4>1, <4>2 DEF Sent, TypeOK
      <3>2. CASE o \notin owed[k]
        <4>1. k = writer /\ o = <<t, s>>
          BY <1>0, <2>1, <2>4, <3>2 DEF TypeOK
        <4> QED  BY <1>0, <2>1, <2>2, <2>3, <4>1 DEF Sent, TypeOK
      <3> QED  BY <3>1, <3>2
    <2>5. OwedToCalls'
      BY <2>4 DEF OwedToCalls
    <2>6. Histories'
      BY <1>0, <2>2, <2>3 DEF AnswerInv, Histories, TypeOK
    <2> QED  BY <2>5, <2>6 DEF AnswerInv
  <1>4. CASE DrainDone(s)
    BY <1>0, <1>4 DEF DrainDone, AnswerInv, OwedToCalls, Histories, Sent, TypeOK
  <1>5. CASE DrainReplied(s) \/ Reply(s)
    <2>1. Leave(s, Outcome(s)) /\ pc[s] # "idle"
      BY <1>5 DEF DrainReplied, Reply
    <2> QED  BY <1>0, <2>1, AnswersLeave DEF Outcome
  <1>6. CASE WriteRefused(s) \/ DrainLost(s) \/ Timeout(s) \/ CancelCall(s)
    <2>1. Leave(s, "error") /\ pc[s] # "idle"
      BY <1>6 DEF WriteRefused, DrainLost, Timeout, CancelCall
    <2> QED  BY <1>0, <2>1, AnswersLeave
  <1>7. ~CancelWaiting(s)
    BY DEF CancelWaiting
  <1> QED  BY <1>1, <1>2, <1>3, <1>4, <1>5, <1>6, <1>7 DEF CallerStep

\* Steps of the run task, of stop() and of TCP: calls are failed, never confirmed.
LEMMA OthersKeepAnswers ==
  ASSUME TypeOK, RunStep \/ ControlStep \/ (\E k \in Sockets : NetworkStep(k) /\ ~Answer(k))
  PROVE  /\ UNCHANGED <<pc, tag, csock, ret, verdict>>
         /\ \A k \in Sockets : owed'[k] \subseteq owed[k]
         /\ \A s \in Callers : fut'[s] = "ok" => fut[s] = "ok"
  <1> USE DEF linkVars, callVars
  <1>1. ASSUME RunStep \/ ControlStep
        PROVE  /\ UNCHANGED <<pc, tag, csock, ret, verdict, owed>>
               /\ fut' = fut \/ FailConfirmations
    BY <1>1 DEF RunStep, Start, Dial, OpenFails, InitDone, InitFails, ReadFails,
                  HandlerRaises, RunClosed,
       SleepOver, CancelInTry, CancelOutside, LeaveTry, ControlStep, Stop, StopClosed,
       StopJoined, Pause, PauseClosed, PauseEnds, Close, CloseResumes
  <1>2. ASSUME NEW k \in Sockets, NetworkStep(k), ~Answer(k)
        PROVE  /\ UNCHANGED <<pc, tag, csock, ret, verdict, fut>>
               /\ \A j \in Sockets : owed'[j] \subseteq owed[j]
    BY <1>2 DEF NetworkStep, OpenSucceeds, PeerCloses, PeerResets, TransportLost, LinkStep,
                TypeOK
  <1>3. FailConfirmations => \A s \in Callers : fut'[s] = "ok" => fut[s] = "ok"
    BY DEF FailConfirmations
  <1> QED  BY <1>1, <1>2, <1>3

LEMMA AnswerInvStep ==
  ASSUME Timely
  PROVE  LinkInv /\ CallInv /\ AnswerInv /\ [Next]_vars => AnswerInv'
  <1> SUFFICES ASSUME LinkInv, CallInv, AnswerInv, [Next]_vars PROVE AnswerInv'
    OBVIOUS
  <1>0. TypeOK
    BY DEF LinkInv
  <1>1. CASE \E k \in Sockets : Answer(k)
    BY <1>1, AnswersConfirm DEF Answer
  <1>2. CASE RunStep \/ ControlStep \/ (\E k \in Sockets : NetworkStep(k) /\ ~Answer(k))
    BY <1>0, <1>2, OthersKeepAnswers, AnswersKept
  <1>3. CASE UNCHANGED vars
    BY <1>3, AnswersKept DEF vars
  <1> QED  BY <1>1, <1>2, <1>3, AnswerInvCaller DEF Next, Finished

LEMMA AnswerInvariant == ASSUME Timely, ~Pausing PROVE Spec => []AnswerInv
  <1>1. LinkInv /\ CallInv /\ AnswerInv /\ [Next]_vars => AnswerInv'
    BY AnswerInvStep
  <1>2. Spec => []CallInv
    BY CallInvariant
  <1> QED  BY <1>1, <1>2, AnswerInvInit, LinkInvariant, PTL DEF Spec

\* A call reports success only if the CNI accepted that very command, as long as
\* the CNI answers before the call gives up or not at all.
THEOREM ConfirmationsMatch ==
  ASSUME Timely, ~Pausing
  PROVE  Spec => []ConfirmationMatches
  <1>1. AnswerInv => ConfirmationMatches
    BY DEF AnswerInv, Histories, ConfirmationMatches
  <1> QED  BY <1>1, AnswerInvariant, PTL

-----------------------------------------------------------------------------
(* Refinement: every step is a step of ConfirmedCommands, or changes       *)
(* nothing it knows of.                                                    *)

PromiseInv == LinkInv /\ TypedSlots /\ CallInv /\ AnswerInv

PromiseStep == Commands!PNext \/ UNCHANGED Commands!promiseVars

PromiseVarsKept == UNCHANGED <<pc, verdict, ret>>

LEMMA InitRefines == Init => Commands!PInit
  BY DEF Init, Commands!PInit, PhaseOf

LEMMA StutterOrFlip ==
  ASSUME TypeOK, connected' \in BOOLEAN, PromiseVarsKept
  PROVE  PromiseStep
  <1>1. PhaseOf' = PhaseOf
    BY DEF PhaseOf, PromiseVarsKept
  <1>2. connected' = connected \/ connected' = ~connected
    BY DEF TypeOK
  <1> QED  BY <1>1, <1>2 DEF PromiseStep, PromiseVarsKept, Commands!promiseVars,
           Commands!PNext, Commands!Flip

\* How a step of one call moves its phase.
LEMMA PhaseMoves ==
  ASSUME TypeOK, NEW s \in Callers,
         NEW p \in {"idle", "slot", "lock", "drain", "reply"}, pc' = [pc EXCEPT ![s] = p]
  PROVE  PhaseOf' = [PhaseOf EXCEPT ![s] =
                       CASE p = "idle"               -> "idle"
                         [] p \in {"slot", "lock"}   -> "waiting"
                         [] p \in {"drain", "reply"} -> "sent"]
  BY DEF PhaseOf, TypeOK

\* ConfirmedCommands counts with the same operator.
LEMMA SameCount == ASSUME NEW S PROVE Commands!Cardinality(S) = Cardinality(S)
  BY DEF Commands!Cardinality, Cardinality

\* The call that is sent holds a slot, and so do all that are sent already.
LEMMA RoomLeft ==
  ASSUME PromiseInv, NEW s \in Callers, pc[s] = "lock"
  PROVE  Cardinality(Commands!Sent) < TagCount
  <1> DEFINE Others == Holders \ {s}
  <1>1. s \in Holders
    BY DEF Holders
  <1>2. IsFiniteSet(Others) /\ Cardinality(Others) = Cardinality(Holders) - 1
    BY <1>1, HoldersFinite, FS_RemoveElement
  <1>3. Commands!Sent \subseteq Others
    BY DEF Commands!Sent, PhaseOf, Holders, PromiseInv, TypedSlots, TypeOK
  <1>4. Cardinality(Commands!Sent) <= Cardinality(Others) /\ Cardinality(Commands!Sent) \in Nat
    BY <1>2, <1>3, FS_Subset, FS_CardinalityType
  <1>5. Cardinality(Holders) <= TagCount
    BY HoldersFinite, TagCountAssumption DEF PromiseInv, TypedSlots, TypeOK, SlotsConserved
  <1> QED  BY <1>2, <1>4, <1>5, HoldersFinite, TagCountAssumption

LEMMA LeaveRefines ==
  ASSUME PromiseInv, NEW s \in Callers, NEW o \in {"ok", "error"},
         pc[s] # "idle", o = "ok" => fut[s] = "ok" /\ Sent(s), Leave(s, o)
  PROVE  PromiseStep
  <1>0. TypeOK
    BY DEF PromiseInv, LinkInv
  <1>1. /\ pc' = [pc EXCEPT ![s] = "idle"] /\ ret' = [ret EXCEPT ![s] = o]
        /\ UNCHANGED <<connected, verdict>>
    BY DEF Leave
  <1>2. PhaseOf' = [PhaseOf EXCEPT ![s] = "idle"] /\ PhaseOf[s] # "idle"
    BY <1>0, <1>1, PhaseMoves DEF PhaseOf, TypeOK
  <1>3. CASE o = "error"
    BY <1>1, <1>2, <1>3 DEF PromiseStep, Commands!PNext, Commands!Fail
  <1>4. CASE o = "ok"
    <2>1. PhaseOf[s] = "sent" /\ verdict[s] = "accepted"
      BY <1>4 DEF PhaseOf, Sent, PromiseInv, AnswerInv, Histories
    <2> QED  BY <1>1, <1>2, <1>4, <2>1 DEF PromiseStep, Commands!PNext, Commands!Succeed
  <1> QED  BY <1>3, <1>4

LEMMA CallerRefines ==
  ASSUME PromiseInv, Timely, NEW s \in Callers, CallerStep(s)
  PROVE  PromiseStep
  <1> USE DEF linkVars, runVars
  <1>0. TypeOK
    BY DEF PromiseInv, LinkInv
  <1>1. CASE Call(s)
    <2>1. PhaseOf[s] = "idle" /\ PhaseOf' = [PhaseOf EXCEPT ![s] = "waiting"]
      BY <1>0, <1>1, PhaseMoves DEF Call, PhaseOf
    <2> QED  BY <1>1, <2>1 DEF Call, PromiseStep, Commands!PNext, Commands!Request
  <1>2. CASE AcquireSlot(s)
    <2>1. PhaseOf' = PhaseOf
      BY <1>0, <1>2 DEF AcquireSlot, PhaseOf, TypeOK
    <2> QED  BY <1>2, <2>1 DEF AcquireSlot, PromiseStep, Commands!promiseVars
  <1>3. CASE WriteCommand(s)
    <2>1. PhaseOf[s] = "waiting" /\ PhaseOf' = [PhaseOf EXCEPT ![s] = "sent"]
      BY <1>0, <1>3, PhaseMoves DEF WriteCommand, PhaseOf
    <2>2. Cardinality(Commands!Sent) < TagCount
      BY <1>3, RoomLeft DEF WriteCommand
    <2> QED  BY <1>3, <2>1, <2>2, SameCount
             DEF WriteCommand, CommandReady, PromiseStep, Commands!PNext, Commands!Transmit
  <1>4. CASE DrainDone(s)
    <2>1. PhaseOf' = PhaseOf
      BY <1>0, <1>4 DEF DrainDone, PhaseOf, TypeOK
    <2> QED  BY <1>4, <2>1 DEF DrainDone, PromiseStep, Commands!promiseVars
  <1>5. CASE DrainReplied(s) \/ Reply(s)
    <2>1. Leave(s, Outcome(s)) /\ pc[s] # "idle" /\ Sent(s)
      BY <1>5 DEF DrainReplied, Reply, Sent
    <2> QED  BY <2>1, LeaveRefines DEF Outcome
  <1>6. CASE WriteRefused(s) \/ DrainLost(s) \/ Timeout(s) \/ CancelCall(s)
    <2>1. Leave(s, "error") /\ pc[s] # "idle"
      BY <1>6 DEF WriteRefused, DrainLost, Timeout, CancelCall
    <2> QED  BY <2>1, LeaveRefines
  <1>7. ~CancelWaiting(s)
    BY DEF CancelWaiting
  <1> QED  BY <1>1, <1>2, <1>3, <1>4, <1>5, <1>6, <1>7 DEF CallerStep

LEMMA AnswerRefines ==
  ASSUME PromiseInv, NEW k \in Sockets, Answer(k)
  PROVE  PromiseStep
  <1>0. TypeOK
    BY DEF PromiseInv, LinkInv
  <1>1. PICK o \in owed[k], accepted \in BOOLEAN : Confirm(k, o, accepted)
    BY DEF Answer
  <1>2. PICK s \in Callers : /\ s = o[2] /\ connected /\ Sent(s) /\ verdict[s] = "none"
    BY <1>1, AnswerFinds DEF PromiseInv
  <1>3. UNCHANGED <<pc, ret, connected>>
    BY <1>1 DEF Confirm, callVars
  <1>4. verdict' = [u \in Callers |->
                      IF u = s THEN IF accepted THEN "accepted" ELSE "rejected"
                      ELSE verdict[u]]
    BY <1>1, <1>2 DEF Confirm
  <1>5. verdict' = [verdict EXCEPT ![s] = IF accepted THEN "accepted" ELSE "rejected"]
    BY <1>0, <1>4 DEF TypeOK
  <1>6. PhaseOf[s] = "sent" /\ PhaseOf' = PhaseOf
    BY <1>2, <1>3 DEF PhaseOf, Sent
  <1> QED  BY <1>2, <1>3, <1>5, <1>6 DEF PromiseStep, Commands!PNext, Commands!Judge

LEMMA StepRefines ==
  ASSUME Timely
  PROVE  PromiseInv /\ TypeOK' /\ [Next]_vars => PromiseStep
  <1> SUFFICES ASSUME PromiseInv, TypeOK', [Next]_vars PROVE PromiseStep
    OBVIOUS
  <1>0. TypeOK /\ connected' \in BOOLEAN
    BY DEF PromiseInv, LinkInv, TypeOK
  <1>1. CASE \E s \in Callers : CallerStep(s)
    BY <1>1, CallerRefines
  <1>2. CASE \E k \in Sockets : Answer(k)
    BY <1>2, AnswerRefines
  <1>3. CASE RunStep \/ ControlStep \/ (\E k \in Sockets : NetworkStep(k) /\ ~Answer(k))
    BY <1>0, <1>3, OthersKeepAnswers, StutterOrFlip DEF PromiseVarsKept
  <1>4. CASE UNCHANGED vars
    BY <1>0, <1>4, StutterOrFlip DEF vars, PromiseVarsKept
  <1> QED  BY <1>1, <1>2, <1>3, <1>4 DEF Next, Finished

\* The connection implements ConfirmedCommands: every run of it, seen through
\* what the runtime can observe, is one that the promise allows.
THEOREM ConnectionKeepsPromise ==
  ASSUME Timely, ~Pausing
  PROVE  Spec => KeepsPromise
  <1>1. PromiseInv /\ TypeOK' /\ [Next]_vars => [Commands!PNext]_(Commands!promiseVars)
    BY StepRefines DEF PromiseStep
  <1>2. Spec => []PromiseInv
    <2>1. Spec => []CallInv
      BY CallInvariant
    <2>2. Spec => []AnswerInv
      BY AnswerInvariant
    <2> QED  BY <2>1, <2>2, LinkInvariant, TypedSlotsInvariant, PTL DEF PromiseInv
  <1> QED  BY <1>1, <1>2, InitRefines, TypeCorrect, PTL
           DEF Spec, KeepsPromise, Commands!Promise
=============================================================================
