-------------------------- MODULE GroupStateProofs --------------------------
(***************************************************************************)
(* Theorems about GroupState, for any groups, units, bindings, levels and  *)
(* queues.                                                                 *)
(***************************************************************************)
EXTENDS GroupState, Induction, TLAPS

-----------------------------------------------------------------------------
(* Lines, and the last of several.                                         *)

\* A bounded set of numbers that is not empty has a last element.
LEMMA LastIsLast ==
  ASSUME NEW N \in Nat, NEW S, S \subseteq 0 .. N, S # {}
  PROVE  Last(S) \in S /\ \A h \in S : h <= Last(S)
<1> DEFINE P == {N - g : g \in S}
<1>1. P \subseteq Nat /\ P # {}
  <2>1. PICK g \in S : TRUE
    OBVIOUS
  <2> QED  BY <2>1
<1>2. PICK m \in P : \A k \in P : m <= k
  <2> HIDE DEF P
  <2> QED  BY <1>1, LeastNatural
<1>3. \A k \in P : ~ (k < m)
  BY <1>1, <1>2
<1>4. PICK g \in S : m = N - g
  OBVIOUS
<1>5. \A h \in S : h <= g
  <2> TAKE h \in S
  <2>1. N - h \in P
    OBVIOUS
  <2> HIDE DEF P
  <2> QED  BY <2>1, <1>3, <1>4
<1> QED  BY <1>5 DEF Last

\* What an event says of its group.
LEMMA EventTypes ==
  ASSUME NEW line \in Lines
  PROVE  /\ DOMAIN line \subseteq Groups
         /\ \A g \in DOMAIN line :
              /\ line[g].level \in Levels \cup {None}
              /\ line[g].source \in Sources \cup {None}
              /\ EventIsOn(line[g]) \in BOOLEAN \cup {None}
         /\ \A g \in Told(line) : EventIsOn(line[g]) \in BOOLEAN
<1>1. PICK S \in SUBSET Groups : line \in [S -> Events]
  BY DEF Lines
<1>2. \A g \in S : line[g] \in Events
  BY <1>1
<1>3. \A e \in Events : EventIsOn(e) \in BOOLEAN \cup {None}
  BY LevelAssumption DEF Events, EventIsOn, Levels
<1> QED  BY <1>1, <1>2, <1>3 DEF Events, Told

\* A command on the bus says a state and a level of its group.
LEMMA SalSays ==
  ASSUME NEW g \in Groups, NEW level \in Levels, NEW src \in Sources
  PROVE  /\ Sal(g, level, src) \in Lines
         /\ Told(Sal(g, level, src)) = {g} /\ Leveled(Sal(g, level, src)) = {g}
         /\ Sal(g, level, src)[g].source = src /\ Sal(g, level, src)[g].level = level
         /\ EventIsOn(Sal(g, level, src)[g]) = (level > 0)
<1> DEFINE line == Sal(g, level, src)
<1>1. line = [x \in {g} |-> Event(level, level > 0, src)]
  BY DEF Sal
<1>2. Event(level, level > 0, src) \in Events
  BY DEF Event, Events
<1>3. line \in Lines
  BY <1>1, <1>2 DEF Lines
<1>4. level # None /\ (level > 0) # None
  <2>1. (level > 0) \in BOOLEAN
    OBVIOUS
  <2>2. None \notin BOOLEAN /\ None \notin Levels
    BY NoneAssumption DEF Levels
  <2> QED  BY <2>1, <2>2
<1>5. EventIsOn(line[g]) = (level > 0) /\ line[g].source = src /\ line[g].level = level
  BY <1>1, <1>4 DEF EventIsOn, Event
<1>6. Told(line) = {g} /\ Leveled(line) = {g}
  BY <1>1, <1>4, <1>5 DEF Told, Leveled
<1> QED  BY <1>3, <1>5, <1>6

\* A report says the state of every group that did not fail, and a level only of those
\* that are off.
LEMMA MmiSays ==
  ASSUME bus \in [Groups -> Levels], NEW failed \in SUBSET Groups
  PROVE  /\ Mmi(failed) \in Lines
         /\ \A g \in Told(Mmi(failed)) : /\ g \in Groups
                                         /\ EventIsOn(Mmi(failed)[g]) = (bus[g] > 0)
                                         /\ Mmi(failed)[g].source = None
         /\ \A g \in Leveled(Mmi(failed)) : Mmi(failed)[g].level = bus[g]
<1> DEFINE line == Mmi(failed)
<1>1. line = [g \in Groups |-> MmiEvent(g, g \in failed)]
  BY DEF Mmi
<1>2. ASSUME NEW g \in Groups
      PROVE  /\ line[g] \in Events
             /\ line[g].source = None
             /\ EventIsOn(line[g]) # None => EventIsOn(line[g]) = (bus[g] > 0)
             /\ line[g].level # None => line[g].level = bus[g]
  <2>1. bus[g] \in Levels /\ 0 \in Levels /\ None \notin BOOLEAN /\ 0 # None
    BY LevelAssumption, NoneAssumption DEF Levels
  <2>2. CASE g \in failed
    <3>1. line[g] = Event(None, None, None)
      BY <1>1, <2>2 DEF MmiEvent
    <3> QED  BY <3>1 DEF Event, Events, EventIsOn
  <2>3. CASE g \notin failed /\ bus[g] = 0
    <3>1. line[g] = Event(0, FALSE, None)
      BY <1>1, <2>3 DEF MmiEvent, Levels
    <3> QED  BY <2>1, <2>3, <3>1 DEF Event, Events, EventIsOn
  <2>4. CASE g \notin failed /\ bus[g] # 0
    <3>1. bus[g] > 0
      BY <2>1, <2>4, LevelAssumption DEF Levels
    <3>2. line[g] = Event(None, TRUE, None)
      BY <1>1, <2>4, <3>1 DEF MmiEvent
    <3>3. line[g] \in Events /\ line[g].source = None /\ line[g].level = None
      BY <3>2 DEF Event, Events
    <3>4. EventIsOn(line[g]) = TRUE
      BY <3>2 DEF Event, EventIsOn
    <3> QED  BY <3>1, <3>3, <3>4
  <2> QED  BY <2>2, <2>3, <2>4
<1>3. line \in Lines
  <2>1. line \in [Groups -> Events]
    BY <1>1, <1>2
  <2>2. Groups \in SUBSET Groups
    OBVIOUS
  <2> QED  BY <2>1, <2>2 DEF Lines
<1> QED  BY <1>1, <1>2, <1>3 DEF Told, Leveled

-----------------------------------------------------------------------------
(* Types.                                                                  *)

\* Whoever commands a group, it is a unit bound to it, or a switch.
LEMMA BusCommandTypes ==
  ASSUME TypeOK, NEW g \in Groups, NEW level \in Levels, NEW src \in Sources,
         BusCommand(g, level, src)
  PROVE  TypeOK'
<1>1. Sal(g, level, src) \in Lines
  BY SalSays
<1>2. events' \in Seq(Lines) /\ Len(events') <= MaxEvents
  BY <1>1, QueueAssumption DEF TypeOK, BusCommand
<1>3. /\ bus' \in [Groups -> Levels] /\ tripped' \subseteq Units
      /\ manual' \subseteq Groups /\ reported' \subseteq Groups
  BY DEF TypeOK, BusCommand
<1>4. settled' \subseteq Groups /\ observed' \subseteq Groups
  BY DEF TypeOK, BusCommand
<1> QED  BY <1>2, <1>3, <1>4 DEF TypeOK, BusCommand, stateVars, entityVars

\* Handling a line leaves the states typed; a unit it concerns is as one of its events
\* says.
LEMMA HandleTypes ==
  ASSUME TypeOK, NEW line \in Lines, Handle(line)
  PROVE  /\ on' \in [Groups -> BOOLEAN \cup {None}]
         /\ brightness' \in [Groups -> Levels \cup {None}]
         /\ source' \in [Groups -> Sources \cup {None}]
         /\ motion' \in [Units -> BOOLEAN \cup {None}]
         /\ \A u \in Units :
              IF MotionGroups(line, u) = {} THEN motion'[u] = motion[u]
              ELSE \E g \in MotionGroups(line, u) : motion'[u] = EventIsOn(line[g])
<1>1. on' \in [Groups -> BOOLEAN \cup {None}]
  BY EventTypes DEF Handle, TypeOK
<1>2. brightness' \in [Groups -> Levels \cup {None}]
  BY EventTypes DEF Handle, TypeOK, Leveled
<1>3. source' \in [Groups -> Sources \cup {None}]
  BY EventTypes DEF Handle, TypeOK
<1>4. ASSUME NEW u \in Units, MotionGroups(line, u) # {}
      PROVE  Last(MotionGroups(line, u)) \in MotionGroups(line, u)
  <2>1. MotionGroups(line, u) \subseteq 0 .. 255
    BY GroupsAssumption, EventTypes DEF MotionGroups, Told
  <2>2. 255 \in Nat
    OBVIOUS
  <2> QED  BY <1>4, <2>1, <2>2, LastIsLast
<1>5. \A u \in Units : MotionGroups(line, u) \subseteq Told(line)
  BY DEF MotionGroups
<1>6. motion' \in [Units -> BOOLEAN \cup {None}]
  BY <1>4, <1>5, EventTypes DEF Handle, TypeOK
<1> QED  BY <1>1, <1>2, <1>3, <1>4, <1>6 DEF Handle

LEMMA TypeNext == TypeOK /\ [Next]_vars => TypeOK'
<1> SUFFICES ASSUME TypeOK, [Next]_vars PROVE TypeOK'
  OBVIOUS
<1> USE DEF stateVars, entityVars, heardVars, busVars
<1>1. ASSUME NEW g \in Groups, NEW level \in Levels, SetLevel(g, level) PROVE TypeOK'
  <2>1. manual' \subseteq Groups
    BY <1>1 DEF SetLevel, TypeOK
  <2>2. commands' \in Seq(Groups \X Levels) /\ Len(commands') <= MaxCommands
    BY <1>1, QueueAssumption DEF SetLevel, TypeOK
  <2>3. on' \in [Groups -> BOOLEAN \cup {None}] /\ brightness' \in [Groups -> Levels \cup {None}]
        /\ source' \in [Groups -> Sources \cup {None}]
    BY <1>1 DEF SetLevel, ApplyLevel, TypeOK
  <2> QED  BY <1>1, <2>1, <2>2, <2>3 DEF SetLevel, ApplyLevel, TypeOK
<1>2. CASE HandleLine
  <2>1. Head(events) \in Lines /\ events' \in Seq(Lines) /\ Len(events') <= MaxEvents
    BY <1>2, QueueAssumption DEF HandleLine, TypeOK
  <2>2. Handle(Head(events))
    BY <1>2 DEF HandleLine
  <2>3. settled' \subseteq Groups /\ observed' \subseteq Groups
    BY <1>2, <2>1, EventTypes DEF HandleLine, TypeOK, Told, Leveled
  <2> QED  BY <1>2, <2>1, <2>2, <2>3, HandleTypes DEF HandleLine, TypeOK
<1>3. CASE LinkUp
  BY <1>3 DEF LinkUp, TypeOK
<1>4. CASE LinkLost
  <2>1. PICK n \in 0 .. Len(commands) :
          bus' = [g \in Groups |->
                    IF {i \in 1 .. n : commands[i][1] = g} # {}
                    THEN commands[Last({i \in 1 .. n : commands[i][1] = g})][2] ELSE bus[g]]
    BY <1>4 DEF LinkLost
  <2>2. ASSUME NEW g \in Groups PROVE bus'[g] \in Levels
    <3> DEFINE About == {i \in 1 .. n : commands[i][1] = g}
    <3>1. About # {} => Last(About) \in About
      <4>1. n \in Nat /\ About \subseteq 0 .. n
        BY <2>1 DEF TypeOK
      <4> HIDE DEF About
      <4> QED  BY <4>1, LastIsLast
    <3>2. \A i \in About : commands[i] \in Groups \X Levels
      BY <2>1 DEF TypeOK
    <3>3. \A i \in About : commands[i][2] \in Levels
      BY <3>2
    <3> QED  BY <2>1, <3>1, <3>3 DEF TypeOK
  <2>3. bus' \in [Groups -> Levels]
    BY <2>1, <2>2
  <2>4. events' \in Seq(Lines) /\ Len(events') <= MaxEvents
    BY <1>4, QueueAssumption DEF LinkLost, TypeOK
  <2>5. commands' \in Seq(Groups \X Levels) /\ Len(commands') <= MaxCommands
    BY <1>4, QueueAssumption DEF LinkLost, TypeOK
  <2> QED  BY <1>4, <2>3, <2>4, <2>5 DEF LinkLost, TypeOK
<1>5. ASSUME NEW u \in Units, UnitCommands(u) PROVE TypeOK'
  <2>1. PICK b \in Bindings, level \in {0, MaxLevel} : b.unit = u /\ BusCommand(b.group, level, u)
    BY <1>5 DEF UnitCommands
  <2>2. b.group \in Groups /\ level \in Levels /\ u \in Sources
    BY BindingsAssumption, LevelAssumption DEF Levels, Sources
  <2> QED  BY <2>1, <2>2, BusCommandTypes
<1>6. CASE SwitchCommands
  <2>1. PICK g \in Groups, level \in Levels : BusCommand(g, level, Other)
    BY <1>6 DEF SwitchCommands
  <2>2. g \in Groups /\ Other \in Sources
    BY GroupsAssumption DEF Sources
  <2> QED  BY <2>1, <2>2, BusCommandTypes
<1>7. CASE CniExecutes
  <2>1. Head(commands) \in Groups \X Levels /\ Tail(commands) \in Seq(Groups \X Levels)
        /\ Len(Tail(commands)) <= MaxCommands
    BY <1>7, QueueAssumption DEF CniExecutes, TypeOK
  <2>2. Head(commands)[1] \in Groups /\ Head(commands)[2] \in Levels /\ Other \in Sources
    BY <2>1, GroupsAssumption DEF Sources
  <2>3. Sal(Head(commands)[1], Head(commands)[2], Other) \in Lines
    BY <2>2, SalSays
  <2>4. events' \in Seq(Lines) /\ Len(events') <= MaxEvents
    BY <1>7, <2>3, QueueAssumption DEF CniExecutes, TypeOK
  <2>5. bus' \in [Groups -> Levels]
    BY <1>7, <2>2 DEF CniExecutes, TypeOK
  <2> QED  BY <1>7, <2>1, <2>4, <2>5 DEF CniExecutes, TypeOK
<1>8. CASE CniRefuses
  <2>1. Tail(commands) \in Seq(Groups \X Levels) /\ Len(Tail(commands)) <= MaxCommands
    BY <1>8, QueueAssumption DEF CniRefuses, TypeOK
  <2> QED  BY <1>8, <2>1 DEF CniRefuses, TypeOK
<1>9. CASE MmiReport
  <2>1. PICK failed \in SUBSET Groups : events' = Append(events, Mmi(failed))
    BY <1>9 DEF MmiReport
  <2>2. Mmi(failed) \in Lines
    BY MmiSays DEF TypeOK
  <2>3. events' \in Seq(Lines) /\ Len(events') <= MaxEvents
    BY <1>9, <2>1, <2>2, QueueAssumption DEF MmiReport, TypeOK
  <2>4. reported' \subseteq Groups
    BY <1>9, BindingsAssumption DEF MmiReport, TypeOK, OwnGroups
  <2> QED  BY <1>9, <2>3, <2>4 DEF MmiReport, TypeOK
<1>10. CASE UNCHANGED vars
  BY <1>10 DEF vars, TypeOK
<1> QED  BY <1>1, <1>2, <1>3, <1>4, <1>5, <1>6, <1>7, <1>8, <1>9, <1>10 DEF Next

\* The types, however many lines and commands are on their way.
THEOREM TypeCorrect == Spec => []TypeOK
<1>1. ASSUME Init PROVE TypeOK
  <2>1. events \in Seq(Lines) /\ commands \in Seq(Groups \X Levels)
        /\ Len(events) <= MaxEvents /\ Len(commands) <= MaxCommands
    BY <1>1, QueueAssumption DEF Init
  <2> QED  BY <1>1, <2>1 DEF Init, TypeOK
<1> QED  BY <1>1, TypeNext, PTL DEF Spec

-----------------------------------------------------------------------------
(* Entities.                                                               *)

\* Notifying the keys that changed, the availability not having changed, keeps what is
\* shown current.
LEMMA NotifyKeeps ==
  ASSUME ShownIsCurrent, NEW G \in SUBSET Groups, NEW U \in SUBSET Units, Notify(G, U),
         connected' = connected,
         \A g \in Groups \ G : /\ on'[g] = on[g] /\ brightness'[g] = brightness[g]
                               /\ source'[g] = source[g],
         \A u \in Units \ U : motion'[u] = motion[u]
  PROVE  ShownIsCurrent'
<1>1. \A g \in Groups : shown'[g] = View(on'[g], brightness'[g], source'[g], connected')
  BY DEF ShownIsCurrent, Notify
<1>2. \A u \in Units : motionShown'[u] = MotionView(u, motion'[u], connected')
  BY DEF ShownIsCurrent, Notify
<1> QED  BY <1>1, <1>2 DEF ShownIsCurrent

LEMMA ShownNext == TypeOK /\ ShownIsCurrent /\ [Next]_vars => ShownIsCurrent'
<1> SUFFICES ASSUME TypeOK, ShownIsCurrent, [Next]_vars PROVE ShownIsCurrent'
  OBVIOUS
<1> USE DEF stateVars, entityVars, heardVars, busVars
<1>1. ASSUME NEW g \in Groups, NEW level \in Levels, SetLevel(g, level)
      PROVE  ShownIsCurrent'
  <2>1. Notify({g}, {}) /\ connected' = connected /\ motion' = motion
    BY <1>1 DEF SetLevel, ApplyLevel
  <2>2. \A h \in Groups \ {g} : /\ on'[h] = on[h] /\ brightness'[h] = brightness[h]
                                /\ source'[h] = source[h]
    BY <1>1 DEF SetLevel, ApplyLevel, TypeOK
  <2> QED  BY <2>1, <2>2, GroupsAssumption, NotifyKeeps
<1>2. CASE HandleLine
  <2> DEFINE line == Head(events)
             U == {u \in Units : MotionGroups(line, u) # {}}
  <2>1. line \in Lines
    BY <1>2 DEF HandleLine, TypeOK
  <2>2. Notify(DOMAIN line, U) /\ connected' = connected /\ Handle(line)
    BY <1>2 DEF HandleLine
  <2>3. \A g \in Groups \ DOMAIN line : /\ on'[g] = on[g] /\ brightness'[g] = brightness[g]
                                        /\ source'[g] = source[g]
    BY <2>2 DEF Handle, Told, Leveled
  <2>4. \A u \in Units \ U : motion'[u] = motion[u]
    BY <2>2 DEF Handle
  <2>5. DOMAIN line \in SUBSET Groups /\ U \in SUBSET Units
    BY <2>1, EventTypes
  <2> HIDE DEF line, U
  <2> QED  BY <2>2, <2>3, <2>4, <2>5, NotifyKeeps
<1>3. CASE LinkUp \/ LinkLost
  BY <1>3 DEF LinkUp, LinkLost, Notify, ShownIsCurrent
<1>4. CASE UNCHANGED <<connected, stateVars, entityVars>>
  BY <1>4 DEF ShownIsCurrent
<1>5. ASSUME NEW u \in Units, UnitCommands(u) PROVE ShownIsCurrent'
  BY <1>4, <1>5 DEF UnitCommands, BusCommand
<1>6. CASE SwitchCommands
  BY <1>4, <1>6 DEF SwitchCommands, BusCommand
<1>7. CASE CniExecutes \/ CniRefuses \/ MmiReport
  BY <1>4, <1>7 DEF CniExecutes, CniRefuses, MmiReport
<1>8. CASE UNCHANGED vars
  BY <1>4, <1>8 DEF vars
<1> QED  BY <1>1, <1>2, <1>3, <1>5, <1>6, <1>7, <1>8 DEF Next

\* No entity ever shows what its properties would not return.
THEOREM EntitiesShown == Spec => []ShownIsCurrent
<1>1. Init => ShownIsCurrent
  BY DEF Init, ShownIsCurrent
<1> QED  BY <1>1, ShownNext, TypeCorrect, PTL DEF Spec

-----------------------------------------------------------------------------
(* Motion.                                                                 *)

\* The unit has switched a group on, or a report of its own motion group was on.
Cause(u) ==
  \/ u \in tripped
  \/ \E b \in Bindings : b.unit = u /\ Owner(b) /\ b.group \in reported

\* An event of the line tells a unit to show motion.
Sets(line, u) == \E g \in Told(line) : Concerns(g, line[g], u) /\ EventIsOn(line[g]) = TRUE

\* What makes a unit show motion has a cause: its state, and any event that is still on
\* its way.
CauseInv ==
  /\ MotionHasCause
  /\ \A i \in DOMAIN events : \A u \in Units : Sets(events[i], u) => Cause(u)

\* A new line, or none.
LEMMA CauseAppend ==
  ASSUME TypeOK, CauseInv, motion' = motion, tripped \subseteq tripped',
         reported \subseteq reported',
         \/ events' = events \/ events' = <<>>
         \/ \E line \in Lines : /\ events' = Append(events, line)
                                /\ \A u \in Units : Sets(line, u) => Cause(u)'
  PROVE  CauseInv'
<1>1. \A u \in Units : Cause(u) => Cause(u)'
  BY DEF Cause
<1>2. MotionHasCause'
  BY <1>1 DEF CauseInv, MotionHasCause, Cause
<1>3. ASSUME NEW i \in DOMAIN events', NEW u \in Units, Sets(events'[i], u)
      PROVE  Cause(u)'
  <2>1. CASE i \in DOMAIN events /\ events'[i] = events[i]
    BY <1>1, <1>3, <2>1 DEF CauseInv
  <2>2. CASE events' = events \/ events' = <<>>
    <3>1. DOMAIN << >> = {}
      OBVIOUS
    <3> QED  BY <1>3, <2>1, <2>2, <3>1
  <2>3. CASE \E line \in Lines : /\ events' = Append(events, line)
                                 /\ \A v \in Units : Sets(line, v) => Cause(v)'
    <3>1. PICK line \in Lines : /\ events' = Append(events, line)
                                /\ \A v \in Units : Sets(line, v) => Cause(v)'
      BY <2>3
    <3>2. (i \in DOMAIN events /\ events'[i] = events[i]) \/ events'[i] = line
      BY <1>3, <3>1 DEF TypeOK
    <3> QED  BY <1>3, <2>1, <3>1, <3>2
  <2> QED  BY <2>2, <2>3
<1>4. \A i \in DOMAIN events' : \A u \in Units : Sets(events'[i], u) => Cause(u)'
  BY <1>3
<1> QED  BY <1>2, <1>4 DEF CauseInv, Sets

\* A live command concerns the unit that sent it, if any.
LEMMA SalSets ==
  ASSUME NEW g \in Groups, NEW level \in Levels, NEW src \in Sources, NEW u \in Units,
         Sets(Sal(g, level, src), u)
  PROVE  u = src /\ level > 0
<1>1. src # None
  BY NoneAssumption DEF Sources
<1>2. /\ Told(Sal(g, level, src)) = {g} /\ Sal(g, level, src)[g].source = src
      /\ EventIsOn(Sal(g, level, src)[g]) = (level > 0)
  BY SalSays
<1>3. Concerns(g, Sal(g, level, src)[g], u) /\ EventIsOn(Sal(g, level, src)[g]) = TRUE
  BY <1>2 DEF Sets
<1>4. u = src
  BY <1>1, <1>2, <1>3 DEF Concerns
<1> QED  BY <1>2, <1>3, <1>4

LEMMA CauseCommand ==
  ASSUME TypeOK, CauseInv, NEW g \in Groups, NEW level \in Levels, NEW src \in Sources,
         BusCommand(g, level, src)
  PROVE  CauseInv'
<1> DEFINE line == Sal(g, level, src)
<1>1. motion' = motion /\ tripped \subseteq tripped' /\ reported' = reported
      /\ (src \in Units /\ level > 0 => src \in tripped')
      /\ (events' = events \/ events' = Append(events, line))
  BY DEF BusCommand, stateVars
<1>2. line \in Lines
  BY SalSays
<1>3. \A u \in Units : Sets(line, u) => Cause(u)'
  BY <1>1, SalSets DEF Cause
<1> HIDE DEF line
<1> QED  BY <1>1, <1>2, <1>3, CauseAppend

LEMMA CauseNext == TypeOK /\ CauseInv /\ [Next]_vars => CauseInv'
<1> SUFFICES ASSUME TypeOK, CauseInv, [Next]_vars PROVE CauseInv'
  OBVIOUS
<1> USE DEF stateVars, entityVars, heardVars, busVars
<1>1. CASE UNCHANGED <<tripped, reported, events, motion>>
  BY <1>1, CauseAppend
<1>2. ASSUME NEW g \in Groups, NEW level \in Levels, SetLevel(g, level) PROVE CauseInv'
  BY <1>1, <1>2 DEF SetLevel, ApplyLevel
<1>3. CASE HandleLine
  <2> DEFINE line == Head(events)
  <2>1. /\ line \in Lines /\ Handle(line) /\ tripped' = tripped /\ reported' = reported
        /\ 1 \in DOMAIN events /\ line = events[1]
        /\ \A i \in DOMAIN events' : i + 1 \in DOMAIN events /\ events'[i] = events[i + 1]
    BY <1>3 DEF HandleLine, TypeOK
  <2> HIDE DEF line
  <2>2. \A u \in Units : Cause(u) <=> Cause(u)'
    BY <2>1 DEF Cause
  <2>3. ASSUME NEW u \in Units, motion'[u] = TRUE PROVE Cause(u)
    <3>1. CASE MotionGroups(line, u) = {}
      BY <2>1, <2>3, <3>1, HandleTypes DEF CauseInv, MotionHasCause, Cause
    <3>2. CASE MotionGroups(line, u) # {}
      <4>1. PICK g \in MotionGroups(line, u) : motion'[u] = EventIsOn(line[g])
        BY <2>1, <3>2, HandleTypes
      <4>2. Sets(line, u)
        BY <2>3, <4>1 DEF MotionGroups, Sets
      <4> QED  BY <2>1, <4>2 DEF CauseInv
    <3> QED  BY <3>1, <3>2
  <2>4. MotionHasCause'
    BY <2>2, <2>3 DEF MotionHasCause, Cause
  <2>5. \A i \in DOMAIN events' : \A u \in Units : Sets(events'[i], u) => Cause(u)'
    BY <2>1, <2>2 DEF CauseInv
  <2> QED  BY <2>4, <2>5 DEF CauseInv, Sets
<1>4. CASE LinkUp
  BY <1>1, <1>4 DEF LinkUp
<1>5. CASE LinkLost
  BY <1>5, CauseAppend DEF LinkLost
<1>6. ASSUME NEW u \in Units, UnitCommands(u) PROVE CauseInv'
  <2>1. PICK b \in Bindings, level \in {0, MaxLevel} : b.unit = u /\ BusCommand(b.group, level, u)
    BY <1>6 DEF UnitCommands
  <2>2. b.group \in Groups /\ level \in Levels /\ u \in Sources
    BY BindingsAssumption, LevelAssumption DEF Levels, Sources
  <2> QED  BY <2>1, <2>2, CauseCommand
<1>7. CASE SwitchCommands
  <2>1. PICK g \in Groups, level \in Levels : BusCommand(g, level, Other)
    BY <1>7 DEF SwitchCommands
  <2>2. g \in Groups /\ Other \in Sources
    BY GroupsAssumption DEF Sources
  <2> QED  BY <2>1, <2>2, CauseCommand
<1>8. CASE CniExecutes
  <2> DEFINE g == Head(commands)[1]
             level == Head(commands)[2]
             line == Sal(g, level, Other)
  <2>1. /\ events' = Append(events, line) /\ tripped' = tripped /\ reported' = reported
        /\ motion' = motion
    BY <1>8 DEF CniExecutes
  <2>2. Head(commands) \in Groups \X Levels
    BY <1>8 DEF CniExecutes, TypeOK
  <2>3. g \in Groups /\ level \in Levels /\ Other \in Sources
    BY <2>2, GroupsAssumption DEF Sources
  <2> HIDE DEF g, level
  <2>4. line \in Lines
    BY <2>3, SalSays
  <2>5. \A u \in Units : ~ Sets(line, u)
    BY <2>3, SalSets, NoneAssumption
  <2> HIDE DEF line
  <2> QED  BY <2>1, <2>4, <2>5, CauseAppend
<1>9. CASE CniRefuses
  BY <1>1, <1>9 DEF CniRefuses
<1>10. CASE MmiReport
  <2>1. PICK failed \in SUBSET Groups :
          /\ events' = Append(events, Mmi(failed))
          /\ reported' = reported \cup {g \in OwnGroups \ failed : bus[g] > 0}
    BY <1>10 DEF MmiReport
  <2> DEFINE line == Mmi(failed)
  <2>2. tripped' = tripped /\ motion' = motion
    BY <1>10 DEF MmiReport
  <2>3. /\ line \in Lines
        /\ \A g \in Told(line) : /\ g \in Groups /\ EventIsOn(line[g]) = (bus[g] > 0)
                                 /\ line[g].source = None
    BY MmiSays DEF TypeOK
  <2>4. \A g \in Told(line) : g \notin failed
    BY NoneAssumption DEF Told, Mmi, MmiEvent, Event, EventIsOn
  <2>5. events' = Append(events, line)
    BY <2>1
  <2> HIDE DEF line
  <2>6. ASSUME NEW u \in Units, Sets(line, u) PROVE Cause(u)'
    <3>1. PICK g \in Told(line) : Concerns(g, line[g], u) /\ EventIsOn(line[g]) = TRUE
      BY <2>6 DEF Sets
    <3>2. PICK b \in BindingsOf(g) : b.unit = u /\ Owner(b)
      BY <2>3, <3>1 DEF Concerns
    <3>3. g \in reported'
      BY <2>1, <2>3, <2>4, <3>1, <3>2 DEF BindingsOf, OwnGroups
    <3> QED  BY <3>2, <3>3 DEF BindingsOf, Cause
  <2> QED  BY <2>1, <2>2, <2>3, <2>5, <2>6, CauseAppend
<1>11. CASE UNCHANGED vars
  BY <1>1, <1>11 DEF vars
<1> QED  BY <1>2, <1>3, <1>4, <1>5, <1>6, <1>7, <1>8, <1>9, <1>10, <1>11 DEF Next

\* Whoever commands the groups, and whatever the units are bound to: a unit shows
\* motion only if it has itself switched one of its groups on, or a report has found
\* on a motion group that is its own.
THEOREM MotionIsCaused == Spec => []MotionHasCause
<1>1. Init => CauseInv
  <2> SUFFICES ASSUME Init PROVE CauseInv
    OBVIOUS
  <2>1. events = <<>> /\ \A u \in Units : motion[u] # TRUE
    BY NoneAssumption DEF Init
  <2>2. DOMAIN events = {}
    BY <2>1
  <2> QED  BY <2>1, <2>2 DEF CauseInv, MotionHasCause
<1> QED  BY <1>1, CauseNext, TypeCorrect, PTL DEF Spec, CauseInv

-----------------------------------------------------------------------------
(* Agreement with the bus.                                                 *)

\* Where the queues speak of a group.
ToldAt(g)    == {i \in DOMAIN events : g \in Told(events[i])}
LeveledAt(g) == {i \in DOMAIN events : g \in Leveled(events[i])}
Pending(g)   == {i \in DOMAIN commands : commands[i][1] = g}

\* The last event that says a state of the group says the one it has; if none is on
\* its way, and no command either, Home Assistant has it.
StateFresh(g) ==
  /\ \A i \in ToldAt(g) : (\A j \in ToldAt(g) : j <= i)
                          => EventIsOn(events[i][g]) = (bus[g] > 0)
  /\ ToldAt(g) = {} /\ Pending(g) = {} /\ g \in settled => on[g] = (bus[g] > 0)

\* The same for the level.
LevelFresh(g) ==
  /\ \A i \in LeveledAt(g) : (\A j \in LeveledAt(g) : j <= i)
                             => events[i][g].level = bus[g]
  /\ LeveledAt(g) = {} /\ Pending(g) = {} /\ g \in observed => brightness[g] = bus[g]

AgreeInv ==
  /\ ~connected => settled = {} /\ observed = {} /\ events = <<>> /\ commands = <<>>
  /\ connected => \A g \in Groups : StateFresh(g) /\ LevelFresh(g)

\* A new line: it says what the bus has now, and says it if the bus or the commands
\* about the group have changed.
LEMMA FreshAppend ==
  ASSUME TypeOK, NEW g \in Groups, StateFresh(g), LevelFresh(g),
         NEW line, events' = Append(events, line),
         on' = on, brightness' = brightness, settled' = settled, observed' = observed,
         g \in Told(line) => EventIsOn(line[g]) = (bus'[g] > 0),
         g \in Leveled(line) => line[g].level = bus'[g],
         \/ g \in Told(line) /\ g \in Leveled(line)
         \/ bus'[g] = bus[g] /\ (Pending(g)' = {} => Pending(g) = {})
  PROVE  StateFresh(g)' /\ LevelFresh(g)'
<1> DEFINE n == Len(events) + 1
<1>1. /\ n \in DOMAIN events' /\ events'[n] = line
      /\ DOMAIN events' = DOMAIN events \cup {n} /\ n \notin DOMAIN events
      /\ \A i \in DOMAIN events : events'[i] = events[i] /\ i \in Int /\ ~ (n <= i)
  BY DEF TypeOK
<1> HIDE DEF n
<1>2. /\ ToldAt(g)' = ToldAt(g) \cup {i \in {n} : g \in Told(line)}
      /\ LeveledAt(g)' = LeveledAt(g) \cup {i \in {n} : g \in Leveled(line)}
  BY <1>1 DEF ToldAt, LeveledAt
<1>3. ASSUME NEW i \in ToldAt(g)', \A j \in ToldAt(g)' : j <= i
      PROVE  EventIsOn(events'[i][g]) = (bus'[g] > 0)
  <2>1. CASE g \in Told(line)
    BY <1>1, <1>2, <1>3, <2>1 DEF ToldAt
  <2>2. CASE g \notin Told(line)
    BY <1>1, <1>2, <1>3, <2>2 DEF ToldAt, StateFresh
  <2> QED  BY <2>1, <2>2
<1>4. ASSUME ToldAt(g)' = {}, Pending(g)' = {}, g \in settled' PROVE on'[g] = (bus'[g] > 0)
  <2>1. ToldAt(g) = {} /\ g \notin Told(line)
    BY <1>2, <1>4
  <2> QED  BY <1>4, <2>1 DEF StateFresh
<1>5. ASSUME NEW i \in LeveledAt(g)', \A j \in LeveledAt(g)' : j <= i
      PROVE  events'[i][g].level = bus'[g]
  <2>1. CASE g \in Leveled(line)
    BY <1>1, <1>2, <1>5, <2>1 DEF LeveledAt
  <2>2. CASE g \notin Leveled(line)
    BY <1>1, <1>2, <1>5, <2>2 DEF LeveledAt, LevelFresh
  <2> QED  BY <2>1, <2>2
<1>6. ASSUME LeveledAt(g)' = {}, Pending(g)' = {}, g \in observed' PROVE brightness'[g] = bus'[g]
  <2>1. LeveledAt(g) = {} /\ g \notin Leveled(line)
    BY <1>2, <1>6
  <2> QED  BY <1>6, <2>1 DEF LevelFresh
<1> QED  BY <1>3, <1>4, <1>5, <1>6 DEF StateFresh, LevelFresh

\* The first line is handled.
LEMMA FreshHandle ==
  ASSUME TypeOK, NEW g \in Groups, StateFresh(g), LevelFresh(g), HandleLine
  PROVE  StateFresh(g)' /\ LevelFresh(g)'
<1> DEFINE line == Head(events)
<1>1. /\ line \in Lines /\ Handle(line) /\ events' = Tail(events) /\ events # <<>>
      /\ bus' = bus /\ commands' = commands
      /\ settled' = settled \cup Told(line) /\ observed' = observed \cup Leveled(line)
  BY DEF HandleLine, TypeOK
<1>2. /\ 1 \in DOMAIN events /\ line = events[1]
      /\ \A i \in DOMAIN events : i \in Int /\ (i = 1 \/ (i - 1 \in DOMAIN events' /\ i - 1 + 1 = i))
      /\ \A i \in DOMAIN events' : /\ i \in Int /\ i + 1 \in DOMAIN events
                                   /\ events'[i] = events[i + 1] /\ 1 <= i
  BY <1>1 DEF TypeOK
<1> HIDE DEF line
<1>3. /\ on'[g] = IF g \in Told(line) THEN EventIsOn(line[g]) ELSE on[g]
      /\ brightness'[g] = IF g \in Leveled(line) THEN line[g].level ELSE brightness[g]
  BY <1>1 DEF Handle
<1>4. /\ \A i \in ToldAt(g)' : i + 1 \in ToldAt(g) /\ i \in Int
      /\ \A i \in ToldAt(g) : i \in Int /\ (i = 1 \/ i - 1 \in ToldAt(g)')
      /\ 1 \in ToldAt(g) <=> g \in Told(line)
  BY <1>2 DEF ToldAt
<1>5. /\ \A i \in LeveledAt(g)' : i + 1 \in LeveledAt(g) /\ i \in Int
      /\ \A i \in LeveledAt(g) : i \in Int /\ (i = 1 \/ i - 1 \in LeveledAt(g)')
      /\ 1 \in LeveledAt(g) <=> g \in Leveled(line)
  BY <1>2 DEF LeveledAt
<1>6. ASSUME NEW i \in ToldAt(g)', \A j \in ToldAt(g)' : j <= i
      PROVE  EventIsOn(events'[i][g]) = (bus'[g] > 0)
  <2>1. i \in DOMAIN events' /\ events'[i] = events[i + 1]
    BY <1>2 DEF ToldAt
  <2>2. \A j \in ToldAt(g) : j <= i + 1
    BY <1>2, <1>4, <1>6, <2>1
  <2> QED  BY <1>1, <1>4, <2>1, <2>2 DEF StateFresh
<1>7. ASSUME ToldAt(g)' = {}, Pending(g)' = {}, g \in settled' PROVE on'[g] = (bus'[g] > 0)
  <2>1. Pending(g) = {}
    BY <1>1, <1>7 DEF Pending
  <2>2. \A j \in ToldAt(g) : j = 1
    BY <1>4, <1>7
  <2>3. CASE g \in Told(line)
    <3>1. 1 \in ToldAt(g) /\ \A j \in ToldAt(g) : j <= 1
      BY <1>4, <2>2, <2>3
    <3> QED  BY <1>1, <1>2, <1>3, <2>3, <3>1 DEF StateFresh
  <2>4. CASE g \notin Told(line)
    BY <1>1, <1>3, <1>4, <1>7, <2>1, <2>2, <2>4 DEF StateFresh
  <2> QED  BY <2>3, <2>4
<1>8. ASSUME NEW i \in LeveledAt(g)', \A j \in LeveledAt(g)' : j <= i
      PROVE  events'[i][g].level = bus'[g]
  <2>1. i \in DOMAIN events' /\ events'[i] = events[i + 1]
    BY <1>2 DEF LeveledAt
  <2>2. \A j \in LeveledAt(g) : j <= i + 1
    BY <1>2, <1>5, <1>8, <2>1
  <2> QED  BY <1>1, <1>5, <2>1, <2>2 DEF LevelFresh
<1>9. ASSUME LeveledAt(g)' = {}, Pending(g)' = {}, g \in observed' PROVE brightness'[g] = bus'[g]
  <2>1. Pending(g) = {}
    BY <1>1, <1>9 DEF Pending
  <2>2. \A j \in LeveledAt(g) : j = 1
    BY <1>5, <1>9
  <2>3. CASE g \in Leveled(line)
    <3>1. 1 \in LeveledAt(g) /\ \A j \in LeveledAt(g) : j <= 1
      BY <1>5, <2>2, <2>3
    <3> QED  BY <1>1, <1>2, <1>3, <2>3, <3>1 DEF LevelFresh
  <2>4. CASE g \notin Leveled(line)
    BY <1>1, <1>3, <1>5, <1>9, <2>1, <2>2, <2>4 DEF LevelFresh
  <2> QED  BY <2>3, <2>4
<1> QED  BY <1>6, <1>7, <1>8, <1>9 DEF StateFresh, LevelFresh

\* Neither the bus, nor the lines, nor the states have changed, and the commands about
\* the group, if they have all gone, had gone before.
LEMMA FreshKept ==
  ASSUME NEW g \in Groups, StateFresh(g), LevelFresh(g), events' = events, bus'[g] = bus[g],
         on'[g] = on[g], brightness'[g] = brightness[g],
         g \in settled' => g \in settled, g \in observed' => g \in observed,
         Pending(g)' = {} => Pending(g) = {} \/ (g \notin settled' /\ g \notin observed')
  PROVE  StateFresh(g)' /\ LevelFresh(g)'
BY DEF StateFresh, LevelFresh, ToldAt, LeveledAt

\* A command is on the bus, and heard if there is a connection.
LEMMA AgreeCommand ==
  ASSUME TypeOK, AgreeInv, NEW g \in Groups, NEW level \in Levels, NEW src \in Sources,
         BusCommand(g, level, src)
  PROVE  AgreeInv'
<1>1. CASE connected
  <2> DEFINE line == Sal(g, level, src)
  <2>1. /\ events' = Append(events, line) /\ bus' = [bus EXCEPT ![g] = level]
        /\ on' = on /\ brightness' = brightness /\ settled' = settled /\ observed' = observed
        /\ connected' = connected /\ commands' = commands
    BY <1>1 DEF BusCommand, stateVars
  <2>2. /\ Told(line) = {g} /\ Leveled(line) = {g} /\ line[g].level = level
        /\ EventIsOn(line[g]) = (level > 0)
    BY SalSays
  <2> HIDE DEF line
  <2>3. ASSUME NEW h \in Groups PROVE StateFresh(h)' /\ LevelFresh(h)'
    <3>1. StateFresh(h) /\ LevelFresh(h)
      BY <1>1 DEF AgreeInv
    <3>2. IF h = g THEN bus'[h] = level ELSE bus'[h] = bus[h]
      BY <2>1 DEF TypeOK
    <3>3. Pending(h)' = Pending(h)
      BY <2>1 DEF Pending
    <3>4. /\ h \in Told(line) => EventIsOn(line[h]) = (bus'[h] > 0)
          /\ h \in Leveled(line) => line[h].level = bus'[h]
          /\ \/ h \in Told(line) /\ h \in Leveled(line)
             \/ bus'[h] = bus[h] /\ (Pending(h)' = {} => Pending(h) = {})
      BY <2>2, <3>2, <3>3
    <3> QED  BY <2>1, <3>1, <3>4, FreshAppend
  <2> QED  BY <1>1, <2>1, <2>3 DEF AgreeInv
<1>2. CASE ~connected
  BY <1>2 DEF AgreeInv, BusCommand
<1> QED  BY <1>1, <1>2 DEF TypeOK

LEMMA AgreeNext == TypeOK /\ AgreeInv /\ [Next]_vars => AgreeInv'
<1> SUFFICES ASSUME TypeOK, AgreeInv, [Next]_vars PROVE AgreeInv'
  OBVIOUS
<1> USE DEF stateVars, entityVars, heardVars, busVars
<1>1. ASSUME NEW g \in Groups, NEW level \in Levels, SetLevel(g, level) PROVE AgreeInv'
  <2>1. /\ connected /\ connected' /\ events' = events /\ bus' = bus
        /\ settled' = settled /\ observed' = observed
        /\ commands' = Append(commands, <<g, level>>)
        /\ on' = [on EXCEPT ![g] = level > 0] /\ brightness' = [brightness EXCEPT ![g] = level]
    BY <1>1 DEF SetLevel, ApplyLevel
  <2>2. /\ Len(commands) + 1 \in DOMAIN commands' /\ commands'[Len(commands) + 1] = <<g, level>>
        /\ \A i \in DOMAIN commands : i \in DOMAIN commands' /\ commands'[i] = commands[i]
    BY <2>1 DEF TypeOK
  <2>3. ASSUME NEW h \in Groups PROVE StateFresh(h)' /\ LevelFresh(h)'
    <3>1. StateFresh(h) /\ LevelFresh(h)
      BY <2>1 DEF AgreeInv
    <3>2. Pending(h)' = {} => h # g /\ Pending(h) = {}
      BY <2>2 DEF Pending
    <3>3. CASE h = g
      BY <2>1, <3>1, <3>2, <3>3 DEF StateFresh, LevelFresh, ToldAt, LeveledAt
    <3>4. CASE h # g
      <4>1. on'[h] = on[h] /\ brightness'[h] = brightness[h]
        BY <2>1, <3>4 DEF TypeOK
      <4> QED  BY <2>1, <3>1, <3>2, <4>1, FreshKept
    <3> QED  BY <3>3, <3>4
  <2> QED  BY <2>1, <2>3 DEF AgreeInv
<1>2. CASE HandleLine
  <2>1. connected /\ connected'
    BY <1>2 DEF HandleLine
  <2>2. \A g \in Groups : StateFresh(g)' /\ LevelFresh(g)'
    BY <1>2, <2>1, FreshHandle DEF AgreeInv
  <2> QED  BY <2>1, <2>2 DEF AgreeInv
<1>3. CASE LinkUp
  <2>1. /\ connected' /\ settled' = {} /\ observed' = {} /\ events' = <<>>
    BY <1>3 DEF LinkUp, AgreeInv
  <2>2. DOMAIN events' = {}
    BY <2>1
  <2> QED  BY <2>1, <2>2 DEF AgreeInv, StateFresh, LevelFresh, ToldAt, LeveledAt
<1>4. CASE LinkLost
  BY <1>4 DEF LinkLost, AgreeInv
<1>5. ASSUME NEW u \in Units, UnitCommands(u) PROVE AgreeInv'
  <2>1. PICK b \in Bindings, level \in {0, MaxLevel} : b.unit = u /\ BusCommand(b.group, level, u)
    BY <1>5 DEF UnitCommands
  <2>2. b.group \in Groups /\ level \in Levels /\ u \in Sources
    BY BindingsAssumption, LevelAssumption DEF Levels, Sources
  <2> QED  BY <2>1, <2>2, AgreeCommand
<1>6. CASE SwitchCommands
  <2>1. PICK g \in Groups, level \in Levels : BusCommand(g, level, Other)
    BY <1>6 DEF SwitchCommands
  <2>2. g \in Groups /\ Other \in Sources
    BY GroupsAssumption DEF Sources
  <2> QED  BY <2>1, <2>2, AgreeCommand
<1>7. CASE CniExecutes
  <2> DEFINE g == Head(commands)[1]
             level == Head(commands)[2]
             line == Sal(g, level, Other)
  <2>1. /\ events' = Append(events, line) /\ bus' = [bus EXCEPT ![g] = level]
        /\ on' = on /\ brightness' = brightness /\ settled' = settled /\ observed' = observed
        /\ connected /\ connected' /\ commands' = Tail(commands)
    BY <1>7 DEF CniExecutes
  <2>2. Head(commands) \in Groups \X Levels
    BY <1>7 DEF CniExecutes, TypeOK
  <2>3. g \in Groups /\ level \in Levels /\ Other \in Sources
    BY <2>2, GroupsAssumption DEF Sources
  <2>4. \A i \in DOMAIN commands : \/ commands[i][1] = g
                                   \/ i - 1 \in DOMAIN commands' /\ commands'[i - 1] = commands[i]
    BY <1>7, <2>1 DEF CniExecutes, TypeOK
  <2> HIDE DEF g, level
  <2>5. /\ Told(line) = {g} /\ Leveled(line) = {g} /\ line[g].level = level
        /\ EventIsOn(line[g]) = (level > 0)
    BY <2>3, SalSays
  <2> HIDE DEF line
  <2>6. ASSUME NEW h \in Groups PROVE StateFresh(h)' /\ LevelFresh(h)'
    <3>1. StateFresh(h) /\ LevelFresh(h)
      BY <2>1 DEF AgreeInv
    <3>2. IF h = g THEN bus'[h] = level ELSE bus'[h] = bus[h]
      BY <2>1 DEF TypeOK
    <3>3. h # g => (Pending(h)' = {} => Pending(h) = {})
      BY <2>4 DEF Pending
    <3>4. /\ h \in Told(line) => EventIsOn(line[h]) = (bus'[h] > 0)
          /\ h \in Leveled(line) => line[h].level = bus'[h]
          /\ \/ h \in Told(line) /\ h \in Leveled(line)
             \/ bus'[h] = bus[h] /\ (Pending(h)' = {} => Pending(h) = {})
      BY <2>5, <3>2, <3>3
    <3> QED  BY <2>1, <3>1, <3>4, FreshAppend
  <2> QED  BY <2>1, <2>6 DEF AgreeInv
<1>8. CASE CniRefuses
  <2> DEFINE g == Head(commands)[1]
  <2>1. /\ connected /\ connected' /\ events' = events /\ bus' = bus
        /\ on' = on /\ brightness' = brightness
        /\ settled' = settled \ {g} /\ observed' = observed \ {g}
        /\ commands' = Tail(commands)
    BY <1>8 DEF CniRefuses
  <2>2. \A i \in DOMAIN commands : \/ commands[i][1] = g
                                   \/ i - 1 \in DOMAIN commands' /\ commands'[i - 1] = commands[i]
    BY <1>8, <2>1 DEF CniRefuses, TypeOK
  <2> HIDE DEF g
  <2>3. ASSUME NEW h \in Groups PROVE StateFresh(h)' /\ LevelFresh(h)'
    <3>1. StateFresh(h) /\ LevelFresh(h)
      BY <2>1 DEF AgreeInv
    <3>2. Pending(h)' = {} => Pending(h) = {} \/ h = g
      BY <2>2 DEF Pending
    <3> QED  BY <2>1, <3>1, <3>2, FreshKept
  <2> QED  BY <2>1, <2>3 DEF AgreeInv
<1>9. CASE MmiReport
  <2>1. PICK failed \in SUBSET Groups : events' = Append(events, Mmi(failed))
    BY <1>9 DEF MmiReport
  <2> DEFINE line == Mmi(failed)
  <2>2. /\ connected /\ connected' /\ bus' = bus /\ commands' = commands
        /\ on' = on /\ brightness' = brightness /\ settled' = settled /\ observed' = observed
    BY <1>9 DEF MmiReport
  <2>3. /\ \A g \in Told(line) : EventIsOn(line[g]) = (bus[g] > 0)
        /\ \A g \in Leveled(line) : line[g].level = bus[g]
    BY MmiSays DEF TypeOK
  <2>4. events' = Append(events, line)
    BY <2>1
  <2> HIDE DEF line
  <2>5. ASSUME NEW h \in Groups PROVE StateFresh(h)' /\ LevelFresh(h)'
    <3>1. StateFresh(h) /\ LevelFresh(h)
      BY <2>2 DEF AgreeInv
    <3>2. Pending(h)' = Pending(h)
      BY <2>2 DEF Pending
    <3> QED  BY <2>2, <2>3, <2>4, <3>1, <3>2, FreshAppend
  <2> QED  BY <2>2, <2>5 DEF AgreeInv
<1>10. CASE UNCHANGED vars
  <2>1. \A g \in Groups : StateFresh(g) /\ LevelFresh(g) => StateFresh(g)' /\ LevelFresh(g)'
    BY <1>10 DEF vars, StateFresh, LevelFresh, ToldAt, LeveledAt, Pending
  <2> QED  BY <1>10, <2>1 DEF vars, AgreeInv
<1> QED  BY <1>1, <1>2, <1>3, <1>4, <1>5, <1>6, <1>7, <1>8, <1>9, <1>10 DEF Next

LEMMA AgreeAlways == Spec => []AgreeInv
<1>1. Init => AgreeInv
  BY DEF Init, AgreeInv
<1> QED  BY <1>1, AgreeNext, TypeCorrect, PTL DEF Spec

LEMMA NothingOnTheWay ==
  ASSUME events = <<>>, commands = <<>>, NEW g \in Groups
  PROVE  ToldAt(g) = {} /\ LeveledAt(g) = {} /\ Pending(g) = {}
<1>1. DOMAIN events = {} /\ DOMAIN commands = {}
  OBVIOUS
<1> QED  BY <1>1 DEF ToldAt, LeveledAt, Pending

\* Commands and events may cross, be refused or be lost, in queues of any length: a
\* group whose state was heard is right as soon as nothing is on its way.
THEOREM StateAgrees == Spec => []AgreesWithBus
<1>1. TypeOK /\ AgreeInv => AgreesWithBus
  BY NothingOnTheWay DEF AgreeInv, StateFresh, AgreesWithBus, TypeOK
<1> QED  BY <1>1, AgreeAlways, TypeCorrect, PTL

\* And a group whose level was heard has that brightness.
THEOREM BrightnessAgrees == Spec => []BrightnessExact
<1>1. TypeOK /\ AgreeInv => BrightnessExact
  BY NothingOnTheWay DEF AgreeInv, LevelFresh, BrightnessExact, TypeOK
<1> QED  BY <1>1, AgreeAlways, TypeCorrect, PTL

-----------------------------------------------------------------------------
(* Motion agrees with the bus.                                             *)

\* A command of Home Assistant to an own group, while it is on its way, is known as such.
ManualKnown ==
  \A i \in DOMAIN commands : commands[i][1] \in OwnGroups => commands[i][1] \in manual

\* Every event about a telling group is a report, or a command of its unit; when none
\* is on its way and its state was heard, the unit is as the bus says.
MotionInv ==
  /\ \A i \in DOMAIN events : \A b \in Bindings :
       Telling(b) /\ b.group \in Told(events[i]) =>
         events[i][b.group].source \in {None, b.unit}
  /\ connected => \A b \in Bindings :
       Telling(b) /\ ToldAt(b.group) = {} /\ b.group \in settled =>
         motion[b.unit] = (bus[b.group] > 0)

\* What was commanded by hand is never forgotten.
LEMMA ManualNext == TypeOK /\ ManualKnown /\ [Next]_vars => ManualKnown' /\ manual \subseteq manual'
<1> SUFFICES ASSUME TypeOK, ManualKnown, [Next]_vars PROVE ManualKnown' /\ manual \subseteq manual'
  OBVIOUS
<1> USE DEF stateVars, entityVars, heardVars, busVars
<1>1. CASE commands' = commands /\ manual \subseteq manual'
  BY <1>1 DEF ManualKnown
<1>2. CASE /\ manual' = manual
           /\ commands' = <<>> \/ (commands # <<>> /\ commands' = Tail(commands))
  <2>1. CASE commands' = <<>>
    <3>1. DOMAIN << >> = {}
      OBVIOUS
    <3> QED  BY <1>2, <2>1, <3>1 DEF ManualKnown
  <2>2. CASE commands # <<>> /\ commands' = Tail(commands)
    <3>1. commands \in Seq(Groups \X Levels)
      BY DEF TypeOK
    <3>2. \A i \in DOMAIN Tail(commands) : i + 1 \in DOMAIN commands /\ Tail(commands)[i] = commands[i + 1]
      BY <2>2, <3>1
    <3> QED  BY <1>2, <2>2, <3>2 DEF ManualKnown
  <2> QED  BY <1>2, <2>1, <2>2
<1>3. ASSUME NEW g \in Groups, NEW level \in Levels, SetLevel(g, level)
      PROVE  ManualKnown' /\ manual \subseteq manual'
  <2>1. /\ commands' = Append(commands, <<g, level>>)
        /\ manual' = manual \cup ({g} \cap OwnGroups)
    BY <1>3 DEF SetLevel
  <2>2. \A i \in DOMAIN commands' :
          (i \in DOMAIN commands /\ commands'[i] = commands[i]) \/ commands'[i] = <<g, level>>
    BY <2>1 DEF TypeOK
  <2> QED  BY <2>1, <2>2 DEF ManualKnown, OwnGroups, Owner, BindingsOf
<1>4. ASSUME NEW g, NEW level, NEW src, BusCommand(g, level, src)
      PROVE  ManualKnown' /\ manual \subseteq manual'
  BY <1>1, <1>4 DEF BusCommand
<1>5. CASE \E u \in Units : UnitCommands(u)
  BY <1>4, <1>5 DEF UnitCommands
<1>6. CASE SwitchCommands
  BY <1>4, <1>6 DEF SwitchCommands
<1>7. CASE HandleLine
  BY <1>1, <1>7 DEF HandleLine
<1>8. CASE LinkUp
  BY <1>1, <1>8 DEF LinkUp
<1>9. CASE LinkLost
  <2>1. commands' = <<>> /\ manual' = manual
    BY <1>9 DEF LinkLost
  <2> QED  BY <1>2, <2>1
<1>10. CASE CniExecutes
  BY <1>2, <1>10 DEF CniExecutes
<1>11. CASE CniRefuses
  BY <1>2, <1>11 DEF CniRefuses
<1>12. CASE MmiReport
  BY <1>1, <1>12 DEF MmiReport
<1>13. CASE UNCHANGED vars
  BY <1>1, <1>13 DEF vars
<1> QED  BY <1>3, <1>5, <1>6, <1>7, <1>8, <1>9, <1>10, <1>11, <1>12, <1>13 DEF Next

\* A group that tells has told before.
LEMMA TellingBefore ==
  ASSUME manual \subseteq manual', NEW b \in Bindings, Telling(b)'
  PROVE  Telling(b)
BY DEF Telling, Owner, BindingsOf

\* A new line: about a telling group it is a report or a command of its unit, and it
\* says something of the group if the bus has changed.
LEMMA MotionAppend ==
  ASSUME TypeOK, MotionInv, manual \subseteq manual', connected, connected' = connected, NEW line,
         events' = Append(events, line), motion' = motion, settled' = settled,
         \A b \in Bindings : Telling(b)' =>
           IF b.group \in Told(line) THEN line[b.group].source \in {None, b.unit}
           ELSE bus'[b.group] = bus[b.group]
  PROVE  MotionInv'
<1> DEFINE n == Len(events) + 1
<1>1. /\ n \in DOMAIN events' /\ events'[n] = line
      /\ DOMAIN events' = DOMAIN events \cup {n}
      /\ \A i \in DOMAIN events : events'[i] = events[i]
  BY DEF TypeOK
<1> HIDE DEF n
<1>2. \A i \in DOMAIN events' : \A b \in Bindings :
        Telling(b)' /\ b.group \in Told(events'[i]) =>
          events'[i][b.group].source \in {None, b.unit}
  BY <1>1, TellingBefore DEF MotionInv
<1>3. ASSUME NEW b \in Bindings, Telling(b)', ToldAt(b.group)' = {}, b.group \in settled'
      PROVE  motion'[b.unit] = (bus'[b.group] > 0)
  <2>1. b.group \notin Told(line) /\ ToldAt(b.group) = {}
    BY <1>1, <1>3 DEF ToldAt
  <2>2. Telling(b)
    BY <1>3, TellingBefore
  <2> QED  BY <1>3, <2>1, <2>2 DEF MotionInv
<1> QED  BY <1>2, <1>3 DEF MotionInv

\* A command on the bus: of a unit bound to the group, or of someone else.
LEMMA MotionCommand ==
  ASSUME TypeOK, MotionInv, manual \subseteq manual',
         NEW g \in Groups, NEW level \in Levels, NEW src \in Sources,
         \/ \E c \in Bindings : c.unit = src /\ c.group = g
         \/ src = Other,
         BusCommand(g, level, src)
  PROVE  MotionInv'
<1> DEFINE line == Sal(g, level, src)
<1>1. Told(line) = {g} /\ line[g].source = src
  BY SalSays
<1>2. /\ bus' = [bus EXCEPT ![g] = level] /\ motion' = motion /\ connected' = connected
      /\ IF connected THEN events' = Append(events, line) /\ settled' = settled
                      ELSE events' = events
      /\ src = Other => manual' = manual \cup ({g} \cap OwnGroups)
  BY DEF BusCommand, stateVars
<1> HIDE DEF line
<1>3. ASSUME NEW b \in Bindings, Telling(b)'
      PROVE  IF b.group \in Told(line) THEN line[b.group].source \in {None, b.unit}
             ELSE bus'[b.group] = bus[b.group]
  <2>1. CASE b.group = g
    <3>1. Telling(b)
      BY <1>3, TellingBefore
    <3>2. g \in OwnGroups /\ g \notin manual'
      BY <1>3, <2>1, <3>1 DEF Telling, OwnGroups
    <3>3. PICK c \in Bindings : c.unit = src /\ c.group = g
      BY <1>2, <3>2
    <3>4. c = b
      BY <2>1, <3>1, <3>3 DEF Telling, Owner, BindingsOf
    <3> QED  BY <1>1, <2>1, <3>3, <3>4
  <2>2. CASE b.group # g
    BY <1>1, <1>2, <2>2, BindingsAssumption DEF TypeOK
  <2> QED  BY <2>1, <2>2
<1>4. CASE connected
  BY <1>2, <1>3, <1>4, MotionAppend
<1>5. CASE ~connected
  BY <1>2, <1>5, TellingBefore DEF MotionInv
<1> QED  BY <1>4, <1>5 DEF TypeOK

LEMMA MotionNext == TypeOK /\ AgreeInv /\ ManualKnown /\ MotionInv /\ [Next]_vars => MotionInv'
<1> SUFFICES ASSUME TypeOK, AgreeInv, ManualKnown, MotionInv, [Next]_vars PROVE MotionInv'
  OBVIOUS
<1>m. manual \subseteq manual'
  BY ManualNext
<1> USE DEF stateVars, entityVars, heardVars, busVars
<1>1. CASE /\ UNCHANGED <<bus, events, motion>> /\ (connected' => connected \/ settled = {})
           /\ settled' \subseteq settled
  BY <1>1, <1>m, TellingBefore DEF MotionInv, ToldAt
<1>2. ASSUME NEW g \in Groups, NEW level \in Levels, SetLevel(g, level) PROVE MotionInv'
  BY <1>1, <1>2 DEF SetLevel, ApplyLevel
<1>3. CASE HandleLine
  <2> DEFINE line == Head(events)
  <2>1. /\ line \in Lines /\ Handle(line) /\ bus' = bus /\ connected /\ connected'
        /\ settled' = settled \cup Told(line)
        /\ 1 \in DOMAIN events /\ line = events[1]
        /\ \A i \in DOMAIN events : i \in Int /\ (i = 1 \/ (i - 1 \in DOMAIN events' /\ i - 1 + 1 = i))
        /\ \A i \in DOMAIN events' : i + 1 \in DOMAIN events /\ events'[i] = events[i + 1]
    BY <1>3 DEF HandleLine, TypeOK
  <2> HIDE DEF line
  <2>2. \A i \in DOMAIN events' : \A b \in Bindings :
          Telling(b)' /\ b.group \in Told(events'[i]) =>
            events'[i][b.group].source \in {None, b.unit}
    BY <1>m, <2>1, TellingBefore DEF MotionInv
  <2>3. ASSUME NEW b \in Bindings, Telling(b)', ToldAt(b.group)' = {}, b.group \in settled'
        PROVE  motion'[b.unit] = (bus'[b.group] > 0)
    <3> DEFINE g == b.group
               u == b.unit
    <3>t. Telling(b)
      BY <1>m, <2>3, TellingBefore
    <3>1. g \in Groups /\ u \in Units /\ b \in BindingsOf(g)
      BY BindingsAssumption DEF BindingsOf
    <3>2. \A c \in Bindings : c.unit = u => c = b
      BY <3>t DEF Telling
    <3>3. MotionGroups(line, u) \subseteq {g}
      BY <3>2 DEF MotionGroups, Concerns, BindingsOf
    <3>4. \A j \in ToldAt(g) : j = 1
      BY <2>1, <2>3 DEF ToldAt
    <3> HIDE DEF g, u
    <3>5. CASE g \in Told(line)
      <4>1. line[g].source \in {None, u}
        BY <2>1, <3>t, <3>5 DEF MotionInv, g, u
      <4>2. u # None
        BY <3>1, NoneAssumption DEF Sources
      <4>3. Concerns(g, line[g], u)
        BY <3>t, <3>1, <4>1, <4>2 DEF Concerns, Telling, u
      <4>4. MotionGroups(line, u) = {g}
        BY <3>3, <3>5, <4>3 DEF MotionGroups
      <4>5. motion'[u] = EventIsOn(line[g])
        BY <2>1, <3>1, <4>4, HandleTypes
      <4>6. 1 \in ToldAt(g) /\ \A j \in ToldAt(g) : j <= 1
        BY <2>1, <3>4, <3>5 DEF ToldAt
      <4>7. EventIsOn(line[g]) = (bus[g] > 0)
        BY <2>1, <3>1, <4>6 DEF AgreeInv, StateFresh
      <4> QED  BY <2>1, <4>5, <4>7 DEF g, u
    <3>6. CASE g \notin Told(line)
      <4>1. ToldAt(g) = {} /\ g \in settled
        BY <2>1, <2>3, <3>4, <3>6 DEF ToldAt, g
      <4>2. MotionGroups(line, u) = {}
        BY <3>3, <3>6 DEF MotionGroups
      <4>3. motion'[u] = motion[u]
        BY <2>1, <3>1, <4>2, HandleTypes
      <4> QED  BY <2>1, <3>t, <4>1, <4>3 DEF MotionInv, g, u
    <3> QED  BY <3>5, <3>6
  <2> QED  BY <2>2, <2>3 DEF MotionInv
<1>4. CASE LinkUp
  BY <1>1, <1>4 DEF LinkUp, AgreeInv
<1>5. CASE LinkLost
  <2>1. events' = <<>> /\ ~connected'
    BY <1>5 DEF LinkLost
  <2>2. DOMAIN events' = {}
    BY <2>1
  <2> QED  BY <2>1, <2>2 DEF MotionInv
<1>6. ASSUME NEW u \in Units, UnitCommands(u) PROVE MotionInv'
  <2>1. PICK b \in Bindings, level \in {0, MaxLevel} : b.unit = u /\ BusCommand(b.group, level, u)
    BY <1>6 DEF UnitCommands
  <2>2. b.group \in Groups /\ level \in Levels /\ u \in Sources
    BY BindingsAssumption, LevelAssumption DEF Levels, Sources
  <2> QED  BY <1>m, <2>1, <2>2, MotionCommand
<1>7. CASE SwitchCommands
  <2>1. PICK g \in Groups, level \in Levels : BusCommand(g, level, Other)
    BY <1>7 DEF SwitchCommands
  <2>2. g \in Groups /\ Other \in Sources
    BY GroupsAssumption DEF Sources
  <2> QED  BY <1>m, <2>1, <2>2, MotionCommand
<1>8. CASE CniExecutes
  <2> DEFINE g == Head(commands)[1]
             level == Head(commands)[2]
             line == Sal(g, level, Other)
  <2>1. /\ events' = Append(events, line) /\ bus' = [bus EXCEPT ![g] = level]
        /\ motion' = motion /\ settled' = settled /\ connected /\ connected' = connected
    BY <1>8 DEF CniExecutes
  <2>2. Head(commands) \in Groups \X Levels
    BY <1>8 DEF CniExecutes, TypeOK
  <2>3. g \in Groups /\ level \in Levels /\ Other \in Sources
    BY <2>2, GroupsAssumption DEF Sources
  <2>n. manual' = manual /\ (g \in OwnGroups => g \in manual)
    BY <1>8 DEF CniExecutes, ManualKnown, TypeOK
  <2> HIDE DEF g, level
  <2>4. Told(line) = {g}
    BY <2>3, SalSays
  <2> HIDE DEF line
  <2>5. ASSUME NEW b \in Bindings, Telling(b)'
        PROVE  b.group \notin Told(line) /\ bus'[b.group] = bus[b.group]
    <3>1. b.group # g
      BY <1>m, <2>5, <2>n, TellingBefore DEF Telling, OwnGroups
    <3> QED  BY <2>1, <2>3, <2>4, <3>1, BindingsAssumption DEF TypeOK
  <2> QED  BY <1>m, <2>1, <2>5, MotionAppend
<1>9. CASE CniRefuses
  BY <1>1, <1>9 DEF CniRefuses
<1>10. CASE MmiReport
  <2>1. PICK failed \in SUBSET Groups : events' = Append(events, Mmi(failed))
    BY <1>10 DEF MmiReport
  <2> DEFINE line == Mmi(failed)
  <2>2. /\ bus' = bus /\ motion' = motion /\ settled' = settled /\ connected
        /\ connected' = connected /\ events' = Append(events, line)
    BY <1>10, <2>1 DEF MmiReport
  <2>3. \A g \in Told(line) : line[g].source = None
    BY MmiSays DEF TypeOK
  <2> HIDE DEF line
  <2> QED  BY <1>m, <2>2, <2>3, MotionAppend
<1>11. CASE UNCHANGED vars
  BY <1>1, <1>11 DEF vars
<1> QED  BY <1>2, <1>3, <1>4, <1>5, <1>6, <1>7, <1>8, <1>9, <1>10, <1>11 DEF Next

\* A unit whose only group is its own shows what the group says as soon as nothing is
\* on its way, however many commands and reports have crossed or were missed.
THEOREM MotionFollows == Spec => []MotionAgrees
<1>1. Init => ManualKnown /\ MotionInv
  <2> SUFFICES ASSUME Init PROVE ManualKnown /\ MotionInv
    OBVIOUS
  <2>1. DOMAIN events = {} /\ DOMAIN commands = {} /\ ~connected
    BY DEF Init
  <2> QED  BY <2>1 DEF ManualKnown, MotionInv
<1>2. MotionInv => MotionAgrees
  <2> SUFFICES ASSUME MotionInv, connected, events = <<>>, NEW b \in Bindings, Telling(b),
                      b.group \in settled
               PROVE  motion[b.unit] = (bus[b.group] > 0)
    BY DEF MotionAgrees
  <2>1. DOMAIN events = {}
    OBVIOUS
  <2> QED  BY <2>1 DEF MotionInv, ToldAt
<1> QED  BY <1>1, <1>2, ManualNext, MotionNext, AgreeAlways, TypeCorrect, PTL DEF Spec
=============================================================================
