---------------------------- MODULE GroupState ----------------------------
(***************************************************************************)
(* What Home Assistant knows of the groups and PIR units of one network:   *)
(* class CbusRuntime of runtime.py (async_set_level, _handle_event,        *)
(* _handle_motion_event, _handle_availability, _notify), the entities that *)
(* listen to it, and the C-Bus network behind the CNI.                     *)
(*                                                                         *)
(* The run task hands over the events of one received line without being   *)
(* suspended, so a line is one step.  Commands and events cross: a command *)
(* is written while older events are still on their way.                   *)
(*                                                                         *)
(* Abstracted: applications and networks (a group stands for its key), the *)
(* ramp time, timestamps, the event fired on hass.bus; send_level itself   *)
(* is CniConnection: here its commands reach the CNI in order and each is  *)
(* executed, refused or lost.                                              *)
(***************************************************************************)
EXTENDS Integers, Sequences

CONSTANTS
  Groups,      \* addresses of the C-Bus groups the entities stand for
  Units,       \* PIR units
  Bindings,    \* _motion_bindings: records [group, unit, dedicated]; a unit with a
               \*   dedicated group is bound to no other (_resolve_motion_groups)
  MaxLevel,    \* 255 in the code
  MaxEvents,   \* bound: lines not yet received
  MaxCommands, \* bound: commands not yet executed
  None         \* the value Python calls None

Other  == "other"                 \* the address of a switch, or of the CNI itself
Levels == 0 .. MaxLevel
Sources == Units \cup {Other}

ASSUME GroupsAssumption == Groups \subseteq 0 .. 255
ASSUME BindingsAssumption ==
  /\ Bindings \subseteq [group : Groups, unit : Units, dedicated : BOOLEAN]
  /\ \A b, c \in Bindings : b.unit = c.unit => b.dedicated = c.dedicated
ASSUME LevelAssumption  == MaxLevel \in Nat \ {0}
ASSUME QueueAssumption  == MaxEvents \in Nat \ {0} /\ MaxCommands \in Nat \ {0}
ASSUME NoneAssumption   == /\ None \notin BOOLEAN /\ None \notin 0 .. MaxLevel
                           /\ None \notin Sources /\ Other \notin Units

VARIABLES
  bus,        \* the level each group really has
  tripped,    \* history: units that have commanded one of their groups ON
  manual,     \* history: own groups that a switch or Home Assistant has commanded
  reported,   \* history: own groups that a status report has said were on
  events,     \* lines sent by the CNI and not yet handled, in order; a line has
              \* an event for each of its groups
  commands,   \* <<group, level>> written and not yet executed, in order
  connected,  \* connection.connected
  on,         \* self.states[key].is_on
  brightness, \* self.states[key].brightness
  source,     \* self.states[key].source
  motion,     \* self.motion_states[key].is_on
  shown,      \* what each group entity last wrote to Home Assistant
  motionShown,\* what each motion entity last wrote
  settled,    \* history: groups of which a state was heard since anything about
              \* them was missed
  observed    \* history: the same for a level

busVars    == <<bus, tripped, manual, reported, events, commands>>
stateVars  == <<on, brightness, source, motion>>
entityVars == <<shown, motionShown>>
heardVars  == <<settled, observed>>
vars == <<bus, tripped, manual, reported, events, commands, connected, on, brightness,
          source, motion, shown, motionShown, settled, observed>>

-----------------------------------------------------------------------------
(* Entities.  A callback is async_write_ha_state: it writes what the       *)
(* entity's properties return at that moment.                              *)

\* is_on, brightness, last_source_unit and available of a group entity.
View(isOn, level, src, up) ==
  [on |-> isOn, brightness |-> level, source |-> src, available |-> up]

\* motion_available: a unit with no bound group never is.
HasMotionGroup(u) == \E b \in Bindings : b.unit = u

MotionView(u, isOn, up) == [on |-> isOn, available |-> HasMotionGroup(u) /\ up]

\* _notify of the keys in G and U, once the state has changed.
Notify(G, U) ==
  /\ shown' = [g \in Groups |->
       IF g \in G THEN View(on'[g], brightness'[g], source'[g], connected') ELSE shown[g]]
  /\ motionShown' = [u \in Units |->
       IF u \in U THEN MotionView(u, motion'[u], connected') ELSE motionShown[u]]

-----------------------------------------------------------------------------
(* Events.                                                                 *)

Event(level, isOn, src) == [level |-> level, on |-> isOn, source |-> src]

Events == [level : Levels \cup {None}, on : BOOLEAN \cup {None}, source : Sources \cup {None}]
Lines  == UNION {[S -> Events] : S \in SUBSET Groups}

\* Mutant: the level is scaled twice.
SalScaled(g, level, src) == [x \in {g} |-> Event(2 * level, level > 0, src)]

\* A live SAL command: its level and the unit that sent it.
Sal(g, level, src) == [x \in {g} |-> Event(level, level > 0, src)]

\* Mutant: a group that is on is taken to be at full level.
MmiEventFull(g, failed) ==
  CASE failed                  -> Event(None, None, None)
    [] ~failed /\ bus[g] = 0   -> Event(0, FALSE, None)
    [] ~failed /\ bus[g] > 0   -> Event(MaxLevel, TRUE, None)

\* One group of an MMI report: no level for a group that is on, and no state
\* either for a group in error.
MmiEvent(g, failed) ==
  CASE failed                  -> Event(None, None, None)
    [] ~failed /\ bus[g] = 0   -> Event(0, FALSE, None)
    [] ~failed /\ bus[g] > 0   -> Event(None, TRUE, None)

Mmi(failed) == [g \in Groups |-> MmiEvent(g, g \in failed)]

\* Mutant: "if event.level is not None" taken for "if event.level".
AnyLevelIsOn(e) == IF e.level # None THEN TRUE ELSE e.on

\* What an event says of the group: on, off or nothing.
EventIsOn(e) == IF e.level # None THEN e.level > 0 ELSE e.on

\* The groups a line says a state of, and those it says a level of.
Told(line)    == {g \in DOMAIN line : EventIsOn(line[g]) # None}
Leveled(line) == {g \in DOMAIN line : line[g].level # None}

BindingsOf(g) == {b \in Bindings : b.group = g}

\* A group that is named for motion and that one unit only is bound to.
Owner(b) == b.dedicated /\ \A c \in BindingsOf(b.group) : c = b

\* Such groups.
OwnGroups == {b.group : b \in {c \in Bindings : Owner(c)}}

\* Mutant: a report counts for every unit bound to the group.
ConcernsReported(g, e, u) ==
  \E b \in BindingsOf(g) : b.unit = u /\ (e.source # None => e.source = u)

\* Mutant: a report counts for no unit.
ConcernsLive(g, e, u) == \E b \in BindingsOf(g) : b.unit = u /\ e.source = u

\* An event for group g sets the motion state of unit u: the unit sent the command
\* or, for a report, is the only unit of a dedicated group.
Concerns(g, e, u) ==
  \E b \in BindingsOf(g) :
    /\ b.unit = u
    /\ IF e.source # None THEN e.source = u ELSE Owner(b)

\* The groups of the line that set it; the last one counts.
MotionGroups(line, u) == {g \in Told(line) : Concerns(g, line[g], u)}
Last(S) == CHOOSE g \in S : \A h \in S : h <= g

\* _handle_event and _handle_motion_event of each event of the line.
Handle(line) ==
  /\ on' = [g \in Groups |-> IF g \in Told(line) THEN EventIsOn(line[g]) ELSE on[g]]
  /\ brightness' = [g \in Groups |->
                      IF g \in Leveled(line) THEN line[g].level ELSE brightness[g]]
  /\ source' = [g \in Groups |-> IF g \in DOMAIN line THEN line[g].source ELSE source[g]]
  /\ motion' = [u \in Units |-> IF MotionGroups(line, u) # {}
                                THEN EventIsOn(line[Last(MotionGroups(line, u))])
                                ELSE motion[u]]

-----------------------------------------------------------------------------
Init ==
  /\ bus \in [Groups -> Levels]
  /\ tripped = {} /\ manual = {}
  /\ reported = {}
  /\ events = <<>>
  /\ commands = <<>>
  /\ connected = FALSE
  /\ on = [g \in Groups |-> None]
  /\ brightness = [g \in Groups |-> None]
  /\ source = [g \in Groups |-> None]
  /\ motion = [u \in Units |-> None]
  /\ shown = [g \in Groups |-> View(None, None, None, FALSE)]
  /\ motionShown = [u \in Units |-> MotionView(u, None, FALSE)]
  /\ settled = {}
  /\ observed = {}

(* The runtime.                                                            *)

\* _apply_level, for a command of Home Assistant: the optimistic update.
ApplyLevel(g, level) ==
  /\ on' = [on EXCEPT ![g] = level > 0]
  /\ brightness' = [brightness EXCEPT ![g] = level]
  /\ source' = [source EXCEPT ![g] = None]
  /\ UNCHANGED motion
  /\ Notify({g}, {})

\* async_set_level: refused while the connection is down; otherwise the
\* optimistic update, then the command.
SetLevel(g, level) ==
  /\ connected
  /\ Len(commands) < MaxCommands
  /\ commands' = Append(commands, <<g, level>>)
  /\ manual' = manual \cup ({g} \cap OwnGroups)
  /\ UNCHANGED <<bus, tripped, reported, events, connected, heardVars>>
  /\ ApplyLevel(g, level)

\* The next line: each of its events in turn.
HandleLine ==
  /\ connected
  /\ events # <<>>
  /\ events' = Tail(events)
  /\ UNCHANGED <<bus, tripped, manual, reported, commands, connected>>
  /\ LET line == Head(events)
     IN  /\ Handle(line)
         /\ settled' = settled \cup Told(line)
         /\ observed' = observed \cup Leveled(line)
         /\ Notify(DOMAIN line, {u \in Units : MotionGroups(line, u) # {}})

\* Mutant: only the listeners of the network itself are called.
LinkUpSilent ==
  /\ ~connected
  /\ connected' = TRUE
  /\ UNCHANGED <<busVars, stateVars, entityVars, heardVars>>

\* _handle_availability: every listener of the network is called.
LinkUp ==
  /\ ~connected
  /\ connected' = TRUE
  /\ UNCHANGED <<busVars, stateVars, heardVars>>
  /\ Notify(Groups, Units)

\* The connection is lost: unread lines with it, and the commands the CNI has
\* not executed yet, from some point on.
LinkLost ==
  /\ connected
  /\ connected' = FALSE
  /\ events' = <<>>
  /\ commands' = <<>>
  /\ \E n \in 0 .. Len(commands) :
       LET About(g) == {i \in 1 .. n : commands[i][1] = g}
       IN  bus' = [g \in Groups |-> IF About(g) # {} THEN commands[Last(About(g))][2]
                                                     ELSE bus[g]]
  /\ settled' = {} /\ observed' = {}
  /\ UNCHANGED <<tripped, manual, reported, stateVars>>
  /\ Notify(Groups, Units)

-----------------------------------------------------------------------------
(* The C-Bus network and the CNI.                                          *)

\* A unit or a switch commands a group.  Nobody hears it while there is no
\* connection.
BusCommand(g, level, src) ==
  /\ connected => Len(events) < MaxEvents
  /\ bus' = [bus EXCEPT ![g] = level]
  /\ events' = IF connected THEN Append(events, Sal(g, level, src)) ELSE events
  /\ settled' = IF connected THEN settled ELSE settled \ {g}
  /\ observed' = IF connected THEN observed ELSE observed \ {g}
  /\ tripped' = IF src \in Units /\ level > 0 THEN tripped \cup {src} ELSE tripped
  /\ manual' = IF src = Other THEN manual \cup ({g} \cap OwnGroups) ELSE manual
  /\ UNCHANGED <<reported, commands, connected, stateVars, entityVars>>

UnitCommands(u) == \E b \in Bindings, level \in {0, MaxLevel} :
                     b.unit = u /\ BusCommand(b.group, level, u)

SwitchCommands == \E g \in Groups, level \in Levels : BusCommand(g, level, Other)

\* The CNI executes the next command and, with Local SAL enabled by
\* _initialise, reports it like any other.
CniExecutes ==
  /\ connected /\ commands # <<>> /\ Len(events) < MaxEvents
  /\ LET c == Head(commands)
     IN  /\ bus' = [bus EXCEPT ![c[1]] = c[2]]
         /\ events' = Append(events, Sal(c[1], c[2], Other))
  /\ commands' = Tail(commands)
  /\ UNCHANGED <<tripped, manual, reported, connected, stateVars, entityVars, heardVars>>

\* The CNI refuses the command: the call raises, the optimistic update stays.
CniRefuses ==
  /\ connected /\ commands # <<>>
  /\ commands' = Tail(commands)
  /\ settled' = settled \ {Head(commands)[1]}
  /\ observed' = observed \ {Head(commands)[1]}
  /\ UNCHANGED <<bus, tripped, manual, reported, events, connected, stateVars, entityVars>>

MmiReport ==
  /\ connected /\ Len(events) < MaxEvents
  /\ \E failed \in SUBSET Groups :
       /\ events' = Append(events, Mmi(failed))
       /\ reported' = reported \cup {g \in OwnGroups \ failed : bus[g] > 0}
  /\ UNCHANGED <<bus, tripped, manual, commands, connected, stateVars, entityVars, heardVars>>

-----------------------------------------------------------------------------
Next ==
  \/ \E g \in Groups, level \in Levels : SetLevel(g, level)
  \/ HandleLine \/ LinkUp \/ LinkLost
  \/ \E u \in Units : UnitCommands(u)
  \/ SwitchCommands \/ CniExecutes \/ CniRefuses \/ MmiReport

Spec == Init /\ [][Next]_vars

-----------------------------------------------------------------------------
TypeOK ==
  /\ bus \in [Groups -> Levels]
  /\ tripped \subseteq Units /\ manual \subseteq Groups /\ reported \subseteq Groups
  /\ events \in Seq(Lines) /\ Len(events) <= MaxEvents
  /\ commands \in Seq(Groups \X Levels) /\ Len(commands) <= MaxCommands
  /\ connected \in BOOLEAN
  /\ on \in [Groups -> BOOLEAN \cup {None}]
  /\ brightness \in [Groups -> Levels \cup {None}]
  /\ source \in [Groups -> Sources \cup {None}]
  /\ motion \in [Units -> BOOLEAN \cup {None}]
  /\ settled \subseteq Groups /\ observed \subseteq Groups

\* Once its state was heard and nothing was missed since, and no command
\* or event is on its way, a group is on exactly if the bus says so: neither a
\* command crossing older events nor an optimistic update of a command that was
\* overtaken leaves Home Assistant wrong ("The live SAL/MMI stream remains the
\* source of truth and will correct the state if the bus reports otherwise").
AgreesWithBus ==
  connected /\ events = <<>> /\ commands = <<>> =>
    \A g \in settled : on[g] = (bus[g] > 0)

\* Every entity shows what its properties would return now: no change of state
\* or of availability goes without the notification of the key it concerns.
ShownIsCurrent ==
  /\ \A g \in Groups : shown[g] = View(on[g], brightness[g], source[g], connected)
  /\ \A u \in Units : motionShown[u] = MotionView(u, motion[u], connected)

\* Motion has a cause, whoever else commands the groups: the unit has itself switched
\* one of its groups on, or a status report has found on a group that is named for
\* motion and belongs to this unit alone ("MMI has no source unit. It is only safe for
\* a dedicated motion group that belongs to one physical PIR").  "Manual commands from
\* switches or Home Assistant do not set the PIR entity" therefore holds of every live
\* command, and of every report of an ordinary group or a group of two PIRs; a manual
\* command to a unit's own motion group does set it, with the next report.
MotionHasCause ==
  \A u \in Units : motion[u] = TRUE =>
    \/ u \in tripped
    \/ \E b \in Bindings : b.unit = u /\ Owner(b) /\ b.group \in reported

\* The groups that tell what their unit sees: it alone has commanded them, and it
\* commands no other.
Telling(b) == /\ Owner(b) /\ b.group \notin manual
              /\ \A c \in Bindings : c.unit = b.unit => c = b

\* A unit with such a group shows motion exactly if the group is on, once its state was
\* heard and nothing is on its way: whether the command of the unit was heard
\* or was sent while the connection was down, and only a later report tells.
MotionAgrees ==
  connected /\ events = <<>> /\ commands = <<>> =>
    \A b \in Bindings : Telling(b) /\ b.group \in settled =>
      motion[b.unit] = (bus[b.group] > 0)

\* When nothing is on its way, once its level was heard, a group has the brightness it
\* has on the bus ("Exact brightness becomes known after Home Assistant observes or
\* sends a RAMP/level command"), whatever reports without a level came in between.
BrightnessExact ==
  connected /\ events = <<>> /\ commands = <<>> =>
    \A g \in observed : brightness[g] = bus[g]
=============================================================================
