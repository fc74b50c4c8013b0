# Formal models of ha-cbus-nac

TLA+ models, TLC configurations and TLAPS proofs for the Home Assistant
integration in `src/custom_components/cbus_nac` (line numbers below are of that
directory). The integration talks to a Schneider/Clipsal C-Bus network through a
CNI, a TCP gateway that accepts *one* client, and shows its groups and PIR units
as Home Assistant entities.

## 1. Inventory

Everything runs as tasks and callbacks on one asyncio event loop: a task is only
interrupted where an `await` really suspends it. The hard behaviours are what
other tasks, the CNI and TCP do at those points.

| Part | State | Operations | Hard behaviour | Must hold |
|---|---|---|---|---|
| CNI connection (`protocol.py`, `CbusCniConnection`) | reader/writer, `_connected`, `_confirmations` (tag -> future), tag cycle, semaphore of 17 slots, write lock, `_stopping`, `_paused_until`, run task | `start`, `stop`, `pause`, `resume`, `send_level`, `_run`, `_initialise`, `_read_loop`, `_handle_line`, `_close` | calls, the run task, `stop()` and `pause()` interleave; timeouts race answers; resets; cancellation at any `await`; reconnection | slots and tags conserved; an answer reaches its own command; one socket; `stop()` final; every call returns; reconnects for ever |
| Receive buffer (`protocol.py`, `_read_loop`, `_consume_receive_buffer`) | one bytearray per connection | append a chunk, cut lines | TCP cuts anywhere, confirmations have no terminator | lines handled = lines sent, as early as possible |
| Lighting codec (`protocol.py`, `encode_lighting_command`, `parse_cni_line`, `_parse_mmi`) | none | encode, checksum, parse SAL and MMI | boundaries of levels, ramps and group numbers; unknown commands; damaged lines | what is decoded is what a unit, the network or Home Assistant meant, in order; damage says nothing |
| Runtime: groups and motion (`runtime.py`) | `states`, `motion_states`, `_motion_bindings`, `_listeners`, `connections` | `async_set_level`, `_handle_event`, `_handle_motion_event`, `_apply_level`, `_handle_availability`, `subscribe` | optimistic updates cross events; reports carry neither level nor source; commands fail after the update | Home Assistant agrees with the bus once reports arrive; motion only with a cause, and gone when it is over; entities never stale |
| Entities (`entity.py`, `light.py`, `switch.py`, `binary_sensor.py`, `sensor.py`) | what they last wrote | callbacks, service calls, subscribe and unsubscribe | a state change without notification | shown = current |
| Illuminance poller (`runtime.py` 366-443, `unit_parameter.py`, `sensor.py`) | `illuminance_states`, one task per NAC | start, poll, set values or errors, cancel and gather | one failure among several; objects that change during a request; a dead task; stop at any moment | a reading is what the NAC exported during the request; none after a failed poll; sensors recover; the stop completes |
| Entry life cycle (`__init__.py`) | `hass.data[DOMAIN]`, the runtime | setup, unload, reload on update, remove | failed or cancelled setup, unload refused, reload while reloading | at most one runtime holds the CNI; none after unload |
| Project store and config flow (`storage.py`, `config_flow.py`) | stored projects, the entry, its options, open forms | save, load, delete; user, reconfigure and options flows | crash between save and entry update; missing store; overlapping forms | an entry's project key always loads; options are what the user last put into each field |
| Project import (`project.py`, definitions in `runtime.py` 118-364) | none | parse, classify, choose motion groups, diff | choices among several conditions; the diff is computed apart from what takes effect | bindings sound, no group lost, the diff hides nothing |
| Diagnostics, constants (`diagnostics.py`, `const.py`) | none | redacted views | none | not modelled |

Interactions: the entry's setup creates the runtime; the runtime creates one
connection per network and passes it two callbacks (`_handle_event`,
`_handle_availability`), which the run task calls synchronously; entities
subscribe by key and call `async_set_level`, which calls `send_level` in the task
of the service call. All of it is shared state on one event loop, with no locks but
the write lock and the slot semaphore.

## 2. Modules

| Module | Models |
|---|---|
| `CniConnection` | one `CbusCniConnection` with its callers, `stop()`, `pause()`, TCP and the CNI |
| `ConfirmedCommands` | the abstract promise of the connection: commands go out only while it is up, at most `Limit` unconfirmed, success only for an accepted command |
| `CniConnectionProofs` | theorems about `CniConnection`: types, slots, tags, sockets, quiet after `stop()`; without pausing, what a call waits for, what a finished `stop()` leaves, that confirmations match, and the refinement of `ConfirmedCommands` |
| `ReceiveBuffer` | the bytes of one connection after another, cut into lines |
| `ReceiveBufferProofs` | theorems about `ReceiveBuffer` |
| `LightingCodec` | a line from a unit, the network or `send_level` to the events made of it |
| `LightingCodecProofs` | theorems about `LightingCodec` |
| `GroupState` | the runtime's group and motion states, the entities, and the C-Bus network behind the CNI |
| `GroupStateProofs` | theorems about `GroupState` |
| `IlluminancePoller` | the polling tasks, the NACs they ask, the illuminance entities, `async_stop` |
| `IlluminancePollerProofs` | theorems about `IlluminancePoller` |
| `ProjectImport` | from Toolkit projects and options forms to connections, entities and motion bindings |
| `ProjectImportProofs` | theorems about `ProjectImport` |
| `EntryLifecycle` | one config entry with its runtimes, stored projects, flows, interruptions and restarts |
| `EntryLifecycleProofs` | theorems about `EntryLifecycle` |
| `Induction` | least elements and induction over the naturals, stated with sets, for the proofs |
| `MC...` | constants and symmetry for TLC |

The modules meet at the interfaces of the code. `ReceiveBuffer` hands out the lines that
`LightingCodec` parses, whose events `GroupState` handles; the commands of `GroupState` are the
calls of `CniConnection`; the bindings `GroupState` assumes are those `ProjectImport`
computes (`BindingsSound`); the connections and pollers are what `EntryLifecycle` starts and
stops as a whole.

### CniConnection

`run` is the program counter of `_run` (`begin`: top of the loop; `opening`:
`open_connection`; `init`: `_initialise`; `reading`: `_read_loop`; `closing`: suspended
in `_close`; `sleep`: between attempts), `pc[s]` that of a `send_level` call (`slot`,
`lock`, `drain`, `reply`), `stopper` that of `stop()`, and `closer[c]` the socket whose
`wait_closed()` the task `c` awaits. `writer`, `conf`, `slots`, `lock`, `cursor`, `paused`
are the attributes of the object. `sock` and `owed` are the environment: the state of
each TCP connection as asyncio knows it, and the answers the CNI still owes on it.
`verdict` and `ret` are history variables for the properties.

A step is one stretch of code between two awaits that suspend. That is where the
atomicity comes from: allocating the tag, registering the future and writing the
command are one step (no await between); `_close` is two (before and after
`wait_closed`, one if the transport is already gone); `_read_loop` ends with the transport
or with an exception of the parser or of `_handle_event` (`HandlerRaises`); the `finally` clause of `send_level` is
part of every exit (`Leave`). Awaits that do not suspend are not steps: a future
resolved while the call was in `drain()` is not waited for (`DrainReplied`).

Two switches separate the assumptions. `Timely = TRUE` says that no call is cancelled
and that an answer which has not come when the call gives up never comes; with `FALSE` both
may happen. `Pausing` says whether `pause()` and `resume()` are used: nothing
in the repository calls them yet.

`Settled`, in `InitDone` and `SleepOver`, is the only assumption about time: the loop
resumes tasks that are ready before 0.3 s (the sleeps of `_initialise`) or 2 s (the
first retry) have passed. Without it a call that has already been failed by `_close`
could still sit in its `finally` clause when the next connection is up.

### ReceiveBuffer

The alphabet has two tag bytes, two result bytes, CR, LF and one byte for all
others. `Pass` is one pass of the loop of `_consume_receive_buffer`, one clause per `return` or `continue`,
and `Consume` all its passes: one that handles something shortens the buffer, one that does not changes
nothing any more, so there are at most as many as bytes. `Receive` is one `read(1024)`, of any number of the bytes on the wire.

### LightingCodec

Works on bytes: `ParseCniLine` with `ParsePacket`, `Commands` and `ParseMmi` are
`parse_cni_line` and `_parse_mmi`; `EncodeLightingCommand` and `TransitionToRampCode` their
counterparts. What the bus says is stated apart from the decoder: `Broadcast` builds a packet
from commands, `StatusReply` from the states of groups, and `Commanded` from what `send_level` writes.
`Damage` changes one byte, or makes the line unreadable. A model run is one line. `Commands`, `ParseMmi` and `Total`
are recursive functions over the positions of the packet, as the loops of the code are; `StateOf` is the state of one
group of a status reply and `MmiEvent` its event.

### GroupState

`bus` is what the groups really are. `events` and `commands` are the two directions of the
connection, in order, so commands cross events. A line is a function from the groups it mentions to an
event for each, and is handled in one step: the run task does not await between the events of a
line. `Handle` is `_handle_event` with `_handle_motion_event` (`Concerns` are the conditions under
which a unit is set); `Notify` is `_notify` followed by what the entity's properties return
at that moment. `settled` and `observed` are the history that the agreement properties need: the
groups of which a state, or a level, was heard since anything about them was missed; `tripped` (units that have switched
a group on) and `reported` (motion groups of one unit, `OwnGroups`, that a report has said were on) are what motion may come from,
`manual` the own groups that somebody else has commanded. `BindingsAssumption`
is what `_resolve_motion_groups` guarantees (`BindingsSound` of `ProjectImport`): the groups of a
unit are all dedicated or none is. Wall switches and Home Assistant may command every group,
also one named for motion: the import makes no light or switch of it unless the name also says "light"
(`project.py` 121 and 180), but nothing keeps a wall switch from commanding it.

### IlluminancePoller

`task[n]` is where the polling task of network `n` stands (`delay`, `request`: inside
`async_read_objects`, `sleep`; `dead`: ended by an exception that is not caught, `cancelled`). `Ask` sends a
request; `answer` is the response that has arrived and not been read. Between the two the NAC may
change, so the response is what it exported at one moment in between (`window` collects all that it
exported then). `ObjectsRead` is `_refresh_network_illuminance` after the await, all of whose
writes and notifications happen in one step; `SetValues` and `SetErrors` are its two loops. An entity
subscribes at any time (`EntityAdded`), and so may miss a notification.

### ProjectImport

A Toolkit project is what its elements say (`IsNetwork`), a name the set of tokens the code looks for
in it. `ParseProject` is `parse_project_path`, with `ClassifyGroup`, `RelayGroups`,
`ActiveApplications` and `MotionGroups` as its parts. `Connections`, `Entities` and `MotionBindings` are what the runtime
makes of a project and options. The flows come in between: a form (`forms`) keeps the project it was opened
with and the defaults it showed, and `Import` replaces the project. In `SubmitForm` the user changes one field or
none: what is not touched is submitted as `Shown`, and a host or port that was cleared arrives as an empty text or, when
the form leaves it out, as the default `vol.Optional` fills in (`Received`); the handler merges this with the options
of that moment. `PortRefused` shows the form again. `entered` is what the user put into each field, a matter
of the screen, not of what was saved; `cleared` is the override the user has emptied it of, and `lost` are the keys that a form
opened before has been saved over. `DiffEmpty` says that `project_diff`
has nothing to tell. `EntryLifecycle` has the same flows step by step, without the content of projects and options.

### EntryLifecycle

`step` names the await at which the running operation on the entry stands: `loading`
(the project is loaded), `stale` (`async_stop` of a runtime found in `hass.data`),
`forward` (`async_forward_entry_setups`), `cleanup` and `cleanup_unload` (the `except`
clause of the setup), `unload` (`async_unload_platforms`), `unload_stop` (`async_stop`
after the pop), `remove` (`async_remove_entry`). `mine` is that operation's local
variable `runtime`, `data` is what `hass.data[DOMAIN]` holds for the entry, `held` the
CNIs each runtime has a running connection to, `store` the projects in storage, `disk`
the entry as last written. `flow`, `old` and `upload` are the flow object of
`config_flow.py`. `abandoned` and `undeleted` are history variables.

`StartRuntime` has three outcomes: everything is started and the platforms are forwarded to; `async_start` raises with some of
the connections started, and the setup cleans up; registering the controllers raises, which is before the `try` block
(`__init__.py` 35-47), and a runtime that has started nothing stays in `hass.data`.

Home Assistant holds the entry's setup lock during setup, unload, reload and removal,
so there is one operation at a time; the flows and the update listener run beside it, an
operation may be interrupted (cancelled) at any await, and `Restart` keeps nothing but
`disk` and `store`. A connection is `CniConnection`, here only held or not. Home
Assistant itself is external and modelled from how `__init__.py` uses it: it loads
all the platforms or none, refuses to load those already loaded, removes an entry even if
its unload failed, aborts the flows of a removed entry, and writes entries to disk some
time after they have changed.

## 3. Runs

| Run | Question | Bounds |
|---|---|---|
| `cni_faults` | Are slots, tags, futures and sockets right through every interleaving of calls, resets, timeouts, cancellations, reconnections and `stop()`? | 3 calls, 2 tags, 2 sockets |
| `cni_timely` | Does the connection implement `ConfirmedCommands` when answers are not later than their calls? | 3 calls, 2 tags, 2 sockets |
| `cni_liveness` | With `pause()` and `resume()` at any moment, do calls and `stop()` return, and does the run task keep dialling? | 2 calls, 1 tag, 2 sockets |
| `receive_buffer` | Is the framing exact for every cut of the stream, and at once? | 3 items, 2 connections |
| `lighting_codec` | Is what is decoded what was meant, and a damaged line ignored? | 3 commands a packet, all states of a block of 4 groups and some of 8, levels 0, 1, 200, 255, 9 transitions |
| `group_state` | Do states, brightness, motion, entities and bus agree? | 2 groups that anybody may command, 2 PIRs (one on an ordinary group, one with its own motion group), levels 0..2, 1 line and 1 command under way |
| `illuminance_poller` | Are readings honest and shown, do sensors recover, does the stop complete? | 2 NACs, 3 sensors, 1 level, 1 change |
| `project_import` | Are bindings, entities, connections and the summary of changes right? | 34 variants of a project, one with two networks, one without units, one empty; 2 flows, 3 imports or submissions |
| `entry_lifecycle` | Is every CNI held by one reachable runtime, does a loaded entry work with its own project, and can that be loaded, through failures, interruptions, reloads, reconfigurations, removal and restarts? | 3 runtimes, 2 networks, 2 projects |
| `cni_late_answer` | (violation) late answers | 2 calls, 2 tags, 1 socket |
| `entry_options` | (violation) options saved during a setup | 2 runtimes, 1 network, 1 project |
| `entry_reconfigure` | (violation) reconfiguring an entry without project | 2 runtimes, 1 network, 1 project |

Why the bounds are enough. Three calls and two tags make calls wait for a slot, wait
for the lock, and reuse a tag while another is in flight; the cycle of tags comes
round after two. Two sockets let a connection be up while the previous one is still
closing. One tag and two calls is the tightest contention for the liveness
properties. Three items of one or two bytes put every pair of neighbours (confirmation
or reply, with CR or CR LF) at every cut. One line and one command under way let a command
cross an event, and the echo of a command arrive after the next one has been sent; longer queues, and units that share a group, are left to
the theorems, which hold for any; level 2 is the full one, so that a level in between tells exact from
invented brightness. Packets of three commands have one with
neighbours on both sides; group 121 is also the number of ON, and 252 the start of a status block that runs past
the last group. One NAC with two sensors has one missing object among several, one of
them without entity; the other NAC must not be touched; a single change is enough, because it
may come at any moment of any poll and the initial state of NACs and objects is arbitrary. The variants of
a project differ from a usual one in one or two respects, and any may replace any other. Three runtimes are one
that is registered, one that is being stopped and one that was abandoned or whose
entities are left over; two networks let an `async_stop` be interrupted half way; two
projects tell the old from the new. The properties
that have a theorem, all but the liveness ones, do not depend on the bounds at all.

What the violations show:

- `cni_late_answer`: tags are the only thing that ties an answer to a command
  (`protocol.py` 394-397). A call that times out or is cancelled frees its tag while the CNI
  still owes the answer; if the cycle reaches the tag again first, the late answer
  resolves the future of another command. `protocol.py` 207-210 describes
  confirmations as matched to commands. With 17 tags taken in turn this needs
  17 further commands before the late answer arrives.
- `entry_options`: the update listener is there to reload "after options or project
  changes" (`__init__.py` 74), but it is registered after the platforms have been loaded
  (`__init__.py` 60), and the options have been read before that. Options saved in
  between are not applied before something else reloads the entry.
- `entry_reconfigure`: an entry whose project is missing fails with the advice to
  reconfigure and upload the project again (`__init__.py` 23), and
  the confirmation of that flow asserts that there is an old project (`config_flow.py` 164).

Known limits of the code that a property leaves out, each named where the property is stated or in
the assumption it needs:

- `pause()` while the run task is dialling does not keep the CNI free (`protocol.py` 310): `_paused_until` is
  only read at the top of the loop. Nothing calls `pause()` yet.
- After an off command, a lost connection and an MMI report that the group is on, a light is on with
  brightness 0 (`runtime.py` 448-452); README 175 of the repository says that no brightness is invented.
  `BrightnessExact` speaks only of groups whose level was heard since anything was missed.
- A manual command to a motion group that is a PIR's own is shown as motion by the next MMI report
  (`runtime.py` 491-496). README 163 of the repository, where it speaks of a PIR on an ordinary light, says that "manual commands from
  switches or Home Assistant do not set the PIR entity"; the code keeps that for ordinary groups and for all live commands, and deliberately
  takes the report of a dedicated group for motion. `MotionHasCause` says exactly this.
- An override that the user clears may be back: the two override fields of the connection form are `vol.Optional` with the stored override as
  default (`config_flow.py` 306-313), so a form that leaves the empty field out of what it sends has it filled in again, although README 145
  of the repository says that blank overrides follow the project. `SettingsKept` allows this one value and no other (`Back`).
- A PIR on ordinary groups, or sharing its motion group, learns that motion has ended only from its own OFF command, which may be
  lost, and one with two groups is on or off as the last of them said (`runtime.py` 484). `MotionAgrees` speaks of units with one
  motion group that only they command (`Telling`).
- An options form that stays open while another form of the same settings is saved, and is submitted after it, saves its untouched fields as they
  were shown (`config_flow.py` 259-285) and so undoes what was saved. `SettingsKept` leaves these keys out (`lost`) until the user
  changes them again; it says that nothing else undoes a setting.
- A name with "pir" is a motion name before it is anything else (`project.py` 121), also "PIR Enable", which README
  158 lists as a switch: the group gets no entity. `GroupsServed` excludes motion names.
- A command the codec does not know (TERMINATE RAMP) hides the rest of its packet (`protocol.py` 155);
  `BroadcastExact` says so.
- The connection form saves the monitoring application even when untouched (`config_flow.py` 281), so a later project's
  is not followed, and `project_diff` does not list a change of applications; `SettingsKept` and `DiffTells` exclude them.
- A polling task that dies leaves its sensors available with their last value (`runtime.py` 406);
  `Recovers` and `ReadingHonest` speak of living tasks.

Two history variables mark what the code does not recover from, so the properties
hold only outside it: `abandoned` (an `async_stop` interrupted after its runtime was
popped leaves connections nobody can stop) and `undeleted` (a crash between the deletion
of the project and the next write of the entries brings back an entry without project).

## 4. Fairness

asyncio resumes every ready task, and `Semaphore` and `Lock` serve waiters first come
first served: hence strong fairness for a call's slot and lock (each may be taken away
infinitely often, never for ever) and weak fairness for every other step of a
task. Timers fire: `wait_for` (5 s and 10 s) and the sleeps. A transport that was
closed here is lost in the end (`TransportLost`), and so is the one `pause()` waits
for (`PauseClosed`). `drain()` returns or raises; the code
has no timeout there, so this is an assumption about the CNI. Nothing else is assumed of the
CNI: it may never accept, answer or close. A half-open TCP connection is
therefore not covered: `KeepsReconnecting` speaks of a connection that is down, not
stopped and not paused, and allows for a pause that comes before the next attempt.

Of the pollers only weak fairness is assumed: sleeps end, a request ends (a NAC that is up answers, and one
that is not is given up after the timeout), cancelled tasks are resumed. `Recovers` asks
of the environment that the NAC stays up and the object exported from some point on.

## 5. Proofs

`CniConnectionProofs` proves, for any finite set of callers, any number of tags
and any sockets, from the assumptions named in `CniConnection` only:

- `TypeCorrect`: `Spec => []TypeOK`. It is not inductive: `slots' \in 0..TagCount` when a
  slot is released needs that a slot was held, so it is proved together with
  `SlotsConserved` (`TypedSlots`).
- `SlotsAreConserved`: `Spec => []SlotsConserved`, by counting: each action
  either leaves the set of holders alone, adds one element and takes a slot, or
  removes one and gives a slot back.
- `TagIsAlwaysFree`: `Spec => []TagAlwaysFree`, whatever is cancelled or paused. A
  registered tag is the `tag` of a call in `drain` or `reply` (`TagsHeld`), a call has at most one tag,
  and the call that needs one holds a slot itself, so by counting a tag is free.
- `OneClient`: `Spec => []SingleClient`.
- `NothingAfterStop`: `Spec => QuietAfterStop`. The invariant is that once `stop()` has been
  called there is no writer, and the run task is closing, done or about to receive its
  cancellation (`LinkInv`).

Assuming that pausing is not used (`~Pausing`, as in the repository) it
proves `EveryWaitingCallIsRegistered`, `EveryWaitingCallHasALink` and `StopReleasesAll`.
The hard part is that a call which waits keeps the same connection until it is
failed. `CallInv` says which calls have a tag, a socket and a future (`CallShape`), that if
one sent command has lost its registration then `_close` has failed all of them
(`AllOrNone`), what each phase of the run task implies (`RunPhase`: while it reads or
closes, every sent command waits for that very connection; when it dials again, `Settled` has
made every earlier call leave), and what `stop()` adds (`StopPhase`).

Assuming `Timely` as well it proves `ConfirmationsMatch` and
`ConnectionKeepsPromise`. `AnswerInv` says that every answer the CNI owes on the
current connection belongs to the call that holds its tag (`OwedToCalls`), and ties
`verdict` and `ret` to that (`Histories`). The refinement is proved action by action: each step
of `CniConnection` maps to a step of `ConfirmedCommands` or leaves its variables as they are.

`EntryLifecycleProofs` proves, for any runtimes, networks and projects:

- `TypeCorrect`, from `TypeInv`: `TypeOK` with what each `step` says about `mine` and
  `data` (`Phase`), and that a flow about to save has something to save.
- `NothingIsOrphaned` and `OneOwnerAtATime`, from `OwnInv`: a runtime with a
  connection is registered, in the hands of the operation, or abandoned, and the cleanup of a
  failed setup has stopped its runtime before it unloads the platforms. At most one of
  `data` and `mine` then holds anything, because `mine` is either `data` or was taken out of it.
- `ProjectsAreKept`, from `StoredInv`: `ProjectStored` needs that no operation runs when
  there is no entry and that an import only saves while there is none: only then can nothing but
  the removal take a project away, and then the entry is gone.
- `LoadedEntryIsServed`, from `ServedInv`: while the platforms are being loaded the
  runtime has all its connections, an unload only runs on a loaded entry, and the runtime is
  only stopped once the entities are gone.
- `ReconfigurationsTakeEffect`, from `CurrentInv`: if the project that a setup has
  read is not the entry's any more, a reload is waiting.

`GroupStateProofs` proves, for any groups, units, bindings and levels, and queues of any length:

- `TypeCorrect` and `EntitiesShown`: every step that changes what an entity shows notifies its key.
- `MotionIsCaused`, from `CauseInv`: a line on its way that would set a unit carries its command, and then it has tripped,
  or is a report of a motion group of its own, and then that group has been reported on (`Sets`, `Cause`). Nothing is assumed of who commands
  the groups.
- `StateAgrees` and `BrightnessAgrees`, from `AgreeInv`: what the *last* line on its way that mentions a group
  says of it is what the bus says, and without such a line, and without a command on its way, what Home
  Assistant has already is (`StateFresh`, `LevelFresh`). An optimistic update always has its command behind it, which
  turns into a line, is refused (and then the group is no longer `settled`) or is lost with the connection.
  The last of several lines, or groups of a line, exists because they are numbered (`LastIsLast`, by well-foundedness).
- `MotionFollows`, from `MotionInv` with `ManualKnown` and `AgreeInv`: a command of Home Assistant to an own group is known as manual from the moment it is
  sent, so every event about a telling group (`Telling`) is a report or a command of its unit and
  sets the unit, and no event about another group does; without one on its way the unit is as the bus says. That
  the last one says what the bus says is part of `AgreeInv`.

`IlluminancePollerProofs` proves `TypeCorrect`, `ReadingsHonest` and `IlluminanceShown` for any networks, sensors and
values. The invariant behind the second is that `window` covers the response under way and the present
objects of a NAC that has not yet answered (`WindowCovers`), so the value read comes from it.

`ProjectImportProofs` proves, for any documents, options and flows:

- `SettingsAreKept`, from `SettingsInv`: a key that is not lost is saved as it was entered, with its value or, for a blank host or port,
  not at all or with the override that was cleared (`Kept`). An untouched field of a form whose option has not changed since
  is saved as it was (`ShownKept`); one whose option has changed is lost.
- `BindingsAreSound`: of the candidates either the dedicated ones are selected or none is dedicated (`Selected`), and of
  two with the same group the one with the lower block is kept (`MotionGroupsSound`). This discharges
  `BindingsAssumption` of `GroupState`.
- `SummaryTellsAll` and from it `DiffsTell`: projects that `project_diff` finds equal, with equal applications, have the same
  networks, interfaces, groups (name and platform; whether one is internal follows from its name), units and
  motion groups, and nothing else goes into connections, entities and bindings.

- `GroupsAreServed`: a light and a switch are told apart by the one platform of their group, and an application that a unit is
  programmed for is in use, by counting the places where it is named (`UsesAre`); `ApplicationsAre` says, by induction
  over the list, that dropping the unused entries drops nothing else.

`ReceiveBufferProofs` proves, for any replies, any number of lines and any cut of the stream, `TypeCorrect`, `FramingIsExact` and
`LinesAreHandledAtOnce`. `FramingExact` is not inductive: nothing in it speaks of the bytes. The invariant (`BufferInv`)
says that there is a stream `t`, everything the CNI has sent on the connection, in which `cut[i]` is the end of line `i`
(`Framed`), that the lines up to `cut[Len(handled)]` are handled, that the buffer and then the wire hold all that comes after (an LF
that is still to come counts as handled, `At`), and that the buffer is one the loop would leave alone (`Stuck`). A pass keeps the
first three and ends stuck or with fewer bytes (`PassAdvances`), so all the passes of `Consume` end stuck (`ConsumeReaches`, by
induction). A buffer that is stuck is shorter than the line it starts (`BufferShort`), which gives the type and
the promptness. It is assumed of a reply that it starts as no confirmation does and has no terminator in it.

`LightingCodecProofs` proves, for any groups, levels, sources, blocks and packets of any number of commands that fit the
assumptions named in `LightingCodec`: `LineInvariant` (the line is what its `origin` says, or that with one change), and from it
`DamagedLinesAreIgnored` (the sum of the bytes of a sealed line is 0 modulo 256, and a change of one byte by 1..255
makes it something else), `CommandsAreHonoured` (with the nearest ramp), `StatusIsExact` (a packed byte gives back the four states it
was made of; the events are, by induction over the groups of the block, those of the groups with a state, in order) and
`BroadcastsAreExact` (by induction over the commands: the decoder is at the first byte of each when it comes to it).

Induction over data. The induction theorems of the library take an operator as a parameter, which the provers
cannot instantiate. `Induction` therefore states induction with a set: a set of naturals with 0 that is closed under
successor has them all, from the least element of its complement. A function that is defined recursively over `0 .. n` is first shown to
exist (`KeptExist`, `PassesExist`, and the like in `LightingCodecProofs`), after which its equation may be used.

Only model-checked: the liveness properties (`EveryCallReturns`, `StopCompletes` and `KeepsReconnecting` of the
connection, `Recovers` and `StopCompletes` of the pollers): the prover has no ENABLED and no fairness.

## 6. Not modelled, and why

- A second `start()` after `stop()`: the runtime never does it and nothing calls `resume()`.
- `pause()` outliving a reconnection can fail the futures of the new connection
  (`protocol.py` 412-415), so `WaitingIsRegistered` and `StopReleases` are not claimed with
  `Pausing`.
- Delays are not measured: apart from `Settled` any timer may fire at any time. The doubling of
  the retry delay and the 5 s slices of a pause have no effect a property here sees.
- `EntryLifecycle` knows options only as older or newer than the runtime; their content is in `ProjectImport`. A
  platform that loads while another fails is one nondeterministic outcome (`ForwardFails`), not a set of platforms.
- Reading the archive and the XML of a project, and the patterns of internal names: I/O and text.
- The coming and going of group and motion entities: their subscription is the same code as that of the
  illuminance entities, which `IlluminancePoller` has. The attributes of the connectivity entity (its `last_error` is
  not notified when a further attempt fails in another way), device information, and
  the removal of the registry entries of old versions are left out.
- An exception of `_handle_availability`, which only notifies entities: `_close` calls it first (`protocol.py` 403) and would stop there.
- Credentials, the poll interval and the other settings of the NAC's remote service.
- Diagnostics (`diagnostics.py`): a redacted view for download.
- Timestamps, the event fired on `hass.bus`, `last_error` of a connection, and log messages.

## 7. What could follow

1. `CniConnection` with `GroupState`: the optimistic update and `send_level` in one
   model, replacing the abstract command queue; its state space needs bounds of its own.
2. The subscription of group and motion entities in `GroupState`, and the connectivity entity.
