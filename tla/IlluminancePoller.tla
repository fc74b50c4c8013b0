------------------------- MODULE IlluminancePoller -------------------------
(***************************************************************************)
(* The illuminance sensors: the polling tasks of CbusRuntime in runtime.py *)
(* (_start_illuminance_pollers, _poll_network_illuminance and what they    *)
(* call, and their part of async_stop), the client of unit_parameter.py,   *)
(* and CbusIlluminanceSensor of sensor.py.                                 *)
(*                                                                         *)
(* One task per NAC asks for all exported objects, writes the sensors of   *)
(* its network, and sleeps.  Meanwhile the NACs come and go, objects are   *)
(* exported or not and change their value, entities are added and removed, *)
(* and the runtime is stopped.                                             *)
(*                                                                         *)
(* Abstracted: the text of an object (a number, or none: not exported, not *)
(* a number), the texts of last_error (two kinds), durations, timestamps,   *)
(* credentials.  Pollers are enabled by the options.                       *)
(***************************************************************************)
EXTENDS Integers

CONSTANTS
  Networks,   \* the networks of the project; each has a NAC of its own
  Sensors,    \* keys, <<network, unit>>, of the units with supports_illuminance
  Enabled,    \* sensors whose entity is not disabled in Home Assistant
  Hosted,     \* networks with a host, from the project or as an override
  First,      \* the first network of the project, polled without initial delay
  Values,     \* light levels
  MaxChanges, \* bound: changes of a NAC or of an object on it
  None        \* the value Python calls None

ASSUME SensorsAssumption == \A s \in Sensors : s[1] \in Networks
ASSUME EnabledAssumption == Enabled \subseteq Sensors
ASSUME HostedAssumption  == Hosted \subseteq Networks
ASSUME NoneAssumption    == None \notin Values

VARIABLES
  lux,        \* the objects the NACs export: for each sensor a number, or None
  up,         \* the NAC answers within the timeout, and with a list of objects
  changes,    \* changes so far, counted for the bound
  task,       \* where each polling task stands
  answer,     \* the response to its request, None before it has arrived
  value, available, error, \* self.illuminance_states
  added,      \* the entities that have subscribed
  shown,      \* what each entity last wrote to Home Assistant
  stop,       \* how far async_stop has got
  window,     \* history: all that the NAC exported between the last request and
              \*   its response
  polled      \* history: the outcome of the last poll

nacVars   == <<lux, up, changes>>
stateVars == <<value, available, error>>
vars == <<lux, up, changes, task, answer, value, available, error, added, shown,
          stop, window, polled>>

Objects == [Sensors -> Values \cup {None}]
Forms   == {"general", "bare mapping"}
Errors  == {"failed", "missing"}
Alive   == {"delay", "request", "sleep"}
Ended   == {"none", "cancelled", "dead"}

SensorsOf(n) == {s \in Sensors : s[1] = n}

\* The objects of NAC n.
Exported(n) == [s \in Sensors |-> IF s[1] = n THEN lux[s] ELSE None]

\* Without a host remote_settings is None; without sensors there is nothing to ask.
Polled == {n \in Hosted : SensorsOf(n) # {}}

-----------------------------------------------------------------------------
(* Responses.                                                              *)

\* The objects of NAC n that _coerce_number makes a number of.
Numeric(n, objects) == {s \in SensorsOf(n) : objects[s] # None}

\* A mapping of addresses without one number is not accepted.  A list is, even an empty
\* one, and so is a mapping that has a number under some other address ("general").
Usable(n, response) ==
  response.form = "general" \/ Numeric(n, response.objects) # {}

\* What the properties of the entity return.
View(s) == [value |-> value[s], available |-> available[s], error |-> error[s]]

\* _notify of the keys in S, once the states have changed.
Notify(S) ==
  shown' = [s \in Sensors |-> IF s \in S \cap added
                              THEN [value |-> value'[s], available |-> available'[s],
                                    error |-> error'[s]]
                              ELSE shown[s]]

\* Mutant: an error is only news for a sensor that was available.
FailedIfAvailable(S, message) == {s \in S : available[s]}

\* The sensors for which _set_illuminance_error is news.
Failed(S, message) == {s \in S : available[s] \/ error[s] # message}

\* _set_illuminance_error of every sensor of the network.
SetErrors(n, message) ==
  /\ available' = [s \in Sensors |-> available[s] /\ s[1] # n]
  /\ error' = [s \in Sensors |-> IF s[1] = n THEN message ELSE error[s]]
  /\ UNCHANGED value
  /\ Notify(Failed(SensorsOf(n), message))

\* Mutant: the loop ends at the first missing object.
SuppliedUntilMissing(n, objects) ==
  IF \E s \in SensorsOf(n) : objects[s] = None THEN {} ELSE SensorsOf(n)

\* Mutant: a missing object is taken for a value.
SuppliedUnchecked(n, objects) == SensorsOf(n)

\* The sensors whose alias, 0/255/<address>/2, is among the objects.
Supplied(n, objects) == {s \in SensorsOf(n) : objects[s] # None}

\* The sensors of the network one after the other; nothing is awaited.
SetValues(n, objects) ==
  LET supplied == Supplied(n, objects)
      missing  == SensorsOf(n) \ supplied
  IN  /\ value' = [s \in Sensors |-> IF s \in supplied THEN objects[s] ELSE value[s]]
      /\ available' = [s \in Sensors |-> s \in supplied \/ (available[s] /\ s \notin missing)]
      /\ error' = [s \in Sensors |-> CASE s \in supplied -> None
                                       [] s \in missing  -> "missing"
                                       [] OTHER          -> error[s]]
      /\ Notify(supplied \cup Failed(missing, "missing"))

-----------------------------------------------------------------------------
Init ==
  /\ lux \in Objects
  /\ up \in [Networks -> BOOLEAN]
  /\ changes = 0
  /\ task = [n \in Networks |-> "none"]
  /\ answer = [n \in Networks |-> None]
  /\ value = [s \in Sensors |-> None]
  /\ available = [s \in Sensors |-> FALSE]
  /\ error = [s \in Sensors |-> None]
  /\ added = {}
  /\ shown = [s \in Sensors |-> None]
  /\ stop = "starting"
  /\ window = [s \in Sensors |-> {}]
  /\ polled = [n \in Networks |-> "never"]

(* The tasks.                                                              *)

\* A request goes out: what the NAC has now is what it may answer.
Ask(N) ==
  /\ window' = [s \in Sensors |-> IF s[1] \in N THEN {lux[s]} ELSE window[s]]
  /\ answer' = [n \in Networks |-> IF n \in N THEN None ELSE answer[n]]

\* async_start creates the tasks; the first network of the project is asked at
\* once, the others after a delay.
Start ==
  /\ stop = "starting"
  /\ stop' = "running"
  /\ task' = [n \in Networks |-> CASE n \notin Polled -> "none"
                                   [] n \in Polled /\ n = First  -> "request"
                                   [] n \in Polled /\ n # First -> "delay"]
  /\ Ask(Polled \cap {First})
  /\ UNCHANGED <<nacVars, stateVars, added, shown, polled>>

\* The delay, or the interval between two polls, is over.
Poll(n) ==
  /\ task[n] \in {"delay", "sleep"}
  /\ task' = [task EXCEPT ![n] = "request"]
  /\ Ask({n})
  /\ UNCHANGED <<nacVars, stateVars, added, shown, stop, polled>>

\* Mutant: a poll that failed leaves the loop.
EndPollForGood(n, outcome) ==
  /\ task' = [task EXCEPT ![n] = IF outcome = "ok" THEN "sleep" ELSE "cancelled"]
  /\ polled' = [polled EXCEPT ![n] = outcome]
  /\ answer' = [answer EXCEPT ![n] = None]
  /\ UNCHANGED <<nacVars, added, stop, window>>

EndPoll(n, outcome) ==
  /\ task' = [task EXCEPT ![n] = "sleep"]
  /\ polled' = [polled EXCEPT ![n] = outcome]
  /\ answer' = [answer EXCEPT ![n] = None]
  /\ UNCHANGED <<nacVars, added, stop, window>>

\* async_read_objects returns the objects, or raises because they cannot be used.
ObjectsRead(n) ==
  /\ task[n] = "request" /\ answer[n] # None
  /\ IF Usable(n, answer[n])
     THEN SetValues(n, answer[n].objects) /\ EndPoll(n, "ok")
     ELSE SetErrors(n, "failed") /\ EndPoll(n, "failed")

\* It times out, the NAC refuses, or what it sends is no list of objects.
RequestFails(n) ==
  /\ task[n] = "request" /\ ~up[n]
  /\ SetErrors(n, "failed")
  /\ EndPoll(n, "failed")

\* Any other exception ends the task: for instance a response that is not
\* valid in its character set, or a number too large for a float.
PollDies(n) ==
  /\ task[n] = "request" /\ ~up[n]
  /\ task' = [task EXCEPT ![n] = "dead"]
  /\ answer' = [answer EXCEPT ![n] = None]
  /\ UNCHANGED <<nacVars, stateVars, added, shown, stop, window, polled>>

-----------------------------------------------------------------------------
(* async_stop.                                                             *)

Stop ==
  /\ stop = "running"
  /\ stop' = "cancelling"
  /\ UNCHANGED <<nacVars, stateVars, task, answer, added, shown, window, polled>>

\* A cancelled task raises CancelledError where it stands, whatever is ready.
Cancelled(n) ==
  /\ stop = "cancelling" /\ task[n] \in Alive
  /\ task' = [task EXCEPT ![n] = "cancelled"]
  /\ answer' = [answer EXCEPT ![n] = None]
  /\ UNCHANGED <<nacVars, stateVars, added, shown, stop, window, polled>>

\* Mutant: an exception of a task is raised by the gather.
GatheredWithoutErrors ==
  /\ stop = "cancelling"
  /\ \A n \in Networks : task[n] \in Ended \ {"dead"}
  /\ stop' = "stopped"
  /\ UNCHANGED <<nacVars, stateVars, task, answer, added, shown, window, polled>>

\* gather returns when all have ended, also those that had died before; the
\* connections are stopped next.
Gathered ==
  /\ stop = "cancelling"
  /\ \A n \in Networks : task[n] \in Ended
  /\ stop' = "stopped"
  /\ UNCHANGED <<nacVars, stateVars, task, answer, added, shown, window, polled>>

-----------------------------------------------------------------------------
(* Entities and NACs.                                                      *)

\* An entity is added: it subscribes and writes its state.
EntityAdded(s) ==
  /\ stop # "starting" /\ s \in Enabled \ added
  /\ added' = added \cup {s}
  /\ shown' = [shown EXCEPT ![s] = View(s)]
  /\ UNCHANGED <<nacVars, stateVars, task, answer, stop, window, polled>>

EntityRemoved(s) ==
  /\ s \in added
  /\ added' = added \ {s}
  /\ shown' = [shown EXCEPT ![s] = None]
  /\ UNCHANGED <<nacVars, stateVars, task, answer, stop, window, polled>>

\* The NAC answers with what it has at this moment.
Respond(n) ==
  /\ task[n] = "request" /\ answer[n] = None /\ up[n]
  /\ \E f \in Forms : answer' = [answer EXCEPT ![n] = [form |-> f, objects |-> Exported(n)]]
  /\ UNCHANGED <<nacVars, stateVars, task, added, shown, stop, window, polled>>

\* The light changes, or an object is exported or not any more.
ObjectChanges(s) ==
  /\ changes < MaxChanges /\ changes' = changes + 1
  /\ \E v \in (Values \cup {None}) \ {lux[s]} :
       /\ lux' = [lux EXCEPT ![s] = v]
       /\ window' = IF task[s[1]] = "request" /\ answer[s[1]] = None
                    THEN [window EXCEPT ![s] = @ \cup {v}] ELSE window
  /\ UNCHANGED <<stateVars, up, task, answer, added, shown, stop, polled>>

NacChanges(n) ==
  /\ changes < MaxChanges /\ changes' = changes + 1
  /\ up' = [up EXCEPT ![n] = ~@]
  /\ UNCHANGED <<stateVars, lux, task, answer, added, shown, stop, window, polled>>

-----------------------------------------------------------------------------
Next ==
  \/ Start \/ Stop \/ Gathered
  \/ \E n \in Networks :
       \/ Poll(n) \/ Respond(n) \/ ObjectsRead(n) \/ RequestFails(n) \/ PollDies(n)
       \/ Cancelled(n) \/ NacChanges(n)
  \/ \E s \in Sensors : EntityAdded(s) \/ EntityRemoved(s) \/ ObjectChanges(s)

Spec == Init /\ [][Next]_vars

\* Sleeps end, a NAC that is up answers, and one that is not is given up after
\* the timeout; cancelled tasks are resumed.
Fairness ==
  \A n \in Networks :
    /\ WF_vars(Poll(n)) /\ WF_vars(Respond(n))
    /\ WF_vars(ObjectsRead(n) \/ RequestFails(n) \/ PollDies(n))
    /\ WF_vars(Cancelled(n)) /\ WF_vars(Gathered)

FairSpec == Spec /\ Fairness

-----------------------------------------------------------------------------
(* Properties.                                                             *)

Shown == [value : Values \cup {None}, available : BOOLEAN, error : Errors \cup {None}]

\* The types; and an available sensor has a value and no error.
TypeOK ==
  /\ lux \in Objects
  /\ up \in [Networks -> BOOLEAN]
  /\ task \in [Networks -> Alive \cup Ended]
  /\ answer \in [Networks -> [form : Forms, objects : Objects] \cup {None}]
  /\ value \in [Sensors -> Values \cup {None}]
  /\ available \in [Sensors -> BOOLEAN]
  /\ error \in [Sensors -> Errors \cup {None}]
  /\ added \subseteq Enabled
  /\ shown \in [Sensors -> Shown \cup {None}]
  /\ stop \in {"starting", "running", "cancelling", "stopped"}
  /\ window \in [Sensors -> SUBSET (Values \cup {None})]
  /\ polled \in [Networks -> {"never", "ok", "failed"}]
  /\ \A s \in Sensors : available[s] => value[s] # None /\ error[s] = None

\* After every poll of a living task, and until the next: a sensor is available
\* with a value that its own network's NAC exported for its own address while the
\* request was under way, or unavailable because its object was not exported then,
\* whatever the others are; after a failed poll none is available ("A missing or
\* non-exported Unit Parameter object only makes that individual illuminance
\* entity unavailable").
ReadingHonest ==
  \A s \in Sensors : task[s[1]] = "sleep" =>
    IF polled[s[1]] = "ok"
    THEN IF available[s] THEN value[s] \in window[s] ELSE None \in window[s]
    ELSE ~available[s]

\* What an entity shows, last_error included, is what its properties would return
\* now: a poll may finish before the entity is added, and an error is only
\* announced when it is news.
ShownIsCurrent == \A s \in added : shown[s] = View(s)

\* A sensor recovers: once its NAC stays up and exports its object, it is
\* available from some point on, however many polls failed before, unless the
\* runtime is stopped or the polling task has died.
Recovers ==
  \A s \in Sensors :
    s[1] \in Polled /\ <>[](up[s[1]] /\ lux[s] # None) =>
      <>[](available[s] \/ stop # "running" \/ task[s[1]] = "dead")

\* async_stop ends the tasks wherever they stand and gets to the connections,
\* whether or not a task has died before.
StopCompletes == stop = "cancelling" ~> stop = "stopped"
=============================================================================
