--------------------------- MODULE ProjectImport ---------------------------
(***************************************************************************)
(* From a Toolkit project and the options to connections, entities and     *)
(* motion bindings: parse_project_path and project_diff of project.py, the *)
(* definitions of CbusRuntime, the flows of config_flow.py.                *)
(*                                                                         *)
(* A project is imported, replaced by Reconfigure, and the options are     *)
(* edited in forms that stay open while other flows save.                  *)
(*                                                                         *)
(* Abstracted: the archive and the XML (a project is what its elements     *)
(* say); a name is the set of the tokens the code looks for in it; labels, *)
(* summaries and levels.  EntryLifecycle has the flows step by step, with  *)
(* the store and the reload.                                               *)
(***************************************************************************)
EXTENDS Integers, SequencesExt, FiniteSetsExt

CONSTANTS
  Documents,  \* Toolkit projects: functions from networks to network elements
  Networks,   \* network addresses
  Hosts,      \* hosts a user enters
  Ports,      \* ports a user enters
  Flows,      \* options flows
  MaxChanges, \* bound: imports and forms submitted
  None        \* the value Python calls None, and a blank field

Tokens == {"motion",   \* motion, occupancy, pir
           "light",
           "control",  \* relay, master off, pir enable, dlt trigger ...
           "internal"} \* what is_internal_group looks for

Unused == 255          \* 0xFF, an application or group that is not programmed

\* An element of a network: its interface, the applications it lists and the first
\* lighting application among them, the names of their groups by <<application, group>>, and its units by address.
IsNetwork(x) ==
  /\ x.interface.host = None <=> x.interface.port = None
  /\ x.applications \cap (48 .. 95) # {} => x.first \in x.applications \cap (48 .. 95)
  /\ DOMAIN x.groups \subseteq x.applications \X (0 .. 255)
  /\ \A k \in DOMAIN x.groups : x.groups[k] \subseteq Tokens
  /\ IsFiniteSet(DOMAIN x.units)
  /\ \A u \in DOMAIN x.units : /\ x.units[u].type \in {"relay", "pir", "light sensor", "other"}
                               /\ x.units[u].applications \in Seq(0 .. 255)
                               /\ x.units[u].groups \in Seq(0 .. 255)

ASSUME DocumentsAssumption ==
  \A d \in Documents : DOMAIN d \subseteq Networks /\ \A n \in DOMAIN d : IsNetwork(d[n])

VARIABLES
  document, \* what the project of the entry was parsed from, None before
  options,  \* entry.options: each key is absent (None) or has a value
  forms,    \* the form each options flow shows, None if it shows none
  entered,  \* history: what the user last put into the field of each key, None
            \*   before and for a blank
  cleared,  \* history: what the user has cleared from it since, None for nothing
  lost,     \* history: keys that a form opened before has been saved over since
  changes   \* imports and submissions so far, counted for the bound

vars == <<document, options, forms, entered, cleared, lost, changes>>

-----------------------------------------------------------------------------
(* parse_project_path.                                                     *)

\* The applications a unit is programmed for, without those that are not.
Applications(unit) ==
  LET Kept[i \in 0 .. Len(unit.applications)] ==
        IF i = 0 THEN <<>>
        ELSE IF unit.applications[i] = Unused THEN Kept[i - 1]
        ELSE Append(Kept[i - 1], unit.applications[i])
  IN  Kept[Len(unit.applications)]

\* Mutant: the groups a relay unit drives are not looked at.
RelayGroupsNone(x) == {}

\* What the REL units drive: each of their applications with each of their groups.
RelayGroups(x) ==
  UNION {ToSet(Applications(x.units[u])) \X (ToSet(x.units[u].groups) \ {Unused}) :
           u \in {v \in DOMAIN x.units : x.units[v].type = "relay"}}

ClassifyGroup(name, relay) ==
  CASE "motion" \in name /\ "light" \notin name -> "binary_sensor"
    [] ~("motion" \in name /\ "light" \notin name) /\ (relay \/ "control" \in name) -> "switch"
    [] OTHER -> "light"

\* How often the units of the network name an application: in so many places.
Uses(x, a) ==
  Cardinality(UNION {{u} \X {i \in DOMAIN Applications(x.units[u]) : Applications(x.units[u])[i] = a} :
                       u \in DOMAIN x.units})

Lighting(x) == x.applications \cap (48 .. 95)

\* The applications the units name; all if they name none.
ActiveApplications(x) ==
  LET named == {a \in Lighting(x) : Uses(x, a) > 0}
  IN  IF named # {} THEN named ELSE Lighting(x)

\* The first of them: by use and then by address, and in the order of the document if
\* the units name none.
MonitorApplication(x) ==
  CASE Lighting(x) = {} -> 56
    [] Lighting(x) # {} /\ (\A a \in Lighting(x) : Uses(x, a) = 0) -> x.first
    [] OTHER -> CHOOSE a \in ActiveApplications(x) : \A b \in ActiveApplications(x) :
                  Uses(x, a) > Uses(x, b) \/ (Uses(x, a) = Uses(x, b) /\ a <= b)

\* Mutant: what is active in light and in dark comes before what is named motion.
SelectCommonFirst(candidates) ==
  LET explicit == {c \in candidates : c.dedicated}
      common   == {c \in candidates : c.light /\ c.dark}
  IN  CASE common # {}                    -> common
        [] common = {} /\ explicit # {}   -> explicit
        [] common = {} /\ explicit = {}   -> candidates

\* explicit or common or candidates
SelectCandidates(candidates) ==
  LET explicit == {c \in candidates : c.dedicated}
      common   == {c \in candidates : c.light /\ c.dark}
  IN  CASE explicit # {}                  -> explicit
        [] explicit = {} /\ common # {}   -> common
        [] explicit = {} /\ common = {}   -> candidates

\* _resolve_motion_groups: of the first eight blocks those that report movement, each
\* with the application it is programmed for; of those the selected ones, and of
\* each group the first.
MotionGroups(x, u) ==
  LET unit == x.units[u]
      apps == Applications(unit)
      blocks == {b \in 0 .. 7 : /\ apps # <<>> /\ b < Len(unit.groups)
                                /\ unit.groups[b + 1] # Unused
                                /\ b \in unit.light \cup unit.dark}
      Application(b) == IF b \in unit.second /\ Len(apps) > 1 THEN apps[2] ELSE apps[1]
      Key(b) == <<Application(b), unit.groups[b + 1]>>
      Candidate(b) ==
        [key |-> Key(b), block |-> b, light |-> b \in unit.light, dark |-> b \in unit.dark,
         name |-> IF Key(b) \in DOMAIN x.groups /\ Key(b)[1] \in Lighting(x)
                  THEN x.groups[Key(b)] ELSE {},
         dedicated |-> /\ Key(b) \in DOMAIN x.groups /\ Key(b)[1] \in Lighting(x)
                       /\ "motion" \in x.groups[Key(b)]]
      selected == SelectCandidates({Candidate(b) : b \in blocks})
  IN  {c \in selected : \A d \in selected : d.key = c.key => c.block <= d.block}

\* The groups of all its lighting applications, and the units with a sensor.
ParseGroups(x) ==
  [k \in {j \in DOMAIN x.groups : j[1] \in Lighting(x)} |->
     [name |-> x.groups[k], internal |-> "internal" \in x.groups[k],
      platform |-> ClassifyGroup(x.groups[k], k \in RelayGroups(x))]]

ParseUnits(x) ==
  [u \in {v \in DOMAIN x.units : x.units[v].type \in {"pir", "light sensor"}} |->
     [motion |-> x.units[u].type = "pir",
      motion_groups |-> IF x.units[u].type = "pir" THEN MotionGroups(x, u) ELSE {}]]

ParseNetwork(x) ==
  [interface |-> x.interface,
   active    |-> ActiveApplications(x),
   monitor   |-> MonitorApplication(x),
   groups    |-> ParseGroups(x),
   units     |-> ParseUnits(x)]

ParseProject(d) == [n \in DOMAIN d |-> ParseNetwork(d[n])]

Parsed == [d \in Documents |-> ParseProject(d)]

-----------------------------------------------------------------------------
(* The definitions of the runtime, for a project p and options o.          *)

Or(value, default) == IF value # None THEN value ELSE default

\* effective_connection
Enabled(p, o, n) == Or(o[<<"enabled", n>>], p[n].interface.host # None)
Host(p, o, n)    == Or(o[<<"host", n>>], p[n].interface.host)
Port(p, o, n)    == Or(o[<<"port", n>>], p[n].interface.port)
Monitor(p, o, n) == Or(o[<<"monitor", n>>], p[n].monitor)

\* The connections async_start makes.
Connections(p, o) ==
  {[network |-> n, host |-> Host(p, o, n), port |-> Port(p, o, n), monitor |-> Monitor(p, o, n)] :
     n \in {m \in DOMAIN p : Enabled(p, o, m) /\ Host(p, o, m) # None /\ Port(p, o, m) # None}}

\* group_definitions of one platform, as <<network, application, group>>.
GroupDefinitions(p, o, platform) ==
  UNION {{<<n, k[1], k[2]>> : k \in {j \in DOMAIN p[n].groups :
            /\ j[1] \in p[n].active /\ j[2] # 255
            /\ p[n].groups[j].internal => Or(o[<<"internal">>], FALSE)
            /\ p[n].groups[j].platform = platform}} : n \in DOMAIN p}

\* The units a project keeps, as <<network, unit>>; all have supports_illuminance.
UnitMap(p) == UNION {{<<n, u>> : u \in DOMAIN p[n].units} : n \in DOMAIN p}
Unit(p, i) == p[i[1]].units[i[2]]

MotionUnits(p) == {i \in UnitMap(p) : Unit(p, i).motion}

MotionDefinitions(p, o) ==
  IF Or(o[<<"motion">>], TRUE) THEN MotionUnits(p) ELSE {}

IlluminanceDefinitions(p, o) ==
  IF Or(o[<<"illuminance">>], FALSE) THEN UnitMap(p) ELSE {}

\* What async_setup_entry of the platforms adds.
Entities(p, o) ==
  [light        |-> GroupDefinitions(p, o, "light"),
   switch       |-> GroupDefinitions(p, o, "switch"),
   motion       |-> MotionDefinitions(p, o),
   illuminance  |-> IlluminanceDefinitions(p, o),
   connectivity |-> {n \in DOMAIN p : Host(p, o, n) # None}]

\* _build_motion_bindings
MotionBindings(p) ==
  UNION {{[unit |-> i, group |-> <<i[1], c.key[1], c.key[2]>>, dedicated |-> c.dedicated] :
            c \in Unit(p, i).motion_groups} : i \in MotionUnits(p)}

-----------------------------------------------------------------------------
(* project_diff.                                                           *)

GroupMap(p) == UNION {{<<n, k>> : k \in DOMAIN p[n].groups} : n \in DOMAIN p}
Group(p, i) == p[i[1]].groups[i[2]]

\* Mutant: a group that only changes its platform is not listed.
ReclassifiedRenamed(old, new) ==
  {i \in GroupMap(old) \cap GroupMap(new) :
     Group(old, i).platform # Group(new, i).platform /\ Group(old, i).name # Group(new, i).name}

Reclassified(old, new) ==
  {i \in GroupMap(old) \cap GroupMap(new) : Group(old, i).platform # Group(new, i).platform}

\* Nothing to tell but "none" and zeros, and no line for the connections.
DiffEmpty(old, new) ==
  /\ DOMAIN old = DOMAIN new
  /\ \A n \in DOMAIN old \cap DOMAIN new : old[n].interface = new[n].interface
  /\ GroupMap(old) = GroupMap(new)
  /\ \A i \in GroupMap(old) \cap GroupMap(new) : Group(old, i).name = Group(new, i).name
  /\ Reclassified(old, new) = {}
  /\ UnitMap(old) = UnitMap(new)
  /\ MotionUnits(old) = MotionUnits(new)
  /\ \A i \in MotionUnits(old) \cap MotionUnits(new) :
       Unit(old, i).motion_groups = Unit(new, i).motion_groups

-----------------------------------------------------------------------------
(* The flows.                                                              *)

ConnectionKeys(n) == {"enabled", "host", "port", "monitor"} \X {n}
EntityKeys        == {<<"internal">>, <<"motion">>}
IlluminanceKeys   == {<<"illuminance">>}
Keys == UNION {ConnectionKeys(n) : n \in Networks} \cup EntityKeys \cup IlluminanceKeys

Init ==
  /\ document = None
  /\ options = [k \in Keys |-> None]
  /\ forms = [f \in Flows |-> None]
  /\ entered = [k \in Keys |-> None]
  /\ cleared = [k \in Keys |-> None]
  /\ lost = {}
  /\ changes = 0

Change == changes < MaxChanges /\ changes' = changes + 1

\* async_step_user and async_step_confirm, or the steps of reconfigure: a project
\* without networks is refused.
Import ==
  /\ Change
  /\ \E d \in Documents \ {document} : DOMAIN d # {} /\ document' = d
  /\ UNCHANGED <<options, forms, entered, cleared, lost>>

\* The form with these keys and the options of this moment.
Form(project, keys) ==
  [keys |-> keys, project |-> project, defaults |-> [k \in keys |-> options[k]]]

\* A form is shown; the networks to choose from and their applications are those of
\* the project the flow loads, which it keeps.
ShowForm(f) ==
  /\ document # None /\ forms[f] = None
  /\ \E keys \in {ConnectionKeys(n) : n \in DOMAIN document} \cup {EntityKeys, IlluminanceKeys} :
       forms' = [forms EXCEPT ![f] = Form(document, keys)]
  /\ UNCHANGED <<document, options, entered, cleared, lost, changes>>

\* A port that is no number of a port: the form is shown again, with the options of
\* this moment, and nothing is saved.
PortRefused(f) ==
  /\ forms[f] # None /\ \E n \in Networks : forms[f].keys = ConnectionKeys(n)
  /\ forms' = [forms EXCEPT ![f] = Form(forms[f].project, forms[f].keys)]
  /\ UNCHANGED <<document, options, entered, cleared, lost, changes>>

\* What can be entered for a key; the applications are the active ones.
Allowed(form, k) ==
  CASE k[1] = "host"    -> Hosts \cup {None}
    [] k[1] = "port"    -> Ports \cup {None}
    [] k[1] = "monitor" -> LET active == Parsed[form.project][k[2]].active
                           IN  IF active = {} THEN {56} ELSE active
    [] OTHER            -> BOOLEAN

\* The default of a field whose key is absent.
Default(p, k) ==
  CASE k[1] = "enabled" -> p[k[2]].interface.host # None
    [] k[1] = "monitor" -> p[k[2]].monitor
    [] k[1] = "motion"  -> TRUE
    [] k[1] \in {"internal", "illuminance"} -> FALSE
    [] k[1] \in {"host", "port"} -> None

\* Mutant: the form replaces the options.
MergedAlone(input) == [k \in Keys |-> IF k \in DOMAIN input THEN input[k] ELSE None]

\* The options of this moment, not of the moment the form was shown, with the input;
\* a blank host or port removes its key.
Merged(input) == [k \in Keys |-> IF k \in DOMAIN input THEN input[k] ELSE options[k]]

\* What a field shows before the user touches it.
Shown(form, k) == Or(form.defaults[k], Default(Parsed[form.project], k))

\* What the handler gets for what the user put into a field: a blank is sent as an
\* empty text or left out, and what is left out of the form's schema (vol.Optional)
\* comes back as the default it was shown with.
Received(form, k, v) == IF v = None THEN {None, Shown(form, k)} ELSE {v}

\* The user changes one field, or none: what is not touched is submitted as shown.  A
\* key is lost if another form has saved something else for it meanwhile.
SubmitForm(f) ==
  /\ Change
  /\ forms[f] # None
  /\ LET form == forms[f]
     IN  \E k \in form.keys : \E v \in Allowed(form, k) : \E w \in Received(form, k, v) :
           LET touched == {j \in {k} : v # Shown(form, j)}
               input == [j \in form.keys |-> IF j \in touched THEN w ELSE Shown(form, j)]
           IN  /\ \A j \in form.keys : input[j] \in Allowed(form, j)
               /\ options' = Merged(input)
               /\ entered' = [j \in Keys |-> IF j \in touched THEN v ELSE entered[j]]
               /\ cleared' = [j \in Keys |-> CASE j \notin touched -> cleared[j]
                                               [] j \in touched /\ v = None -> Shown(form, j)
                                               [] j \in touched /\ v # None -> None]
               /\ lost' = (lost \ touched)
                          \cup {j \in form.keys \ touched : form.defaults[j] # options[j]}
  /\ forms' = [forms EXCEPT ![f] = None]
  /\ UNCHANGED document

Next == Import \/ \E f \in Flows : ShowForm(f) \/ PortRefused(f) \/ SubmitForm(f)

Spec == Init /\ [][Next]_vars

-----------------------------------------------------------------------------
(* Properties.                                                             *)

Project == Parsed[document]

\* Whatever is imported, a PIR is bound to groups of movement blocks of its own
\* programming only, to each once, and either to groups named for motion only or to
\* none ("Prefer explicitly named Motion/PIR groups"): what GroupState assumes.
BindingsSound ==
  document # None =>
    LET bindings == MotionBindings(Project)
    IN  /\ \A b, c \in bindings : b.unit = c.unit =>
             b.dedicated = c.dedicated /\ (b.group = c.group => b = c)
        /\ \A b \in bindings :
             LET x == document[b.unit[1]]
                 unit == x.units[b.unit[2]]
             IN  /\ b.unit[1] = b.group[1] /\ b.group[3] # Unused
                 /\ \E i \in DOMAIN unit.groups :
                      unit.groups[i] = b.group[3] /\ i - 1 \in unit.light \cup unit.dark
                 /\ b.dedicated => "motion" \in x.groups[<<b.group[2], b.group[3]>>]

\* A named group that is nothing of the integration's own (internal, or named for
\* motion) and whose application a unit is programmed for is a light or a switch, and
\* not both; what a relay unit drives is never a dimmable light ("Relay groups found
\* in relay output programming ... become switches").
GroupsServed ==
  document # None =>
    LET entities == Entities(Project, options)
    IN  /\ entities.light \cap entities.switch = {}
        /\ \A n \in DOMAIN document : \A k \in DOMAIN document[n].groups :
             LET i == <<n, k[1], k[2]>>
             IN  /\ /\ document[n].groups[k] \cap {"internal", "motion"} = {}
                    /\ k[1] \in 48 .. 95 /\ k[2] # 255
                    /\ \E u \in DOMAIN document[n].units :
                         k[1] \in ToSet(document[n].units[u].applications)
                    => i \in entities.light \cup entities.switch
                 /\ (\E u \in DOMAIN document[n].units :
                       /\ document[n].units[u].type = "relay"
                       /\ k[1] \in ToSet(document[n].units[u].applications)
                       /\ k[2] \in ToSet(document[n].units[u].groups)
                       /\ k[2] # 255)
                    => i \notin entities.light

\* The override that may be back although the user has cleared it.
Back(k) == {cleared[k]} \ {None}

\* What the user put into a field stays, whatever other fields, forms and projects are
\* saved afterwards, in however many flows, unless by a form of the same settings that
\* was opened before it.  A host or port left blank follows the project imported
\* last ("Blank overrides follow the latest values imported from Toolkit"), unless it is
\* the very override that was cleared: the cleared field, left out of what the form
\* sends, is filled in again by the schema.
SettingsKept ==
  /\ \A k \in Keys \ lost : entered[k] # None => options[k] = entered[k]
  /\ document # None => \A n \in DOMAIN document :
       /\ <<"host", n>> \notin lost /\ entered[<<"host", n>>] = None =>
            Host(Project, options, n) \in {document[n].interface.host} \cup Back(<<"host", n>>)
       /\ <<"port", n>> \notin lost /\ entered[<<"port", n>>] = None =>
            Port(Project, options, n) \in {document[n].interface.port} \cup Back(<<"port", n>>)

\* Reconfigure shows what it will change: a project with an empty summary of changes
\* makes the same connections, entities and bindings under any options, unless units
\* were programmed for other applications, which the summary does not list.
DiffTells ==
  [][document # None /\ document' # document =>
       LET old == Parsed[document]
           new == Parsed[document']
       IN  /\ DiffEmpty(old, new)
           /\ \A n \in DOMAIN old \cap DOMAIN new :
                old[n].active = new[n].active /\ old[n].monitor = new[n].monitor
           => /\ Connections(new, options) = Connections(old, options)
              /\ Entities(new, options) = Entities(old, options)
              /\ MotionBindings(new) = MotionBindings(old)]_vars
=============================================================================
