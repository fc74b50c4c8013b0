--------------------------- MODULE LightingCodec ---------------------------
(***************************************************************************)
(* The codec of protocol.py: encode_lighting_command, transition_to_ramp_- *)
(* code, parse_cni_line and _parse_mmi, between a unit (or a command of    *)
(* Home Assistant) and the events the runtime is given.                    *)
(*                                                                         *)
(* A line comes from a broadcast of lighting commands, from the status     *)
(* reply of a network, or from a command the CNI has put on the bus.  It   *)
(* may be damaged on its way, and is parsed.                               *)
(*                                                                         *)
(* Abstracted: the hexadecimal text of a line (its bytes, or Garbled when  *)
(* it is not a whole number of hexadecimal bytes).  A transition is a      *)
(* whole number of seconds.                                                *)
(***************************************************************************)
EXTENDS Integers, SequencesExt

CONSTANTS
  Sources,      \* addresses of units
  Applications, \* lighting applications
  Groups,       \* group addresses
  Levels,       \* levels a command ramps to
  Rates,        \* ramp codes units use
  Transitions,  \* transitions Home Assistant asks for
  Blocks,       \* the states, 0 .. 3, of consecutive groups in a status reply
  Starts,       \* the first group of a status reply
  Noise,        \* what damage adds to a byte
  MaxCommands,  \* bound: commands of one broadcast
  Garbled,      \* a line that is no hexadecimal text
  None          \* the value Python calls None

Bytes == 0 .. 255

ASSUME ByteAssumption ==
  /\ Sources \subseteq Bytes /\ Applications \subseteq Bytes
  /\ Groups \subseteq 0 .. 254 /\ Levels \subseteq Bytes /\ Starts \subseteq Bytes
  /\ Noise \subseteq 1 .. 255 /\ Transitions \subseteq Nat \cup {None}
ASSUME BlockAssumption ==
  \A b \in Blocks : b \in Seq(0 .. 3) /\ Len(b) % 4 = 0 /\ Len(b) \in 4 .. 240
ASSUME MaxCommandsAssumption == MaxCommands \in Nat
ASSUME NoneAssumption ==
  /\ None \notin Nat /\ None \notin Seq(Bytes) /\ Garbled \notin Seq(Bytes) /\ Garbled # None

VARIABLES
  origin,  \* history: what the line stands for
  line,    \* the line as it is on the wire, None before it is sent
  damaged, \* history: a byte, or the text, was changed on the way
  events   \* what parse_cni_line made of it, None before

vars == <<origin, line, damaged, events>>

-----------------------------------------------------------------------------
(* The tables and the encoder.                                             *)

On        == 121 \* 0x79
Off       == 1
Terminate == 9   \* a command of the bus that the codec does not know

\* The durations of the sixteen ramps, whose codes are 0x02, 0x0A, .. 0x7A.
Durations == <<0, 4, 8, 12, 20, 30, 40, 60, 90, 120, 180, 300, 420, 600, 900, 1020>>
RampCodes == {8 * i - 6 : i \in DOMAIN Durations}
RampSeconds == [code \in RampCodes |-> Durations[(code + 6) \div 8]]

ASSUME RatesAssumption == Rates \subseteq RampCodes

Distance(code, seconds) ==
  LET d == RampSeconds[code] - seconds IN IF d < 0 THEN -d ELSE d

Total(data) ==
  LET Sum[i \in 0 .. Len(data)] == IF i = 0 THEN 0 ELSE Sum[i - 1] + data[i]
  IN  Sum[Len(data)]

Checksum(data) == (-Total(data)) % 256

Sealed(payload) == Append(payload, Checksum(payload))

\* Mutant: the slowest ramp that is not longer.
RampCodeBelow(seconds) ==
  IF seconds = None THEN 2
  ELSE CHOOSE c \in RampCodes :
         /\ RampSeconds[c] <= seconds
         /\ \A d \in RampCodes : RampSeconds[d] <= seconds => d <= c

\* min over the table in its order: the first of the nearest.
TransitionToRampCode(seconds) ==
  IF seconds = None THEN 2
  ELSE CHOOSE c \in RampCodes : \A d \in RampCodes :
         \/ Distance(c, seconds) < Distance(d, seconds)
         \/ Distance(c, seconds) = Distance(d, seconds) /\ c <= d

\* The part of encode_lighting_command after the application and 0x00.
CommandBytes(group, level, transition) ==
  CASE level = 0 /\ transition \in {None, 0}   -> <<Off, group>>
    [] level = 255 /\ transition \in {None, 0} -> <<On, group>>
    [] OTHER -> <<TransitionToRampCode(transition), group, level>>

EncodeLightingCommand(application, group, level, transition) ==
  Sealed(<<5, application, 0>> \o CommandBytes(group, level, transition))

-----------------------------------------------------------------------------
(* The decoder.                                                            *)

\* Mutant: a ramp has no byte for its level.
SizeWithoutLevel(data, i) ==
  CASE data[i] \in {On, Off} /\ i + 1 < Len(data)  -> 2
    [] data[i] \in RampCodes /\ i + 2 < Len(data) -> 2
    [] OTHER -> 0

\* How many bytes before the checksum the command at position i takes; 0 if it is
\* not known or not complete.
CommandSize(data, i) ==
  CASE data[i] \in {On, Off} /\ i + 1 < Len(data)  -> 2
    [] data[i] \in RampCodes /\ i + 2 < Len(data) -> 3
    [] OTHER -> 0

LevelEvent(data, i) ==
  LET level == CASE data[i] = On  -> 255
                 [] data[i] = Off -> 0
                 [] OTHER         -> data[i + 2]
      ramp == IF data[i] \in RampCodes THEN RampSeconds[data[i]] ELSE None
  IN  [application |-> data[3], group |-> data[i + 1], level |-> level, on |-> level > 0,
       source |-> data[2], ramp |-> ramp, mmi |-> FALSE]

\* The events of the commands from position start to the first that has no size.
Commands(data, start) ==
  LET From[i \in start .. Len(data)] ==
        IF CommandSize(data, i) = 0 THEN <<>>
        ELSE <<LevelEvent(data, i)>> \o From[i + CommandSize(data, i)]
  IN  From[start]

\* Where the commands start, after 0x00 or after 0x01 0x00; 0 if neither is there.
FirstCommand(data) ==
  CASE data[4] = 0 -> 5
    [] data[4] = 1 /\ data[5] = 0 -> 6
    [] OTHER -> 0

\* Mutant: the groups of a byte are read from its upper end.
StateInReversed(byte, offset) == (byte \div <<64, 16, 4, 1>>[offset + 1]) % 4

StateIn(byte, offset) == (byte \div <<1, 4, 16, 64>>[offset + 1]) % 4

\* The state of the i-th group of a status reply, and what is told of it.
StateOf(data, i) == StateIn(data[4 + (i - 1) \div 4], (i - 1) % 4)

MmiEvent(data, i) ==
  LET state == StateOf(data, i)
  IN  [application |-> data[2], group |-> data[3] + i - 1,
       level |-> IF state = 2 THEN 0 ELSE None,
       on |-> IF state = 1 THEN TRUE ELSE IF state = 2 THEN FALSE ELSE None,
       source |-> None, ramp |-> None, mmi |-> TRUE]

\* An event for every group of the block that exists and has a state.
ParseMmi(data) ==
  LET Events[i \in 0 .. 4 * (Len(data) - 4)] ==
        IF i = 0 THEN <<>>
        ELSE IF data[3] + i - 1 > 255 \/ StateOf(data, i) = 0 THEN Events[i - 1]
        ELSE Append(Events[i - 1], MmiEvent(data, i))
  IN  IF data[1] - 192 # Len(data) - 1 \/ Len(data) < 5 THEN <<>>
      ELSE Events[4 * (Len(data) - 4)]

\* A packet whose checksum is right.
ParsePacket(data) ==
  CASE data[1] >= 192 -> ParseMmi(data)
    [] data[1] = 5 /\ Len(data) >= 7 /\ FirstCommand(data) # 0 ->
         Commands(data, FirstCommand(data))
    [] OTHER -> <<>>

\* Mutant: the checksum is not looked at.
ParseUnchecked(received) == IF received = Garbled THEN <<>> ELSE ParsePacket(received)

ParseCniLine(received) ==
  IF received = Garbled THEN <<>>
  ELSE IF Len(received) < 2 \/ Total(received) % 256 # 0 THEN <<>>
  ELSE ParsePacket(received)

-----------------------------------------------------------------------------
(* The bus.                                                                *)

\* What units say: the kinds of command, and their bytes.
UnitCommands ==
  [op : {On, Off, Terminate}, group : Groups, level : {None}]
  \cup [op : Rates, group : Groups, level : Levels]

BytesOf(c) == IF c.op \in RampCodes THEN <<c.op, c.group, c.level>> ELSE <<c.op, c.group>>

Init ==
  /\ origin = None
  /\ line = None
  /\ damaged = FALSE
  /\ events = None

\* The line of a packet that has crossed a bridge has 0x01 0x00 for 0x00.
BroadcastLine(source, application, bridge, commands) ==
  Sealed(<<5, source, application>> \o bridge \o <<0>>
         \o FlattenSeq([i \in DOMAIN commands |-> BytesOf(commands[i])]))

Broadcast ==
  /\ line = None
  /\ \E source \in Sources, application \in Applications, bridge \in {<<>>, <<1>>},
        commands \in UNION {[1 .. n -> UnitCommands] : n \in 1 .. MaxCommands} :
       /\ origin' = [kind |-> "broadcast", source |-> source,
                     application |-> application, commands |-> commands]
       /\ line' = BroadcastLine(source, application, bridge, commands)
  /\ UNCHANGED <<damaged, events>>

\* Four groups in a byte, the first in its low bits.
Packed(block, b) ==
  block[4 * b - 3] + 4 * block[4 * b - 2] + 16 * block[4 * b - 1] + 64 * block[4 * b]

StatusLine(application, start, block) ==
  LET bytes == Len(block) \div 4
  IN  Sealed(<<192 + bytes + 3, application, start>>
             \o [b \in 1 .. bytes |-> Packed(block, b)])

StatusReply ==
  /\ line = None
  /\ \E application \in Applications, start \in Starts, block \in Blocks :
       /\ origin' = [kind |-> "status", application |-> application,
                     start |-> start, block |-> block]
       /\ line' = StatusLine(application, start, block)
  /\ UNCHANGED <<damaged, events>>

\* send_level: the CNI puts the command on the bus, with an address of its own,
\* and other interfaces read it there.
CommandLine(source, sent) == Sealed(<<5, source>> \o SubSeq(sent, 2, Len(sent) - 1))

Commanded ==
  /\ line = None
  /\ \E source \in Sources, application \in Applications, group \in Groups,
        level \in Levels \cup {0, 255}, transition \in Transitions :
       /\ origin' = [kind |-> "command", source |-> source,
                     application |-> application, group |-> group,
                     level |-> level, transition |-> transition]
       /\ line' = CommandLine(source,
                              EncodeLightingCommand(application, group, level, transition))
  /\ UNCHANGED <<damaged, events>>

Damage ==
  /\ line # None /\ events = None /\ ~damaged
  /\ damaged' = TRUE
  /\ \/ \E i \in DOMAIN line, noise \in Noise :
          line' = [line EXCEPT ![i] = (@ + noise) % 256]
     \/ line' = Garbled
  /\ UNCHANGED <<origin, events>>

HandleLine ==
  /\ line # None /\ events = None
  /\ events' = ParseCniLine(line)
  /\ UNCHANGED <<origin, line, damaged>>

Next == Broadcast \/ StatusReply \/ Commanded \/ Damage \/ HandleLine

Spec == Init /\ [][Next]_vars

-----------------------------------------------------------------------------
(* Properties.                                                             *)

Heard(kind) == events # None /\ ~damaged /\ origin.kind = kind

\* A broadcast is decoded into its commands, all of them and in their order, with
\* their source, whatever bytes they are made of (a group may have the number of a
\* command) and whether or not it crossed a bridge; up to a command that is not one
\* of the "ON, OFF, RAMP TO LEVEL" of the codec, which hides those behind it.
BroadcastExact ==
  Heard("broadcast") =>
    LET stop  == SelectInSeq(origin.commands, LAMBDA c : c.op = Terminate)
        known == IF stop = 0 THEN origin.commands ELSE SubSeq(origin.commands, 1, stop - 1)
    IN  /\ Len(events) = Len(known)
        /\ \A i \in DOMAIN known :
             /\ events[i].source = origin.source
             /\ events[i].application = origin.application
             /\ events[i].group = known[i].group
             /\ events[i].level = CASE known[i].op = On  -> 255
                                    [] known[i].op = Off -> 0
                                    [] OTHER -> known[i].level
             /\ events[i].on <=> events[i].level > 0

\* A status reply says of every group in it that exists what the network said, once,
\* and nothing of any other group.
StatusExact ==
  Heard("status") =>
    \A g \in Bytes :
      LET told == {i \in DOMAIN events : events[i].group = g}
          i == g - origin.start + 1
      IN  IF i \in DOMAIN origin.block /\ origin.block[i] # 0
          THEN \E k \in told :
                 /\ told = {k} /\ events[k].application = origin.application
                 /\ events[k].on = CASE origin.block[i] = 1 -> TRUE
                                     [] origin.block[i] = 2 -> FALSE
                                     [] OTHER -> None
                 /\ events[k].level = IF origin.block[i] = 2 THEN 0 ELSE None
          ELSE told = {}

\* What Home Assistant asked for is what is heard on the bus: the group, the level,
\* and a ramp whose duration no other ramp comes closer to (none when no transition
\* was asked for).
CommandHonoured ==
  Heard("command") =>
    /\ Len(events) = 1
    /\ events[1].application = origin.application
    /\ events[1].group = origin.group
    /\ events[1].level = origin.level
    /\ LET asked == IF origin.transition = None THEN 0 ELSE origin.transition
           ramp  == IF events[1].ramp = None THEN 0 ELSE events[1].ramp
           Error(duration) == IF duration < asked THEN asked - duration ELSE duration - asked
       IN  \A i \in DOMAIN Durations : Error(ramp) <= Error(Durations[i])

\* A line with a damaged byte says nothing about any group.
DamageIgnored == damaged /\ events # None => events = <<>>
=============================================================================
