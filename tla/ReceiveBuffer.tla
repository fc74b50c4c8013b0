--------------------------- MODULE ReceiveBuffer ---------------------------
(***************************************************************************)
(* How the run task of a CbusCniConnection cuts the bytes it receives into *)
(* lines: _read_loop and _consume_receive_buffer of protocol.py.           *)
(*                                                                         *)
(* The CNI sends confirmations, two bytes with no terminator, and replies, *)
(* terminated by CR or CR LF.  TCP delivers the bytes in order, in chunks  *)
(* cut anywhere.  After a reconnection the loop starts with a new buffer.  *)
(*                                                                         *)
(* Abstracted: the alphabet (two tags for g..z, two results for .#$%, one  *)
(* byte for every other), and what is done with a line (CniConnection has  *)
(* the confirmations, GroupState the reports).                             *)
(***************************************************************************)
EXTENDS Integers, SequencesExt

CONSTANTS
  Bodies,    \* the replies the CNI sends, without terminator
  MaxItems,  \* bound: items sent on one connection
  MaxLinks   \* bound: connections

TagBytes    == {"j", "k"}
ResultBytes == {".", "#"}
EolBytes    == {"CR", "LF"}
Bytes       == TagBytes \cup ResultBytes \cup EolBytes \cup {"0"}

\* A reply starts as no confirmation does, and holds no terminator.
ASSUME BodiesAssumption ==
  \A b \in Bodies : b \in Seq(Bytes \ EolBytes) /\ Len(b) > 0 /\ b[1] = "0"
ASSUME BoundsAssumption == MaxItems \in Nat /\ MaxLinks \in Nat \ {0}

VARIABLES
  sent,     \* the lines the CNI has sent on this connection, in order
  wire,     \* bytes sent and not yet delivered
  buffer,   \* the bytearray of _read_loop
  handled,  \* the lines given to _handle_line on this connection
  links     \* connections so far, counted for the bound

vars == <<sent, wire, buffer, handled, links>>

-----------------------------------------------------------------------------
\* The bytes after the CR and LF bytes that start b.
SkipEol(b) ==
  LET first == SelectInSeq(b, LAMBDA x : x \notin EolBytes)
  IN  IF first = 0 THEN <<>> ELSE SubSeq(b, first, Len(b))

\* Mutant: a confirmation is an ordinary line.
NeverConfirmation(b) == FALSE

StartsWithConfirmation(b) ==
  Len(b) >= 2 /\ b[1] \in TagBytes /\ b[2] \in ResultBytes

\* The first byte of what may become a confirmation.
Undecided(b) == Len(b) = 1 /\ b[1] \in TagBytes

CrPosition(b) == SelectInSeq(b, LAMBDA x : x = "CR")

\* The bytes before the CR, without the LF bytes that end them.
Line(b) ==
  LET raw == SubSeq(b, 1, CrPosition(b) - 1)
  IN  SubSeq(raw, 1, SelectLastInSeq(raw, LAMBDA x : x # "LF"))

\* One pass of the loop: what starts the buffer is handled, if it is complete.
Pass(state) ==
  LET rest == SkipEol(state.rest)
      Cut(line, n) == [lines |-> Append(state.lines, line),
                       rest  |-> SubSeq(rest, n + 1, Len(rest))]
  IN  IF StartsWithConfirmation(rest) THEN Cut(SubSeq(rest, 1, 2), 2)
      ELSE IF ~Undecided(rest) /\ CrPosition(rest) > 0 THEN Cut(Line(rest), CrPosition(rest))
      ELSE [lines |-> state.lines, rest |-> rest]

\* _consume_receive_buffer: the lines found in b, and the bytes left.  A pass
\* that handles something shortens the buffer, and after one that does not
\* nothing changes: Len(b) passes are all of them.
Consume(b) ==
  LET Passes[i \in 0 .. Len(b)] ==
        IF i = 0 THEN [lines |-> <<>>, rest |-> b] ELSE Pass(Passes[i - 1])
  IN  Passes[Len(b)]

-----------------------------------------------------------------------------
Init ==
  /\ sent = <<>>
  /\ wire = <<>>
  /\ buffer = <<>>
  /\ handled = <<>>
  /\ links = 1

Transmit(line, bytes) ==
  /\ Len(sent) < MaxItems
  /\ sent' = Append(sent, line)
  /\ wire' = wire \o bytes
  /\ UNCHANGED <<buffer, handled, links>>

Confirm == \E t \in TagBytes, r \in ResultBytes : Transmit(<<t, r>>, <<t, r>>)

Report ==
  \E body \in Bodies, eol \in {<<"CR">>, <<"CR", "LF">>} : Transmit(body, body \o eol)

\* One read(1024) of the loop: some bytes arrive, everything complete is handled.
Receive ==
  \E n \in 1 .. Len(wire) :
    LET result == Consume(buffer \o SubSeq(wire, 1, n))
    IN  /\ wire' = SubSeq(wire, n + 1, Len(wire))
        /\ buffer' = result.rest
        /\ handled' = handled \o result.lines
        /\ UNCHANGED <<sent, links>>

\* Mutant: the buffer belongs to the object, not to _read_loop.
ReconnectKeepsBuffer ==
  /\ links < MaxLinks
  /\ links' = links + 1
  /\ sent' = <<>>
  /\ wire' = <<>>
  /\ handled' = <<>>
  /\ UNCHANGED buffer

\* The connection is lost at any point and the run task makes a new one, whose
\* _read_loop starts with an empty buffer.
Reconnect ==
  /\ links < MaxLinks
  /\ links' = links + 1
  /\ sent' = <<>>
  /\ wire' = <<>>
  /\ buffer' = <<>>
  /\ handled' = <<>>

Next == Confirm \/ Report \/ Receive \/ Reconnect

Spec == Init /\ [][Next]_vars

-----------------------------------------------------------------------------
\* Types; the buffer holds at most one reply without its CR, or half a
\* confirmation, after every read.
TypeOK ==
  /\ sent \in Seq(Seq(Bytes)) /\ handled \in Seq(Seq(Bytes))
  /\ wire \in Seq(Bytes) /\ buffer \in Seq(Bytes)
  /\ Len(buffer) <= 1 \/ \E b \in Bodies : Len(buffer) <= Len(b)
  /\ links \in 1 .. MaxLinks

\* Wherever TCP cuts the stream and whatever an earlier connection left behind,
\* the lines handled are the lines sent: none is split, merged with its
\* neighbour, lost, repeated or reordered.
FramingExact == IsPrefix(handled, sent)

\* A line is handled as soon as its last byte is there: a confirmation never
\* waits for the CR of a later reply ("resolves this future as soon as the two
\* confirmation bytes arrive").
HandledAtOnce == wire = <<>> => handled = sent
=============================================================================
