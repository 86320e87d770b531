---------------------------- MODULE FrameReader ----------------------------
(* FrameReader::read_next of crates/strajer-w3gs/src/frame.rs, reading the *)
(* W3GS frames that Warcraft writes to an agent's local TCP stream.        *)
(*                                                                         *)
(* TCP delivers the bytes in pieces that are not the frames.  A read is a  *)
(* future that keeps the bytes it has taken so far.  The first one reads   *)
(* the join frame within JOIN_FRAME_TIMEOUT (main.rs:608), or the          *)
(* connection ends.  Each later one is a branch of tokio::select! in a     *)
(* lobby session (main.rs:740) and is dropped, with the bytes it has       *)
(* taken, whenever another branch completes first.                         *)
(*                                                                         *)
(* A byte is known by its frame, its place in it and the frame's length;   *)
(* the header is abstracted to two bytes, the signature and the length.    *)
EXTENDS Naturals, Sequences

CONSTANTS
  Lengths,        \* the lengths of the frames that are written
  Limit,          \* maximum_frame_length of the join frame's read
  MaxFrames       \* bound: frames written

HeaderLength == 2

ASSUME ReaderAssumption ==
  /\ Lengths \subseteq Nat /\ \A n \in Lengths : n >= HeaderLength
  /\ Limit \in Nat /\ Limit >= HeaderLength
  /\ MaxFrames \in Nat

VARIABLES
  selected,   \* the session has begun: a read is a branch of tokio::select!
  written,    \* the lengths of the frames that Warcraft wrote
  wire,       \* bytes on their way
  arrived,    \* bytes the socket holds for the reader
  held,       \* bytes that the read in progress has taken
  delivered,  \* the frames returned, 0 for one that was never written
  closed,     \* Warcraft has closed the stream
  cut,        \* and some of the bytes it wrote were not sent
  outcome,    \* of the last read: "reading", "none" (end of stream), "error", "timeout"
  dropped     \* history: a read was dropped with bytes it had taken

streamVars == <<selected, written, wire, closed, cut, dropped>>
readerVars == <<streamVars, arrived, held, delivered, outcome>>

FrameBytes(i, n) == [k \in 1..n |-> [frame |-> i, at |-> k, length |-> n]]

Taken == held \o arrived

----------------------------------------------------------------------------
(* Warcraft and TCP. *)

WriteFrame(n) ==
  /\ ~closed /\ Len(written) < MaxFrames
  /\ written' = Append(written, n)
  /\ wire' = wire \o FrameBytes(Len(written) + 1, n)
  /\ UNCHANGED <<selected, dropped, arrived, held, delivered, closed, cut, outcome>>

Arrive ==
  /\ \E k \in 1..Len(wire) :
       /\ arrived' = arrived \o SubSeq(wire, 1, k)
       /\ wire' = SubSeq(wire, k + 1, Len(wire))
  /\ UNCHANGED <<selected, dropped, written, held, delivered, closed, cut, outcome>>

CloseStream ==
  /\ ~closed
  /\ closed' = TRUE
  /\ \E k \in 0..Len(wire) :
       /\ wire' = SubSeq(wire, 1, k)
       /\ cut' = (k < Len(wire))
  /\ UNCHANGED <<selected, dropped, written, arrived, held, delivered, outcome>>

----------------------------------------------------------------------------
(* The read. *)

(* FrameHeader::decode: the first byte is a signature.  Some byte inside a *)
(* frame may look like one, and then any length may follow.                *)
Declares(bytes, n) == IF bytes[1].at = 1 THEN n = bytes[1].length ELSE n \in Lengths

Needed(n) == n

(* MAX_LOBBY_FRAME_BYTES is the largest length that a header can declare.  *)
WithinLimit(n) == selected \/ n <= Limit

WrongUnread(n) == Taken
Unread(n) == SubSeq(Taken, Needed(n) + 1, Len(Taken))

(* Polled with what has arrived, the read takes all it can use and waits   *)
(* for the rest of the header or of the payload.                           *)
TakePiece ==
  /\ arrived # <<>>
  /\ \/ Len(Taken) < HeaderLength
     \/ \E n \in Lengths : Declares(Taken, n) /\ WithinLimit(n) /\ Len(Taken) < Needed(n)
  /\ held' = Taken
  /\ arrived' = <<>>
  /\ UNCHANGED <<delivered, outcome>>

ReturnFrame ==
  /\ Len(Taken) >= HeaderLength
  /\ \E n \in Lengths :
       /\ Declares(Taken, n) /\ WithinLimit(n) /\ Len(Taken) >= Needed(n)
       /\ arrived' = Unread(n)
       /\ delivered' =
            Append(delivered, IF Taken[1].at = 1 THEN Taken[1].frame ELSE 0)
  /\ held' = <<>>
  /\ UNCHANGED outcome

(* InvalidSignature, or validate_declared_frame_length. *)
RefuseHeader ==
  /\ Len(Taken) >= HeaderLength
  /\ \/ Taken[1].at # 1
     \/ \E n \in Lengths : Declares(Taken, n) /\ ~WithinLimit(n)
  /\ outcome' = "error"
  /\ UNCHANGED <<arrived, held, delivered>>

(* An end of the stream inside a frame is an error of read_exact. *)
EndOfStream ==
  /\ closed /\ wire = <<>> /\ arrived = <<>>
  /\ outcome' = IF held = <<>> THEN "none" ELSE "error"
  /\ UNCHANGED <<arrived, held, delivered>>

ReadNext ==
  /\ outcome = "reading" /\ (selected \/ delivered = <<>>)
  /\ TakePiece \/ ReturnFrame \/ RefuseHeader \/ EndOfStream
  /\ UNCHANGED streamVars

JoinTimesOut ==
  /\ outcome = "reading" /\ ~selected /\ delivered = <<>>
  /\ outcome' = "timeout"
  /\ UNCHANGED <<streamVars, arrived, held, delivered>>

(* The join frame was accepted and the server has a seat for it. *)
SessionBegins ==
  /\ outcome = "reading" /\ ~selected /\ delivered # <<>>
  /\ selected' = TRUE
  /\ UNCHANGED <<written, wire, closed, cut, dropped, arrived, held, delivered, outcome>>

(* Another branch of the select completed: a ping, a map part, an event of *)
(* the room.  The next turn of the loop starts a new read.                 *)
DropRead ==
  /\ selected /\ outcome = "reading" /\ held # <<>>
  /\ held' = <<>> /\ dropped' = TRUE
  /\ UNCHANGED <<selected, written, wire, closed, cut, arrived, delivered, outcome>>

----------------------------------------------------------------------------
ReaderInit ==
  /\ selected = FALSE /\ dropped = FALSE
  /\ written = <<>> /\ wire = <<>> /\ arrived = <<>> /\ held = <<>>
  /\ delivered = <<>> /\ closed = FALSE /\ cut = FALSE /\ outcome = "reading"

ReaderNext ==
  \/ \E n \in Lengths : WriteFrame(n)
  \/ Arrive \/ CloseStream
  \/ ReadNext \/ JoinTimesOut \/ SessionBegins \/ DropRead

ReaderSpec == ReaderInit /\ [][ReaderNext]_readerVars

----------------------------------------------------------------------------
Bytes == [frame: 1..MaxFrames, at: Nat, length: Lengths]

(* Every variable of the stream keeps its type; only a reader that has     *)
(* dropped bytes returns what Warcraft did not write, 0.                   *)
ReaderTypeOK ==
  /\ selected \in BOOLEAN /\ dropped \in BOOLEAN
  /\ written \in Seq(Lengths)
  /\ wire \in Seq(Bytes) /\ arrived \in Seq(Bytes) /\ held \in Seq(Bytes)
  /\ delivered \in Seq((IF dropped THEN 0 ELSE 1)..MaxFrames)
  /\ closed \in BOOLEAN /\ cut \in BOOLEAN
  /\ outcome \in {"reading", "none", "error", "timeout"}

JoinTooLong == ~selected /\ written # <<>> /\ written[1] > Limit

InStep ==
  /\ delivered = [i \in 1..Len(delivered) |-> i]
  /\ outcome = "error" => cut \/ JoinTooLong

(* `citire exacta a frame-ului, independent de fragmentarea TCP': as long  *)
(* as no read was dropped with bytes it had taken, and however the stream  *)
(* is cut in pieces, the frames returned are those written, in order and   *)
(* without gaps, from the join frame into the session; no read fails but   *)
(* on a join frame over the limit or on a stream that ended inside a       *)
(* frame, and the end of the stream is taken for a clean one only between  *)
(* two frames.  A session that lost its step still returns no frame again  *)
(* and none older than one it has returned.                                *)
ReadsInStep ==
  /\ ReaderTypeOK
  /\ ~dropped =>
       /\ InStep
       /\ outcome = "none" /\ ~cut => Len(delivered) = Len(written)
  /\ \A i, j \in DOMAIN delivered :
       i < j /\ delivered[i] # 0 /\ delivered[j] # 0 => delivered[i] < delivered[j]

(* Said of every read, as the document does. *)
AllReadsInStep == InStep
=============================================================================
