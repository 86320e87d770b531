---------------------------- MODULE ActionFrames ----------------------------
(* How the queued actions of a tick become W3GS frames, and how an agent   *)
(* reads them back: incoming_action_frames, encode_action_group and        *)
(* IncomingActionFrame::decode of crates/strajer-w3gs/src/game.rs, used by *)
(* publish_pending_actions and by validate_active_server_game_message.     *)
(*                                                                         *)
(* The loop over the actions takes one step per action.  Bytes are         *)
(* numbers; the data of an action is its player's number again and again,  *)
(* and a checksum is the bytes that it was computed of.                    *)
EXTENDS Integers, SequencesExt

CONSTANTS
  Authors,        \* player ids
  MaxActionData,  \* MAX_ACTION_DATA_BYTES
  MaxRecords,     \* MAX_ACTION_SUBPACKET_BYTES
  MaxFrame,       \* MAX_INCOMING_ACTION_FRAME_BYTES
  Byte,           \* values of a byte
  MaxActions,     \* bound: actions of one flush
  Increment       \* tick_increment_ms

HeaderBytes == 3
FrameOverhead == 8  \* frame header, time increment, checksum

SplitAssumption ==
  /\ Authors \subseteq Nat \ {0} /\ {MaxActionData, MaxActions} \subseteq Nat
  /\ Byte \in Nat \ {0, 1} /\ MaxActionData < Byte * Byte
  /\ \A p \in Authors : p < Byte
  /\ MaxRecords \in Nat /\ MaxActionData + HeaderBytes <= MaxRecords
  /\ MaxFrame \in Nat /\ MaxRecords + FrameOverhead <= MaxFrame
  /\ Increment \in Nat \ {0}

VARIABLES
  actions,                         \* the queue that was drained
  index, start, bytes, groups,     \* the loop
  frames, phase

splitVars == <<actions, index, start, bytes, groups, frames, phase>>

PlayerAction == [player: Authors, length: 0..MaxActionData]

EncodedLength(a) == HeaderBytes + a.length

BytesAfter(action_bytes) == bytes + action_bytes

(* The action does not fit into the group that is open. *)
WrongOverflows(action_bytes) == bytes > 0 /\ bytes + action_bytes >= MaxRecords
Overflows(action_bytes) == bytes > 0 /\ bytes + action_bytes > MaxRecords

WrongOpens == index + 1
Opens == index

Closed == SubSeq(actions, start, index - 1)

TakeAction ==
  /\ phase = "grouping" /\ index <= Len(actions)
  /\ LET action_bytes == EncodedLength(actions[index])
     IN  IF Overflows(action_bytes)
           THEN /\ groups' = Append(groups, Closed)
                /\ start' = Opens /\ bytes' = action_bytes
           ELSE bytes' = BytesAfter(action_bytes) /\ UNCHANGED <<groups, start>>
  /\ index' = index + 1
  /\ UNCHANGED <<actions, frames, phase>>

CloseGroups ==
  /\ phase = "grouping" /\ index > Len(actions)
  /\ groups' = IF actions = <<>> THEN groups ELSE Append(groups, Closed)
  /\ phase' = "encoding"
  /\ UNCHANGED <<actions, index, start, bytes, frames>>

----------------------------------------------------------------------------
(* Encoding. *)

Data(a) == [i \in 1..a.length |-> a.player]
Record(a) == <<a.player, a.length % Byte, a.length \div Byte>> \o Data(a)
Records(group) == FlattenSeq([i \in DOMAIN group |-> Record(group[i])])

Time(fragment) == IF fragment THEN 0 ELSE Increment

EncodeActionGroup(fragment, group) ==
  [fragment |-> fragment, time |-> Time(fragment), checksum |-> Records(group),
   records |-> Records(group)]

EmptyTimeslot == [fragment |-> FALSE, time |-> Increment, checksum |-> <<>>, records |-> <<>>]

Encode ==
  /\ phase = "encoding" /\ phase' = "done"
  /\ frames' = IF groups = <<>> THEN <<EmptyTimeslot>>
               ELSE [i \in DOMAIN groups |-> EncodeActionGroup(i # Len(groups), groups[i])]
  /\ UNCHANGED <<actions, index, start, bytes, groups>>

EncodedBytes(frame) ==
  IF frame.records = <<>> THEN FrameOverhead - 2 ELSE FrameOverhead + Len(frame.records)

----------------------------------------------------------------------------
(* Decoding. *)

Malformed == <<[player |-> 0, length |-> 0]>>

(* A turn of the loop over the bytes. *)
ReadRecord(records, read) ==
  LET left == Len(records) - read.offset
      length == records[read.offset + 2] + Byte * records[read.offset + 3]
      end == read.offset + HeaderBytes + length
      author == records[read.offset + 1]
  IN  IF left = 0 \/ read.actions = Malformed THEN read
      ELSE IF left < HeaderBytes \/ end > Len(records) \/ author = 0 \/ length > MaxActionData
        THEN [read EXCEPT !.actions = Malformed]
      ELSE [offset |-> end,
            actions |-> Append(read.actions, [player |-> author, length |-> length])]

(* The actions, or Malformed.  No loop has more turns than there are bytes. *)
DecodeTurns(records) ==
  LET read[turn \in 0..Len(records)] ==
        IF turn = 0 THEN [offset |-> 0, actions |-> <<>>]
        ELSE ReadRecord(records, read[turn - 1])
  IN  read

DecodePlayerActions(records) == DecodeTurns(records)[Len(records)].actions

Decode(frame) ==
  IF \/ EncodedBytes(frame) > MaxFrame
     \/ frame.fragment /\ (frame.time # 0 \/ frame.records = <<>>)
     \/ frame.checksum # frame.records
    THEN Malformed
    ELSE DecodePlayerActions(frame.records)

----------------------------------------------------------------------------
SplitInit ==
  /\ actions \in BoundedSeq(PlayerAction, MaxActions)
  /\ index = 1 /\ start = 1 /\ bytes = 0 /\ groups = <<>>
  /\ frames = <<>> /\ phase = "grouping"

SplitNext == TakeAction \/ CloseGroups \/ Encode

SplitSpec == SplitInit /\ [][SplitNext]_splitVars

----------------------------------------------------------------------------
(* The bytes of the first n actions of a group, for each n. *)
BytesOf(group) ==
  LET sum[n \in 0..Len(group)] == IF n = 0 THEN 0 ELSE sum[n - 1] + EncodedLength(group[n])
  IN  sum

SumOf(group) == BytesOf(group)[Len(group)]

(* The variables of the loop keep their types, and the open group is what  *)
(* lies between the groups and the index and has the size that is counted. *)
SplitTypeOK ==
  /\ actions \in Seq(PlayerAction)
  /\ index \in 1..(Len(actions) + 1) /\ start \in 1..index
  /\ groups \in Seq(Seq(PlayerAction))
  /\ phase \in {"grouping", "encoding", "done"}
  /\ phase = "grouping" => bytes = SumOf(SubSeq(actions, start, index - 1))

(* The ways to cut the queue into n groups, by where each ends. *)
Cuts(n) ==
  {ends \in [0..n -> 0..Len(actions)] :
     /\ ends[0] = 0 /\ ends[n] = Len(actions)
     /\ \A i \in 1..n : ends[i - 1] < ends[i]}

Cut(ends, i) == SubSeq(actions, ends[i - 1] + 1, ends[i])

(* There is no way to cut the queue into fewer groups that all fit into    *)
(* frames: every frame takes a place in the bounded channel to each socket *)
(* task.                                                                   *)
Fewest ==
  phase # "grouping" /\ actions # <<>> =>
    \A n \in 1..(Len(groups) - 1) : \A ends \in Cuts(n) :
      \E i \in 1..n : SumOf(Cut(ends, i)) > MaxRecords

(* Nothing is lost, repeated or reordered between the queue, its groups    *)
(* and the frames: an agent accepts every frame and reads back what the    *)
(* players did.  And however many frames a tick takes, its time passes     *)
(* once and with the last of them, when all its actions are there.         *)
AgentsReadTheQueue ==
  /\ SplitTypeOK
  /\ phase # "grouping" => FlattenSeq(groups) = actions
  /\ phase = "done" =>
       /\ \A i \in DOMAIN frames :
            /\ Decode(frames[i]) # Malformed
            /\ frames[i].time = IF i = Len(frames) THEN Increment ELSE 0
       /\ FlattenSeq([i \in DOMAIN frames |-> Decode(frames[i])]) = actions
=============================================================================
