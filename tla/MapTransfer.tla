---------------------------- MODULE MapTransfer ----------------------------
(* The map transfer of a local Warcraft session, handle_map_size and       *)
(* advance_map_transfer of apps/strajer-agent/src/main.rs: Warcraft says   *)
(* whether it has the map; if not, a task loads it, its parts are sent in  *)
(* a window that Warcraft's reports of its progress move on, and three     *)
(* timeouts end a session that gets nowhere.                               *)
(*                                                                         *)
(* Time is counted in steps of Pass, much coarser than the ticks of        *)
(* map_transfer_interval: Advance may run any number of times between two  *)
(* of them.  Warcraft and the agent talk over loopback TCP, whose buffers  *)
(* take a window of parts.                                                 *)
EXTENDS Naturals, Sequences

CONSTANTS
  MapBytes,          \* file_size
  PartBytes,         \* MAP_PART_DATA_BYTES
  WindowParts,       \* MAP_TRANSFER_WINDOW_PARTS
  PreparationLimit,  \* MAP_PREPARATION_TIMEOUT
  StallLimit,        \* MAP_TRANSFER_STALL_TIMEOUT
  TotalLimit,        \* MAP_TRANSFER_TOTAL_TIMEOUT
  MaxReports         \* bound: statuses Warcraft reports on its way to the agent

ASSUME TransferAssumption ==
  /\ MapBytes \in Nat \ {0} /\ PartBytes \in Nat \ {0} /\ WindowParts \in Nat \ {0}
  /\ PreparationLimit \in Nat /\ StallLimit \in Nat /\ TotalLimit \in Nat
  /\ MaxReports \in Nat \ {0}

VARIABLES
  state,      \* MapTransferState
  task,       \* the load of the map
  next,       \* next_offset
  acked,      \* acknowledged_offset
  age,        \* time since the state was entered
  idle,       \* time since the last progress
  ready,      \* times mark_ready was called and LobbyJoined emitted
  failure,    \* why the session failed, "none" while it has not
  parts,      \* the parts on their way to Warcraft, by their ranges
  reports,    \* Warcraft's MAPSIZE frames on their way to the agent
  received,   \* bytes Warcraft has received
  complete,   \* Warcraft has checked a complete map
  honest      \* Warcraft reports nothing that is not so

progressVars == <<state, task, next, acked, age, idle>>
warcraftVars == <<received, complete, honest>>
transferVars == <<progressVars, ready, failure, parts, reports, warcraftVars>>

States == {"awaiting", "preparing", "downloading", "verified"}
Tasks == {"none", "running", "loaded", "failed", "aborted"}
Failures == {"none", "oversize", "flag", "inconsistent", "preparation", "load", "stall",
             "total"}
Limits == {PreparationLimit, StallLimit, TotalLimit}
Longest == CHOOSE n \in Limits : \A m \in Limits : m <= n

(* size_flag: a map of that size is there, the download continues, or a    *)
(* flag the agent does not know.                                           *)
Reports == [flag: {"has", "continues", "other"}, size: 0..(MapBytes + 1)]

Open == failure = "none"

----------------------------------------------------------------------------
(* Warcraft's side. *)

SendReport(r) ==
  /\ Open /\ Len(reports) < MaxReports
  /\ reports' = Append(reports, r)
  /\ UNCHANGED <<progressVars, ready, failure, parts>>

(* The answer to MAPCHECK, which may come again as long as nothing has     *)
(* been received: the whole map, or another or no file.                    *)
ReportStatus ==
  /\ received = 0
  /\ \/ complete /\ SendReport([flag |-> "has", size |-> MapBytes])
     \/ ~complete /\ \E n \in 0..(MapBytes - 1) : SendReport([flag |-> "has", size |-> n])
  /\ UNCHANGED warcraftVars

ReportProgress ==
  /\ received > 0 /\ ~complete
  /\ SendReport([flag |-> "continues", size |-> received])
  /\ UNCHANGED warcraftVars

ReportAnything ==
  /\ ~honest
  /\ \E r \in Reports : SendReport(r)
  /\ UNCHANGED warcraftVars

ReceivePart ==
  /\ Open /\ parts # <<>>
  /\ received' = Head(parts).end
  /\ parts' = Tail(parts)
  /\ UNCHANGED <<progressVars, ready, failure, reports, complete, honest>>

(* The whole map was received and checked, or the user copied it there. *)
CompleteMap ==
  /\ ~complete /\ (received = MapBytes \/ received = 0)
  /\ complete' = TRUE
  /\ SendReport([flag |-> "has", size |-> MapBytes])
  /\ UNCHANGED <<received, honest>>

----------------------------------------------------------------------------
(* handle_map_size *)

Fail(why) ==
  /\ failure' = why
  /\ UNCHANGED <<progressVars, ready>>

(* preparing.task.abort() *)
Aborted == IF state = "preparing" /\ task = "running" THEN "aborted" ELSE task

BecomesReady == IF state = "verified" THEN 0 ELSE 1

Verify ==
  /\ state' = "verified"
  /\ task' = Aborted
  /\ ready' = ready + BecomesReady
  /\ UNCHANGED <<next, acked, age, idle, failure>>

StartDownload ==
  /\ state' = "preparing" /\ task' = "running"
  /\ age' = 0
  /\ UNCHANGED <<next, acked, idle, ready, failure>>

(* ActiveMapTransfer::acknowledge ignores an offset that is not newer. *)
Acknowledge(r) ==
  /\ IF r.flag = "continues" /\ r.size > acked
     THEN acked' = r.size /\ idle' = 0
     ELSE UNCHANGED <<acked, idle>>
  /\ UNCHANGED <<state, task, next, age, ready, failure>>

(* A report that the map is missing.  One that comes while the map is      *)
(* being loaded changes nothing.                                           *)
Answer(r) ==
  \/ state = "awaiting" /\ StartDownload
  \/ state = "preparing" /\ UNCHANGED <<progressVars, ready, failure>>
  \/ state = "downloading" /\ Acknowledge(r)
  \/ state = "verified" /\ Fail("inconsistent")

WrongWhole(r) == r.flag = "has" /\ r.size = MapBytes /\ state # "verified"
Whole(r) == r.flag = "has" /\ r.size = MapBytes

HandleMapSize ==
  LET r == Head(reports) IN
  /\ Open /\ reports # <<>>
  /\ reports' = Tail(reports)
  /\ \/ Whole(r) /\ Verify
     \/ r.size > MapBytes /\ Fail("oversize")
     \/ r.size <= MapBytes /\ r.flag = "other" /\ Fail("flag")
     \/ ~Whole(r) /\ r.size <= MapBytes /\ r.flag # "other" /\ Answer(r)
  /\ UNCHANGED <<parts, warcraftVars>>

----------------------------------------------------------------------------
(* advance_map_transfer *)

LoadEnds ==
  /\ task = "running"
  /\ task' \in {"loaded", "failed"}
  /\ UNCHANGED <<state, next, acked, age, idle, ready, failure, parts, reports,
                 warcraftVars>>

Least(m, n) == IF m < n THEN m ELSE n

Window == WindowParts * PartBytes

WrongWindowEnd(n, a) == Least(MapBytes, n + Window)

(* The end of the window, given next_offset and acknowledged_offset. *)
WindowEnd(n, a) == Least(MapBytes, a + Window)

(* The i-th part from offset n; the last one of the map may be short. *)
Part(n, i) ==
  [start |-> n + (i - 1) * PartBytes, end |-> Least(MapBytes, n + i * PartBytes)]

(* pending_frames, and write_frames of what it returns: parts that start   *)
(* before the end of the window.                                           *)
SendWindow(n, a) ==
  LET end == WindowEnd(n, a)
      count == IF n < end THEN (end - n + PartBytes - 1) \div PartBytes ELSE 0
  IN  /\ parts' = parts \o [i \in 1..count |-> Part(n, i)]
      /\ next' = IF count = 0 THEN n ELSE Part(n, count).end

Sends == state = "downloading"

Download ==
  /\ Sends
  /\ \/ /\ age <= TotalLimit /\ idle <= StallLimit
        /\ SendWindow(next, acked)
        /\ UNCHANGED <<state, task, acked, age, idle, ready, failure>>
     \/ age > TotalLimit /\ Fail("total") /\ UNCHANGED parts
     \/ age <= TotalLimit /\ idle > StallLimit /\ Fail("stall") /\ UNCHANGED parts

WrongTimedOut == task = "loaded" /\ age > PreparationLimit
TimedOut == age > PreparationLimit

Prepare ==
  /\ state = "preparing"
  /\ \/ TimedOut /\ Fail("preparation") /\ UNCHANGED parts
     \/ ~TimedOut /\ task = "failed" /\ Fail("load") /\ UNCHANGED parts
     \/ /\ ~TimedOut /\ task = "loaded"
        /\ state' = "downloading" /\ task' = "none"
        /\ SendWindow(0, 0)
        /\ acked' = 0 /\ age' = 0 /\ idle' = 0
        /\ UNCHANGED <<ready, failure>>

Advance ==
  /\ Open
  /\ Prepare \/ Download
  /\ UNCHANGED <<reports, warcraftVars>>

Older(n) == IF n > Longest THEN n ELSE n + 1

(* Clocks matter while something is timed, up to just over the limits. *)
Pass ==
  /\ Open /\ state \in {"preparing", "downloading"}
  /\ age' = Older(age) /\ idle' = Older(idle)
  /\ UNCHANGED <<state, task, next, acked, ready, failure, parts, reports, warcraftVars>>

----------------------------------------------------------------------------
TransferInit ==
  /\ state = "awaiting" /\ task = "none" /\ next = 0 /\ acked = 0
  /\ age = 0 /\ idle = 0 /\ ready = 0 /\ failure = "none"
  /\ parts = <<>> /\ reports = <<>> /\ received = 0 /\ complete \in BOOLEAN
  /\ honest \in BOOLEAN

WarcraftStep ==
  ReportStatus \/ ReportProgress \/ ReportAnything \/ ReceivePart \/ CompleteMap

TransferNext == WarcraftStep \/ HandleMapSize \/ LoadEnds \/ Advance \/ Pass

TransferSpec == TransferInit /\ [][TransferNext]_transferVars

----------------------------------------------------------------------------
(* Every variable of the transfer keeps its type; a session becomes ready  *)
(* once at most.                                                           *)
TransferTypeOK ==
  /\ state \in States /\ task \in Tasks
  /\ next \in 0..MapBytes /\ acked \in 0..MapBytes
  /\ age \in 0..(Longest + 1) /\ idle \in 0..(Longest + 1)
  /\ ready \in 0..1 /\ failure \in Failures
  /\ parts \in Seq([start: 0..MapBytes, end: 0..MapBytes]) /\ reports \in Seq(Reports)
  /\ received \in 0..MapBytes /\ {complete, honest} \subseteq BOOLEAN

(* Warcraft receives every byte once and in order, whatever it reports in  *)
(* the meantime: the parts on their way follow what it has without a gap,  *)
(* none is empty, and the transfer goes on after the last of them.  And    *)
(* `ferestre de maximum 100 x 1.442 bytes, avansate de confirmarile        *)
(* MAPSIZE': never more than a window is sent beyond what was confirmed by *)
(* an honest Warcraft, and no whole part beyond it whatever is confirmed.  *)
PartsInOrder ==
  /\ TransferTypeOK
  /\ \A i \in DOMAIN parts :
       /\ parts[i].start = IF i = 1 THEN received ELSE parts[i - 1].end
       /\ parts[i].end - parts[i].start \in 1..PartBytes
  /\ state = "downloading" =>
       next = IF parts = <<>> THEN received ELSE parts[Len(parts)].end
  /\ next < acked + Window + PartBytes
  /\ honest => next <= acked + Window

(* No order of reports, loads and ticks makes the agent reject a Warcraft  *)
(* that keeps to the protocol: it fails by a timeout or by the load only.  *)
(* And the room is told that its player is ready once at most, only when   *)
(* Warcraft has the map, and with no load left running for the session.    *)
HonestWarcraftGetsReady ==
  /\ honest => failure \notin {"oversize", "flag", "inconsistent"}
  /\ ready = 1 <=> state = "verified"
  /\ ready = 1 => (honest => complete) /\ task # "running"

(* A transfer that was begun ends, however silent Warcraft or the load may *)
(* be: Warcraft has the map, or the session fails.  So again and again no  *)
(* transfer is under way.                                                  *)
TransferEnds == []<>(state \in {"awaiting", "verified"} \/ ~Open)
=============================================================================
