# Strajer: formal models

Strajer lets the players of an unmodified Warcraft III play a LAN game over the
Internet.  A coordinator (`src/apps/strajer-server`) keeps one authoritative
room per lobby; an agent on every player's machine (`src/apps/strajer-agent`)
advertises the lobbies to the local Warcraft, speaks W3GS with it over loopback
TCP and follows the room over a WebSocket; a macOS menu bar application
(`src/apps/strajer-macos`) keeps the agent running and prepares Warcraft.

This directory holds TLA+ models of those parts, the configurations under which
TLC checks them, and TLAPS proofs.  Definitions are translated from the source;
`PROJECT.json` maps each of them to the lines it stands for.

    tlc -workers 2 -config MCLobby.cfg MCLobby.tla     # any run of PROJECT.json
    tlapm LobbyProofs.tla                              # any module with theorems

## 1. Inventory

| Component | State it keeps | Operations | Interacts by | What is hard | What makes it correct |
|---|---|---|---|---|---|
| Lobby room, `strajer-server/src/lobby.rs` | roster with revision, session ids, countdown, phase flags, gameplay generation and sequence, queued actions, checksums | join, leave, disconnect, ready, request start, chat, loaded, submit game message, countdown tick, gameplay tick, last-player timer, end game | one mutex; a broadcast channel to all socket tasks; spawned tasks that take the mutex again | ids reused at once; cancelled tasks that wake later; decisions carried out after the lock was released; updates sent after it was released | seats match sockets, one task per countdown and per game, a game starts clean, ends once, is the game that was meant; frames are contiguous |
| Socket task, `http.rs` `serve_lobby_socket`, `run_connected_lobby_socket` | receiver, membership, whether it left | handshake, select over updates, agent messages, heartbeat; lag recovery; cleanup; the map endpoint | calls the room; sends to the agent | lag, refused calls, half-open connections, an end that races messages | an agent that has caught up knows the room; a seat is freed in time; what is said arrives as it was said |
| Agent: remote session, `remote_lobby.rs`, `main.rs` `run_lobby_session` | revision, roster, phase, sequence | connect, validate and apply updates, send requests | WebSocket; the local session | updates older than what it knows, timeouts of both ends | never gives up on what the room said in order |
| Agent: local Warcraft session, `main.rs` | what Warcraft was told, map transfer, frame reader | accept a join, read frames, pass on what is said and done, introduce and remove players, map window, pings | loopback TCP | reads dropped by `select!`, ids that stand for somebody new, three timeouts, limits that differ from hop to hop | Warcraft sees exactly the room; the map arrives whole, in the window |
| Agent: map cache, `local_map.rs` | `OnceCell`, cache file, temporary files | installed, cached, download, verify, rename, remove | files, HTTP | aborted tasks, several lobbies of one map, reused process ids | nothing but the verified map is used; loads end |
| Agent: catalogue loop, `main.rs`, `strajer-lan` | active catalogue, listeners, advertisements | fetch, bind, publish, refresh, exit, accept | HTTP, Bonjour, ports | outages, ports taken on the other address, failure half-way, ports that come to another lobby | what is listed can be joined, and nobody gets into another game; the list follows the catalogue |
| W3GS codecs, `crates/strajer-w3gs` | none (the reader has a buffer per read) | encode, decode, split actions into frames | called by agent and server | boundaries of frame sizes | what is decoded is what was queued |
| Supervisor, `AgentController.swift`, `AgentRuntimeSupport.swift` | process, retry and network tasks, status, menu | start, stop, restart, retry, network change, end of process, output line | main actor tasks, pipes, `NWPathMonitor` | everything arrives in any order, also for a process that is gone | one agent; a wanted agent comes back; the menu is true |
| Warcraft compatibility, `WarcraftCompatibilityController.swift`, `NicknameController.swift` | override, backup, nickname file, status | evaluate, patch, compare, install, retry | files, the running Warcraft | cancelled evaluations that still answer; being killed half-way | a settled status is true; the user's file survives |
| Protocol types, `crates/strajer-protocol` | none | types, validation, limits | serialised messages | limits of the hops that disagree | what one hop accepts the next does not refuse |
| Server state, configuration, map asset | configuration, table of maps; the file under it | load, verify, stream, readiness, shutdown | read by handlers and the container | a file that changes after it was verified; restarts under other maps | agents keep nothing but the map, and come to have it |

Interleaving is the difficulty everywhere: the server's tasks around one mutex,
the agent's `select!` loops, the application's main actor.  The hazards found,
each with its line and the properties that watch it, are in `PROJECT.json`.

## 2. Modules

| Module | Models | State and actions in the code |
|---|---|---|
| `Lobby` | the room and every task it spawns | One action is one critical section of the mutex. `MarkReady`, `RequestManualStart`, `MarkLoaded`, `SubmitAction`... are the methods; `CountdownTick`, `GameplayTick`, `LastPlayerTimer`, `EndGame` are the woken tasks, kept as sets of generations. What happens after the lock is released (`unsent`, `endings`) is an action of its own. |
| `LobbyProperties`, `LobbyInvariant` | its safety, action and liveness properties; the inductive invariant | |
| `Match`, `LobbyMatch` | abstract specification of a match (phase and seats only) and the refinement mapping from the room | `Phase` is that of `control_snapshot` |
| `ChecksumRounds` | the rounds of checksums within a game, with queues that fill | one action per keepalive that is taken or refused and per departure; `Consumes` is the loop of `consume_checksum_consensus` |
| `Relay` | what a player says and does, from one Warcraft over agent, room and agent to the others | one queue into the room and one out of it per player; texts by the lengths and kinds that some hop looks at; one predicate per hop's limit |
| `LobbyDelivery`, `LobbyDeliveryProperties` | the room with socket tasks, bounded receivers and agents | composes `Lobby`: a link per player holds receiver, socket stage and what the agent knows. Asking and calling the room is one step; updates in the receiver lag behind by any amount |
| `LobbyConnection` | handshake, heartbeat and watchdog of both ends under network faults | one end per `select!` loop, time in units of 5 s |
| `AgentRoster` | the frames by which Warcraft learns of other players | rosters with names, so that an id may come to stand for somebody else; `Show` is the match in `run_lobby_session`; loading and the ticks of the game are in it, so that what is told of them has an order |
| `FrameReader` | `read_next` under TCP fragmentation: the join frame under its timeout, then the frames of the session under `select!` | bytes known by frame and place; `JoinTimesOut` is `JOIN_FRAME_TIMEOUT`, `DropRead` another branch that completes first |
| `ActionFrames` | splitting, encoding and decoding of queued actions | one step per turn of the loop over the actions |
| `MapTransfer` | the MAPSIZE dialogue, the window and the three timeouts | `HandleMapSize` and `Advance` are the two handlers |
| `MapCache` | the loads of a map | one action per await |
| `AgentCatalog` | catalogue loop, port search, publication, joins | one action per await of `main`, `activate_lobby`, `bind_lobby_listeners`; `PickLobby` and `Join` are Warcraft's list and `serve_join_connection` |
| `MapService` | configuration, start, readiness, map endpoint and end of the server; the operator with the file; the agents that ask | one action per request and per block of a stream; files by inode, so that replacing one and overwriting it differ |
| `AgentSupervisor`, `AgentSupervisorProperties` | the supervisor and the agents' lives and output | one action per main actor handler |
| `WarcraftCompatibility` | evaluations, override, nickname | one action per main actor job, in the order of its queue |
| `MCLobby`, `MCLobbyDelivery`, `MCLobbyConnection`, `MCSupervisor`, `MCWarcraft`, `MCCatalog` | instances for TLC | |
| `LobbyProofs`, `SupervisorProofs`, `CompatibilityProofs`, `ConnectionProofs`, `CatalogProofs`, `FramesProofs`, `MapProofs`, `DeliveryProofs` | proofs | one module of theorems per component; `CatalogProofs` has two components (catalogue and map service), `FramesProofs` four (relay, checksum rounds, roster, action frames) and `MapProofs` three (transfer, cache, reader); `DeliveryProofs` builds on `LobbyProofs` |

An operator named `Wrong...` is a slip the code could contain in place of the
definition after it.  No behaviour uses it; put in that definition's place it
shows which property notices the slip.

`MCWarcraft` and `MCCatalog` put components that share no state side by side: a
behaviour takes the steps of one of them (`component`), so one run checks each
exactly as a run of its own would.  `MCWarcraft` extends `ActionFrames`, `Relay`,
`ChecksumRounds`, `AgentRoster`, `MapTransfer`, `MapCache` and `FrameReader`, and
`MCCatalog` extends `AgentCatalog` and `MapService`, so that the runs check the very definitions the theorems are about
(which is why the actions and specifications of these modules carry names such
as `ServiceNext` and `SplitNext`).

## 3. Runs, bounds, and what they show

All runs exhaust their state space.  `CHECK_DEADLOCK FALSE` stands where a bound
on sessions, launches, frames, reports or edits runs out and the model then
really stops; `LobbyConnection` never stops and is checked for deadlock.

| Run | Bounds | Shows |
|---|---|---|
| `lobby` | 3 seats and names, 4 sessions, 2 countdown steps, 1 game message each, queue of 2, 2 frames; names symmetric | The inductive invariant (which contains the safety properties of `LobbyProperties`: seats match sockets, a full lobby counts, nothing is pending of somebody gone) in every interleaving, and that the room implements `Match`. Four sessions suffice for an id to be reused, a room to empty and a second match to meet tasks of the first; the safety part is proved without any bound (section 5). |
| `delivery` | 2 players, chat, 2 checksums, channel of 3 | A caught-up agent knows the room; no session that never lagged gives up. A channel of 3 both lags (a join, a ready, a start and a load exceed it) and, in other behaviours, does not. |
| `delivery_live` | 3 sessions, channel of 2, no chat or game messages | With a third session that asks while two others are seated or that follows them: a countdown ends, a game with one player left ends, a game that ended empties its room and the room opens again. |
| `connection` | 2 sockets of one player, 1 cut (one direction or both, healed per direction) or power loss, 1 departure; intervals 2 and 3, limits 7 and 9, handshake limit 1 (units of 5 s: 10 s, 15 s, 35 s, 45 s, 5 s) | A healthy session is never closed, a member has the only seat, a seat is freed within limit plus interval, a player who keeps trying gets in again. Two sockets suffice: the new one and the one whose seat is in its way. |
| `supervisor` | a behaviour chooses 3 launches and 3 path changes, or 2 launches and one connection, or 1 launch and two connections, the latter two without path changes | One agent, a wanted agent is never stranded and comes back, nothing starts after stop; status and menu are true unless a line of an agent that is gone changed them since they were last reset. Three launches: an old one, its replacement and a retry that raced it; two launches and a connection make lines of an agent that is gone. |
| `compatibility` | 2 launches, evaluations and edits at any step, 1 failure, 1 death, three kinds of WebUI, one nickname beside none | A settled status is true, the newest nickname is written, the user's first file survives, evaluations settle. Two evaluations: the newer one and the one it cancelled. |
| `warcraft` | actions: queues of up to 3, of 3 to 8 bytes where a frame takes 10. Rounds: 3 players, 2 checksums, queues of 2, 3 rounds. Relay: 2 players who each say one thing, texts at the limits of the code and one beyond, actions of 0, 1449 and 1450 bytes. Roster: 2 others under 3 ids, 5 revisions, 1 chat, 1 tick, channel of 2. Transfer: 7 bytes in parts of 2 and windows of 2 parts; limits 1, 1 and 2; 1 report under way. Cache: 2 lobbies, 1 session, 1 process id, 1 restart, 1 damage. Reader: 3 frames of lengths 2 to 4, the join frame's limit 3 | The split is lossless, accepted by the decoder and the smallest; a desync is found when there is one and a full queue has a laggard; what is said arrives and only who said it pays for a refusal; no frame misleads Warcraft and a caught-up agent shows it the room; parts in order and in the window (7 is no multiple of the part and more than one window), ready only with the map; transfers and loads end, downloads keep their files; until a read is dropped with bytes, frames are read as they were written, from the join frame into the session. Sizes reach each limit exactly, by one less and by one more; five revisions let an id be freed and taken by somebody else while the agent lags. |
| `catalog` | 3 ports, 2 bind attempts, 2 changes, 1 outage, 1 failure, 1 takeover, 1 join; 2 maps of 2 blocks, 2 spellings, 2 tokens, 2 files, 1 agent, 2 starts, 2 changes by the operator | What is listed can be joined and the list follows the catalogue; what an agent keeps is the map of its catalogue and, of a server that stays up with an untouched file, it comes to have it. Two changes make a port stand for another lobby; two starts and two changes let a stream that began under one map go on under another. |
| `delivery_recovery` | as `delivery` | violated: finding 1 |
| `frame_reader_select` | 2 frames of length 2, 3 and 4 | violated: finding 2 |
| `game_over` | 2 players, one message each, a channel that never lags | violated: finding 3 |
| `stale_lobby` | as `supervisor` | violated: finding 4 |

### Fairness

Only what the code's scheduling gives is assumed, and nothing of clients or
users unless said.

* Room (`delivery_live`): tokio runs a countdown task, a last-player timer and
  the end it decided (`WF` on each), and socket tasks read their updates and
  close.  None for clients, and none for the gameplay loop, whose frames nobody
  waits for.
* `connection`: both ends run their loops, time passes, the player tries again.
* `supervisor`: the main actor runs what is due, sleeps end, an agent that was
  told to terminate does.
* `compatibility`: the main actor runs its jobs; asking Warcraft ends.
* `warcraft`, of the transfer and the cache: the interval of the session ticks,
  its frames are read, time passes; a request for the map ends (the HTTP client
  has a timeout).  Of its other components nothing is assumed.
* `catalog`: the supervisor starts the agent, the agent runs, outages end; and
  strongly, for every lobby a port free on both addresses is picked some time
  (the system picks ports at random).  An agent asks for the catalogue every 30
  seconds and reads what it is sent; and, of the environment, a player whose map
  did not come tries again.  Nothing is assumed of the server or the operator:
  that the server stays up is the premise of `MapsArrive`.

`lobby` and `delivery` check no liveness and assume no fairness.

### Assumptions

| Where | Assumption |
|---|---|
| `Lobby`, `PromptEnd = TRUE` | A task that decided to end a game gets the lock again before a countdown tick of 10 s passes. Without it `end_game`, which looks at no generation, could end a later game; the theorem says so explicitly. |
| `LobbyConnection` | Each end asks more often than it may be left unanswered, and a join may take some time (`ConnectionAssumption`). What is sent arrives within a unit unless the direction is cut; a player rests a unit between joins; updates count as activity like pings, and are left out. |
| `AgentRoster` | A socket task sends the update of a call before it reads its next message, as its code does. |
| `MapCache` | A session plays in a lobby, so there are none without lobbies. |
| `FrameReader` | A frame is at least as long as its header. A session takes no frame over its limit, as that is the largest length a header can declare (`main.rs:44`). |
| `WarcraftCompatibility` | `StatusIsTrue` excepts a WebUI that was not served in time (`overdue`) and overrides the user changed. Warcraft shows what it loaded at its launch. An evaluation makes at least one attempt (`CompatibilityAssumption`). |
| `MapTransfer` | The loopback socket's buffers take a window of parts, so writing does not block. |
| `AgentCatalog` | `MaxForeign`: not every port is taken by other programs. A catalogue names a game once, which `LobbyCatalog::validate` checks on both sides. |
| `Relay` | `RelayAssumption` states how the limits must fit one another; `MCWarcraft` gives the constants the values of the code, where TLC evaluates it, and the part about rosters again for the 23 players of the largest map (`FullRosterFits`). Nobody lags (`AgentsConverge` is about that). |
| `ActionFrames` | `SplitAssumption`: an action fits into a group, a full group into a frame, a length into two bytes, and no player has the id 0. |
| `ChecksumRounds` | Two Warcrafts whose games have diverged send different checksums from then on. |
| `MapService` | Blocks of different maps differ, so that a hash tells them apart. The operator does not write into a file that was moved away. |

## 4. Where code and documents differ

Four runs show a difference as a counterexample.

1. `delivery_recovery` (`http.rs:352`): a session that lagged is sent the
   current snapshot and then the older updates the channel retained; one of them
   does not fit the snapshot and the agent gives up.  `docs/production-review.md:24-25`
   promises `snapshot pentru recuperarea update-urilor pierdute`.
2. `frame_reader_select` (`strajer-agent/src/main.rs:742`): `read_next` is a
   branch of `tokio::select!` and is dropped with the bytes it has taken; the
   next read takes the middle of a frame for a header.  `docs/join-plan.md:221`:
   `FrameReader tratează corect fragmentarea și coalescing-ul TCP`.
3. `game_over` (`http.rs:282`): a game message that was on its way when the game
   ended is refused (`lobby.rs:252`, `:281`), and the refusal ends the socket
   task before the end of the game that waits in its receiver is sent; the last
   Warcraft sees a lost connection.  `docs/private-beta-runbook.md:81-82`:
   `celalalt Mac trebuie sa primeasca leave-ul si inchiderea determinista`; see
   also `docs/join-plan.md:397-398`.
4. `stale_lobby` (`AgentController.swift:241`): each piece of output and each end
   is a main actor task of its own (`:235-260`); nothing orders them, and a piece
   of output does not say which agent printed it.  A line that was read before an agent ended may be handled after
   its end, or after the next launch, and the menu shows a session that the agent
   that runs does not have.  `docs/development-plan.md:156-157`: `un task vechi
   nu poate lasa sau sterge o stare falsa in menu bar`.  The history variable
   `stale` records that this happened; `ShownIsTrue` says that nothing else makes
   the display false, and that each launch, restart, loss of the network and
   end makes it true again.

Others were met while modelling and are modelled as the code has them:

* A join subscribes before it waits for the lock (`lobby.rs:126`), so a new
  session may be sent a chat or departure from before it joined and gives up
  (`main.rs:839`); `SteadySessionsFollow` excepts such sessions (`early`).  If it
  lags as well, it may read the start of a game that was over before it joined
  and lose the departure that emptied that room, on which it would have given
  up: the snapshot of a waiting room (`http.rs:352`) takes no start back, and the
  agent stays in a game that is not there.  `AgentsConverge` excepts sessions
  that are both.
* `PlayerLoaded` is also sent to the session that caused it (`lobby.rs:233`),
  against `docs/architecture.md:50-52`; `docs/protocol-sources.md` describes the
  echo as Warcraft's own protocol, and `NeverMisled` relies on it: Warcraft waits
  until it was told that all have loaded, itself included.
* The map is verified when the server starts and never again
  (`docs/join-plan.md:131-133` says so too), while every download opens the file
  anew; `/readyz` looks at the table of the start only.  A file changed later
  makes downloads fail at the agents' check until the server is started again:
  the history variable `touched` excuses exactly these failures.
* `created_at_unix_seconds` is the time at which the server started
  (`state.rs:34`), and agents compare whole catalogue entries (`main.rs:406`): a
  restart of the server that changes nothing restarts every agent and discards
  the map in its memory.  `MapService` has it as `era`.
* 64 checksums are kept per player (`lobby.rs:286`), 6.4 s of ticks of 100 ms,
  while a silent agent is closed after 45 to 60 s: a player who hangs for longer
  than 6.4 s disconnects those who play on.  `VerdictsAreJust` states that a
  refusal for a full queue needs such a laggard, or one who left since.
* Recovery after a network change shows Unavailable and Connecting, never
  Reconnecting (`AgentController.swift:471`), against
  `docs/private-beta-runbook.md:86-87`.
* Both watchdogs look only when a heartbeat is due, up to one interval late
  (`http.rs:292`, `remote_lobby.rs:259`); `docs/validation-m0.md:37-38` gives
  35 s and 45 s. `SeatsAreFreed` states limit plus interval.
* An unknown override made while an evaluation waits for Warcraft is overwritten
  (`WarcraftCompatibilityController.swift:146`, `:164`), against
  `docs/architecture.md:75-77`: nothing looks for it again before the write.  The
  model lets the user edit at any step, so the other properties hold in spite of
  it; no property says that such a file survives, since it does not.
* A WebUI not served in time is shown as restart required (`:210`), against
  `docs/install-macos.md:46-48`; hence `overdue` in `StatusIsTrue`.

## 5. What is proved

TLAPS proves, for every capacity, number of steps, limit and set of names,
messages and checksums:

* `LobbyProofs!TypeCorrect`: every variable of the room keeps its type.
* `LobbyProofs!InductiveHolds`: `Spec => []Inductive`, and from it `SeatsSafe`,
  `RevisionsSafe`, `CountdownSafe`, `ReadinessSafe`, `PhasesSafe`,
  `LoadingSafe`, `LoopsSafe`, `TimersSafe`, `StreamSafe`, `DesyncSafe`;
  `EndingsSafe` proves the action property `EndsTheGameItMeant` under `PromptEnd`.
* `LobbyProofs!FramesNumbered`: the action property `FramesAreContiguous`.
* `LobbyProofs!MatchImplemented`: the room implements `Match`.
* `DeliveryProofs`: `RoomUnderSessions` (the room under socket tasks and agents
  is still the room, so that all of the above holds of it), `SessionsHold` (the
  inductive invariant), `AgentsConvergeAlways` and `SteadySessionsFollowAlways`,
  for every number of players, sessions and updates and every capacity of the
  channel.
* `ConnectionProofs`: `HealthyStaysAlways`, `MembersHaveSeatsAlways`,
  `SeatsAreFreedAlways`, for any number of sockets, cuts and power losses, all
  intervals and all limits above them.
* `FramesProofs`: `NeverMisledAlways`, `WarcraftSeesTheRoomAlways`, for every
  number of players, ids, revisions, ticks and every capacity of the channel.
* `MapProofs`: `PartsInOrderAlways` and `HonestWarcraftGetsReadyAlways`, for all
  sizes of maps, parts and windows and all limits of time;
  `DownloadsKeepTheirFilesAlways`, for every number of lobbies, sessions, agents
  and process ids; `ReadsInStepAlways`, for all frames, lengths and limits.
* `FramesProofs!VerdictsHold`: `VerdictsAreJust`, for every number of players,
  checksums, rounds and every capacity.
* `FramesProofs!RelayHolds`: `RelaysFaithfully`, for all texts, all actions (the
  empty one too, which `game.rs` accepts and relays) and all
  limits that fit one another (`RelayAssumption`).
* `FramesProofs!SplitHolds` (the inductive invariant), `AgentsReadAlways` and
  `FewestAlways`: `AgentsReadTheQueue` and `Fewest`, for every queue of actions
  and all limits that fit one another (`SplitAssumption`).
* `CatalogProofs!DownloadsHold`: `DownloadsAreHonest`, for every number of
  agents, maps, blocks, files, tokens and changes.
* `CatalogProofs!AdsHold`: `AdsCanBeJoined`, for all catalogues, ports and bounds.
* `SupervisorProofs`: `SupervisorTyped`, `OneAgentSafe`, `NeverStrandedSafe`,
  the action property `StopSafe` and `ShownIsTrueAlways`, for every number of
  launches, connections, failures and network changes and every order in which
  lines and ends are handled.
* `CompatibilityProofs`: `StatusIsTrueAlways`, `NicknameReachesAlways` and
  `FilesAreTheirsAlways`, for every number of launches, evaluations, edits,
  failures and deaths.

The argument for the room (`LobbyInvariant`).  None of the properties carries
over a step alone; the invariant groups them with what they lean on.

* `SeatsInv`: sockets and seats match one to one, and session ids only grow, so
  the late cleanup of a closed socket never matches the new holder of its id.
* `CountdownInv`: a task acts only if its generation is the room's, and none is
  ahead of it, so restarting a countdown retires every earlier task; while it
  counts, everybody present is ready.
* `PhaseInv`: the flags nest; nobody is loaded before the start, so loading
  cannot be complete by what is left of the last match.
* `TimersInv`: a timer of the present generation is about a started game; under
  `PromptEnd` a decided end is about the present game or finds none to end.
* `StreamInv`: nothing is queued outside a game and nothing by somebody gone.
* `DesyncInv`: a session that still has to report a desync keeps its seat and so
  keeps the room from being reset.

One lemma per group and operation; `StepSafe` puts them together by the
disjuncts of `Next`.  The refinement needs besides (`MatchInv`) that no session
holds two seats and that an idle room shows no countdown; each operation then
maps to a step of `Match` or a stutter.

Frames are numbered without gap because tick and flush share one counter, and
because what a step leaves to be sent after the lock is never a frame (`UnsentInv`).

The delivery (`DeliveryInv`).  Nothing can be said of a queue as such: an update is
in order or not for the agent that reads it.  So the invariant follows the agent
over what waits for it (`Follows`): while it accepts what it reads, and it accepts
everything if its session is steady, it comes to know the room (`Knows`).
Knowing the room is knowing its roster, or a roster that is overtaken by one on its
way (`LatestComes`), and how far its game is.  Three things keep that up:

* Whatever a step of the room tells fits everyone who knew the room before it and
  leaves them knowing the room after it (`LinksGoOn`): one lemma per operation
  of the room, and one, `RunGoesOn`, that appends what is told to the queue.
* A channel that is full drops only together with the mark that the receiver
  lagged, and such a session is promised nothing until its snapshot.
* A snapshot is taken under the lock, so its agent has what the room has now
  (`HasNow`), and nothing that still waits is news to it.

A joining session may have updates of before its join in its receiver.  Either it
reads of the departure that emptied that room (`TellsOfEmptyRoom`) and gives up, or
they are of no game that is over (`WaitsFor`); which session is told of its own
seat rests on sessions having one socket each (`SessionsInv`).

What an agent passes on fits the room, what the room publishes fits every hop
on its way to the others (`Sound`), and what a Warcraft was told stays true
(`Stays`): the invariant of the relay's proof says so of each message in each queue.
Truth of a message is kept because agents only add to what they passed on, and
nothing after their end (`Stable`); a reason to leave cannot be replaced by
`disconnect`, since who gave it has it last in the queue (`ReasonsPending`).

The frames of a tick (`SplitInv`).  The groups end where a function `ends' says,
the open group begins after the last of them and has the bytes that are counted,
and every group fits and would not with the action after it.  From this:

* What the decoder has read after k turns are the first k actions, and it stands
  at the end of the k-th record (`ReadUpTo`): it refuses none of them, and a
  group is what is read from its records (`DecodesRecords`).  As consecutive
  pieces of the queue put together are the queue (`FlattenPieces`), nothing is
  lost, repeated or reordered.
* In any other way to cut the queue into groups that fit, the k-th ends no later
  than the code's k-th (`GreedyStaysAhead`); so it has as many groups at least.

Both are inductions, over the turns and over the groups, and the definitions they
are about are recursive: sums, the records put together, the loop of the
decoder.  The library's induction principles take a predicate, which the
provers cannot instantiate.  `Induction` has a set in its place and rests on < being
well-founded on the numbers (`NatLessThanWellFounded`, `WFMin`); from it
`Recursion` gets that a function exists which does what such a definition
says, which is what its defining equation needs.  With these a roster of
names that are allowed is proved to fit a control message as well (`RosterFits`),
from the size of a message and the number of players.

The verdicts of the rounds lean on the alignment of the queues: what a present player has
reported is what was consumed followed by what is queued (`RoundsAligned`), and
what was consumed without a verdict agreed (`InStepSoFar`).

A failed download has its cause because, while the server runs, its table has
the map of its build (`TableOfBuild`), its file is that map unless it was touched
(`FileOfBuild`), and what was streamed of an untouched file is a piece of that
map (`StreamsOfBuild`, `PiecesOfMap`).  An advertisement can be joined because a
port that was bound stays free of others until it is published (`BoundIsFree`)
and all advertisements are of one catalogue (`OneCatalog`), in which a game is
one lobby: so a listing whose task has ended cannot lead to somebody else.

The supervisor's invariant (`SupervisorInv`): types; only the newest agent lives
(`LivingInv`), and none does while a launch is due; a retry sleeps only while
none is supervised, and no task survives a stop (`TasksInv`); and a first path
update cannot bring back a network that was never lost (`AvailableInv`).

What the menu shows (`ShownInv`) follows from where each session of the newest
agent is: unless a line of an agent that is gone came in between (`stale`), the
lines still to be read lead from what is shown to it.  Every handler that starts
over resets the display and `stale` with it, which is why the rest needs no
order of lines and ends.

The connection (`ConnectionInv`): what is on the wire of a socket explains what
each end believes of the other.  An agent that thinks it is a member has a seat
or the word that it lost it is on its way (`SeatOfMember`); who says that it closes
has closed (`ClosesAreMeant`); and an end whose other end is gone is about to be
told so, while nothing is lost (`EndsAreTold`).  While
the network is whole an answer is under way or has come (`AnswersCome`), which
keeps every age below its limit.  A seat whose agent is gone hears nothing new,
so it has been left no longer than it has been silent (`OrphanIsYoung`), which is
less than the limit and one interval, the time between two looks of the watchdog
(`BeatsInTime`).

The roster (`RosterInv`): every roster an agent has, will read or will be sent is
the room's of that revision, so there is one per revision; the newest is at the
agent, in its queue or unsent, unless the receiver lagged (`ComesInv`).  What
Warcraft was told are exactly the players of the roster the agent has.  The
roster of a departure follows directly on one that the agent has or reads first
(`ChainInv`), and its player is in no later one (`LeftInv`); a frame of the game
comes after everybody the agent knows has loaded or left (`FrameInv`).

The map (`TransferInv`, `CacheInv`, `ReaderInv`): parts chain, each begins where the
last ended, and ends are multiples of the part or the end of the map, which
makes the window exact; names of temporary files are those of one load in one
process; the bytes of a stream are in order from the first frame not yet read to
the last, and end inside one only if the stream was cut.

The compatibility's invariant (`CompatibilityInv`): what is said of a Warcraft is
about the one that runs, or an evaluation that is not cancelled comes to say
something newer (`Overtaken`, `NewestIsAboutGame`); the backup is the first
override that was not Strajer's (`BackupOfFirst`).

Proving found two faults of the models.  In `AgentRoster`, `Show` was a `CASE` whose
conditions overlap, which TLA+ reads as a choice and the code does not; it is now
in the order of the code.  `AgentsConverge` did not hold of instances in which a
session both joins late and lags (section 4), which TLC finds with one seat and
two sessions, but not with the two seats of the run.

Assumptions used are those named in the modules (`LobbyAssumption`,
`SupervisorAssumption`, `ConnectionAssumption`, `CompatibilityAssumption`,
`RosterAssumption`, `TransferAssumption`, `CacheAssumption`, `ReaderAssumption`, `DeliveryAssumption`,
and as premises of the theorems `SplitAssumption`, `RoundsAssumption`,
`RelayAssumption`, `ServiceAssumption`, `CatalogAssumption`); TLC evaluates them in the runs of those
modules.

Only model-checked: liveness (out of the prover's reach, as is ENABLED):
`RoomReopens`, `TimersFire`, `RejoinWorks`, `ComesBack`, `Settles`,
`TransferEnds`, `LoadsEnd`, `AdsFollowTheCatalog` and `MapsArrive`.  Every safety property of a passing run is a theorem.

## 6. What is not modelled

* Profile frames, slots, the layout of frames and of the GameInfo record beyond
  the game and the port, the JSON spelling of messages: pure functions without
  state.  Of the decoders, `Relay` has the conditions under which they refuse.
* Hashes: a file either is the map or is not.
* The contents of actions, the wall clock and the delays themselves: a sleep
  ends at any moment (`LobbyConnection` and `MapTransfer`, where limits meet,
  count time).
* Listening addresses, the reverse proxy before the server, log settings.
* Pings between agent and Warcraft; log files, error texts and the views of
  `StrajerApp.swift`.
* In `WarcraftCompatibility`, a failure after the first write of an evaluation.
* A socket whose send never returns: the transport's own timeout is outside the
  code.

## 7. Plan

Built so far, in the order of importance: room, match, delivery, supervisor,
frame reader, map transfer and cache, connection, roster, action frames,
catalogue, compatibility, checksum rounds, relay, map service, joins; proofs of
all safety properties.

Next, in this order:

1. `Relay` over a channel that lags, so that snapshot and relay meet.
2. Composition of `MapTransfer` with `MapCache` through the task they share,
   with the abort at each await.
3. `WarcraftCompatibility`: failures after the first write; and the nickname's
   file beside a second application.
