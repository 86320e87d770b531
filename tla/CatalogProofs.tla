--------------------------- MODULE CatalogProofs ---------------------------
(* What an agent gets from its server, for any number of agents, maps and  *)
(* failures: whatever Warcraft lists can be joined (first half, about      *)
(* AgentCatalog) and what agents keep is the map (second, MapService).     *)
(*                                                                         *)
(* The first property looks only at advertisements and joins.  What keeps  *)
(* it is that a port the agent has taken stays free of others until it is  *)
(* published, and that all advertisements are of the one catalogue with    *)
(* which the agent was started, in which no game is twice.                 *)
EXTENDS AgentCatalog, MapService, TLAPS

(* Only an agent that has its catalogue publishes. *)
Quiet == phase \in {"down", "starting"} => ads = {} /\ bound = NoPort

(* What is active and what is to become active is of one catalogue. *)
OneCatalog ==
  /\ todo \in Seq(Lobbies(active))
  /\ \A ad \in ads : ad.lobby \in Lobbies(active)

(* The port that was taken for the next lobby is nobody else's. *)
BoundIsFree == bound # NoPort => bound \notin foreign \cup PortsInUse /\ todo # <<>>

AdsOfTasks == ads = listeners \cup failed

PortsOfOne ==
  \A l \in listeners :
    /\ l.port \notin foreign
    /\ \A other \in listeners : other.port = l.port => other = l

JoinsReach == \A j \in joins : j.got.game = j.saw.game /\ (j.listed => j.got = j.saw)

AgentInv ==
  TypeOK /\ Quiet /\ OneCatalog /\ BoundIsFree /\ AdsOfTasks /\ PortsOfOne /\ JoinsReach

----------------------------------------------------------------------------
(* Lemmas on catalogues. *)

LEMMA LobbiesOfCatalog ==
  ASSUME CatalogAssumption, NEW c \in Catalogs
  PROVE  c \in Seq(Lobbies(c)) /\ Lobbies(c) \subseteq AllLobbies
<1>1. c \in Seq({c[i] : i \in DOMAIN c})
  BY DEF CatalogAssumption
<1> QED BY <1>1 DEF Lobbies, AllLobbies

(* In a catalogue a game is one lobby. *)
LEMMA GamesAreDistinct ==
  ASSUME CatalogAssumption, TypeOK, NEW k \in Lobbies(active), NEW l \in Lobbies(active),
         k.game = l.game
  PROVE  k = l
<1>1. CASE active \in Catalogs
  BY <1>1 DEF CatalogAssumption, Lobbies
<1>2. CASE active = <<>>
  BY <1>2 DEF Lobbies
<1> QED BY <1>1, <1>2 DEF TypeOK

LEMMA LobbiesAreTyped ==
  ASSUME CatalogAssumption, TypeOK PROVE Lobbies(active) \subseteq AllLobbies
<1>1. CASE active \in Catalogs
  BY <1>1, LobbiesOfCatalog
<1>2. CASE active = <<>>
  BY <1>2 DEF Lobbies
<1> QED BY <1>1, <1>2 DEF TypeOK

LEMMA NoPortIsNone == ASSUME CatalogAssumption PROVE NoPort \notin Ports
  BY DEF CatalogAssumption, NoPort

----------------------------------------------------------------------------
LEMMA InitHolds == ASSUME CatalogAssumption, Init PROVE AgentInv
<1>1. TypeOK
  <2>1. reachable \in BOOLEAN
    BY Zenon DEF Init
  <2>2. 0 < BindAttempts
    BY DEF CatalogAssumption
  <2> QED BY <2>1, <2>2 DEF Init, TypeOK, Phases
<1>2. OneCatalog
  BY DEF Init, OneCatalog
<1> QED
  BY <1>1, <1>2 DEF Init, AgentInv, Quiet, BoundIsFree, AdsOfTasks, PortsOfOne, JoinsReach

(* An exit withdraws all. *)
LEMMA ExitKeeps ==
  ASSUME CatalogAssumption, AgentInv, Exit, UNCHANGED <<catalog, reachable, foreign, picked, joins>>
  PROVE  AgentInv'
<1>1. TypeOK'
  <2>1. reachable' \in BOOLEAN
    BY Zenon DEF AgentInv, TypeOK
  <2>2. 0 < BindAttempts
    BY DEF CatalogAssumption
  <2> QED BY <2>1, <2>2 DEF Exit, AgentInv, TypeOK, Phases
<1>2. OneCatalog'
  BY DEF Exit, OneCatalog
<1> QED
  BY <1>1, <1>2 DEF Exit, AgentInv, Quiet, BoundIsFree, AdsOfTasks, PortsOfOne, JoinsReach

(* What leaves the ports and the players alone. *)
LEMMA PhaseKeeps ==
  ASSUME AgentInv,
         UNCHANGED <<foreign, picked, joins, active, todo, bound, attempts, ads, listeners, failed>>,
         catalog' \in Catalogs, reachable' \in BOOLEAN, phase' \in Phases, 
         phase' \in {"down", "starting"} => phase \in {"down", "starting"}
  PROVE  AgentInv'
<1>1. TypeOK'
  BY DEF AgentInv, TypeOK
<1>2. PortsInUse' = PortsInUse
  BY DEF PortsInUse
<1> QED
  BY <1>1, <1>2 DEF AgentInv, Quiet, OneCatalog, BoundIsFree, AdsOfTasks, PortsOfOne, JoinsReach,
                    Lobbies

LEMMA OutsideTyped ==
  ASSUME AgentInv PROVE catalog \in Catalogs /\ reachable \in BOOLEAN /\ phase \in Phases
  BY DEF AgentInv, TypeOK

LEMMA StartReadyKeep ==
  ASSUME AgentInv, Start \/ Ready \/ LoseServer \/ ReachServer
                     \/ \E c \in Catalogs : ChangeCatalog(c)
  PROVE  AgentInv'
<1>1. UNCHANGED <<foreign, picked, joins, active, todo, bound, attempts, ads, listeners, failed>>
  BY DEF Start, Ready, LoseServer, ReachServer, ChangeCatalog, outsideVars, playerVars,
         activation, published
<1>2. catalog' \in Catalogs
  BY OutsideTyped DEF Start, Ready, LoseServer, ReachServer, ChangeCatalog, serverVars
<1>3. reachable' \in BOOLEAN
  <2>1. reachable' = reachable \/ reachable' = TRUE \/ reachable' = FALSE
    BY Zenon DEF Start, Ready, LoseServer, ReachServer, ChangeCatalog, serverVars
  <2> QED BY <2>1, OutsideTyped, Zenon
<1>4. /\ phase' \in Phases
      /\ phase' \in {"down", "starting"} => phase \in {"down", "starting"}
  BY OutsideTyped DEF Start, Ready, LoseServer, ReachServer, ChangeCatalog, Phases
<1> QED BY <1>1, <1>2, <1>3, <1>4, PhaseKeeps

LEMMA FetchCatalogKeeps ==
  ASSUME CatalogAssumption, AgentInv, FetchCatalog PROVE AgentInv'
<1>1. phase = "starting" /\ UNCHANGED <<catalog, reachable, foreign, picked, joins>>
  BY DEF FetchCatalog, serverVars, outsideVars, playerVars
<1>2. CASE Exit
  BY <1>1, <1>2, ExitKeeps
<1>3. CASE ~Exit
  <2>1. /\ phase' = "activating" /\ active' = catalog /\ todo' = catalog
        /\ UNCHANGED <<attempts, bound, ads, listeners, failed>>
    BY <1>3 DEF FetchCatalog, published
  <2>2. ads = {} /\ bound = NoPort /\ listeners = {} /\ failed = {} /\ catalog \in Catalogs
    BY <1>1 DEF AgentInv, Quiet, AdsOfTasks, TypeOK
  <2>3. TypeOK'
    BY <1>1, <2>1, <2>2 DEF AgentInv, TypeOK, Phases
  <2>4. todo' \in Seq(Lobbies(active'))
    BY <2>1, <2>2, LobbiesOfCatalog
  <2>5. OneCatalog'
    BY <2>1, <2>2, <2>4 DEF OneCatalog, Lobbies
  <2> QED BY <1>1, <2>1, <2>2, <2>3, <2>5
             DEF AgentInv, Quiet, BoundIsFree, AdsOfTasks, PortsOfOne, JoinsReach
<1> QED BY <1>2, <1>3

LEMMA BindListenersKeeps ==
  ASSUME CatalogAssumption, AgentInv, BindListeners PROVE AgentInv'
<1>1. /\ phase = "activating" /\ todo # <<>> /\ bound = NoPort
      /\ UNCHANGED <<catalog, reachable, foreign, picked, joins>>
  BY DEF BindListeners, serverVars, outsideVars, playerVars
<1>2. CASE Exit
  BY <1>1, <1>2, ExitKeeps
<1>3. CASE ~Exit
  <2>1. /\ UNCHANGED <<phase, active, todo, ads, listeners, failed>>
        /\ \/ bound' \in Ports \ PortsInUse /\ bound' \notin foreign /\ attempts' = 0
           \/ bound' = bound /\ attempts' = attempts + 1 /\ TriesAgain
    BY <1>3 DEF BindListeners, published, SharesPort
  <2>2. attempts' < BindAttempts /\ bound' \in Ports \cup {NoPort}
    BY <1>1, <2>1 DEF CatalogAssumption, TriesAgain
  <2>3. TypeOK'
    BY <1>1, <2>1, <2>2 DEF AgentInv, TypeOK
  <2>4. PortsInUse' = PortsInUse
    BY <2>1 DEF PortsInUse
  <2> QED BY <1>1, <2>1, <2>3, <2>4
             DEF AgentInv, Quiet, OneCatalog, BoundIsFree, AdsOfTasks, PortsOfOne, JoinsReach,
                 Lobbies
<1> QED BY <1>2, <1>3

LEMMA PublishKeeps == ASSUME CatalogAssumption, AgentInv, Publish PROVE AgentInv'
<1>1. /\ phase = "activating" /\ bound # NoPort
      /\ UNCHANGED <<catalog, reachable, foreign, picked, joins>>
  BY DEF Publish, serverVars, outsideVars, playerVars
<1>2. CASE Exit
  BY <1>1, <1>2, ExitKeeps
<1>3. CASE ~Exit
  <2> DEFINE ad == [lobby |-> Head(todo), port |-> bound]
  <2>1. /\ ads' = ads \cup {ad} /\ listeners' = listeners \cup {ad}
        /\ todo' = Tail(todo) /\ bound' = NoPort
        /\ UNCHANGED <<phase, active, attempts, failed>>
    BY <1>3 DEF Publish
  <2>2. /\ bound \in Ports /\ bound \notin foreign \cup PortsInUse /\ todo # <<>>
        /\ todo \in Seq(Lobbies(active)) /\ Lobbies(active) \subseteq AllLobbies
    BY <1>1, LobbiesAreTyped DEF AgentInv, TypeOK, BoundIsFree, OneCatalog
  <2>3. Head(todo) \in Lobbies(active) /\ Tail(todo) \in Seq(Lobbies(active))
    BY <2>2
  <2>4. PICK l \in Lobbies(active) : l = Head(todo)
    BY <2>3
  <2>5. PICK new : new = ad
    OBVIOUS
  <2>6. new = [lobby |-> l, port |-> bound]
    BY <2>4, <2>5
  <2>7. new \in Ad /\ new.lobby = l /\ new.port = bound
    BY <2>2, <2>6 DEF Ad
  <2>8. ads' = ads \cup {new} /\ listeners' = listeners \cup {new}
    BY <2>1, <2>5
  <2> HIDE DEF ad
  <2>9. TypeOK'
    BY <1>1, <2>1, <2>7, <2>8 DEF AgentInv, TypeOK
  <2>10. OneCatalog'
    BY <2>1, <2>3, <2>7, <2>8 DEF AgentInv, OneCatalog, Lobbies
  <2>11. \A other \in listeners : other.port # new.port
    BY <2>2, <2>7 DEF PortsInUse
  <2>12. PortsOfOne'
    BY <1>1, <2>2, <2>7, <2>8, <2>11 DEF AgentInv, PortsOfOne
  <2> QED BY <1>1, <2>1, <2>8, <2>9, <2>10, <2>12
             DEF AgentInv, Quiet, BoundIsFree, AdsOfTasks, JoinsReach
<1> QED BY <1>2, <1>3

LEMMA EndsKeep == ASSUME CatalogAssumption, AgentInv, Refresh \/ Shutdown PROVE AgentInv'
  BY ExitKeeps DEF Refresh, Shutdown, serverVars, outsideVars, playerVars

LEMMA ListenerFailsKeeps ==
  ASSUME AgentInv, NEW l \in listeners, ListenerFails(l) PROVE AgentInv'
<1>1. /\ listeners' = listeners \ {l} /\ failed' = failed \cup {l}
      /\ UNCHANGED <<catalog, reachable, foreign, picked, joins, phase, active, todo, attempts,
                     bound, ads>>
  BY DEF ListenerFails, serverVars, outsideVars, playerVars, activation
<1>2. TypeOK'
  BY <1>1 DEF AgentInv, TypeOK
<1>3. PortsInUse' \subseteq PortsInUse
  BY <1>1 DEF PortsInUse
<1>4. AdsOfTasks'
  BY <1>1 DEF AgentInv, AdsOfTasks
<1>5. PortsOfOne'
  BY <1>1 DEF AgentInv, PortsOfOne
<1> QED BY <1>1, <1>2, <1>3, <1>4, <1>5
           DEF AgentInv, Quiet, OneCatalog, BoundIsFree, JoinsReach, Lobbies

----------------------------------------------------------------------------
(* The players and the other programs. *)

LEMMA PickLobbyKeeps ==
  ASSUME AgentInv, NEW ad \in ads, PickLobby(ad) PROVE AgentInv'
<1>1. /\ picked' = {ad}
      /\ UNCHANGED <<catalog, reachable, foreign, joins, phase, active, todo, attempts, bound, ads,
                     listeners, failed>>
  BY DEF PickLobby, serverVars, activation, published
<1>2. TypeOK' /\ PortsInUse' = PortsInUse
  BY <1>1 DEF AgentInv, TypeOK, PortsInUse
<1> QED BY <1>1, <1>2 DEF AgentInv, Quiet, OneCatalog, BoundIsFree, AdsOfTasks, PortsOfOne,
                          JoinsReach, Lobbies

(* Who joins what is listed gets it: its port is the one listener's, and   *)
(* when that has ended, no other lobby of the catalogue is the same game.  *)
LEMMA JoinReaches ==
  ASSUME CatalogAssumption, AgentInv, NEW ad \in Ad, NEW l \in listeners,
         l.port = ad.port, Admits(l.lobby, ad.lobby.game), ad \in ads
  PROVE  l.lobby = ad.lobby
<1>1. l.lobby \in Lobbies(active) /\ ad.lobby \in Lobbies(active)
  BY DEF AgentInv, OneCatalog, AdsOfTasks
<1>2. l.lobby.game = ad.lobby.game
  BY DEF Admits
<1> QED BY <1>1, <1>2, GamesAreDistinct DEF AgentInv

LEMMA JoinKeeps ==
  ASSUME CatalogAssumption, AgentInv, NEW ad \in picked, Join(ad) PROVE AgentInv'
<1>1. /\ picked' = {} /\ ad \in Ad
      /\ joins' = joins \cup
           {[saw |-> ad.lobby, listed |-> ad \in ads, got |-> l.lobby] :
              l \in {l \in listeners : l.port = ad.port /\ Admits(l.lobby, ad.lobby.game)}}
      /\ UNCHANGED <<catalog, reachable, foreign, phase, active, todo, attempts, bound, ads,
                     listeners, failed>>
  BY DEF Join, serverVars, activation, published, AgentInv, TypeOK
<1>2. TypeOK' /\ PortsInUse' = PortsInUse
  BY <1>1 DEF AgentInv, TypeOK, PortsInUse
<1>3. JoinsReach'
  <2> SUFFICES ASSUME NEW j \in joins'
               PROVE  j.got.game = j.saw.game /\ (j.listed => j.got = j.saw)
    BY DEF JoinsReach
  <2>1. CASE j \in joins
    BY <2>1 DEF AgentInv, JoinsReach
  <2>2. CASE j \notin joins
    <3>1. PICK l \in listeners :
            /\ l.port = ad.port /\ Admits(l.lobby, ad.lobby.game)
            /\ j = [saw |-> ad.lobby, listed |-> ad \in ads, got |-> l.lobby]
      BY <1>1, <2>2
    <3>2. j.saw = ad.lobby /\ j.got = l.lobby
      BY <3>1
    <3>3. j.listed = (ad \in ads)
      BY <3>1
    <3>4. ad \in ads => l.lobby = ad.lobby
      BY <1>1, <3>1, JoinReaches
    <3>5. l.lobby.game = ad.lobby.game
      BY <3>1 DEF Admits
    <3>6. j.listed => j.got = j.saw
      BY <3>2, <3>3, <3>4
    <3> QED BY <3>2, <3>5, <3>6
  <2> QED BY <2>1, <2>2
<1> QED BY <1>1, <1>2, <1>3 DEF AgentInv, Quiet, OneCatalog, BoundIsFree, AdsOfTasks, PortsOfOne,
                                Lobbies

LEMMA OtherProgramKeeps ==
  ASSUME CatalogAssumption, AgentInv, NEW p \in Ports, OtherProgram(p) PROVE AgentInv'
<1>1. /\ p \notin PortsInUse \cup {bound} /\ foreign' \subseteq foreign \cup {p}
      /\ UNCHANGED <<catalog, reachable, picked, joins, phase, active, todo, attempts, bound, ads,
                     listeners, failed>>
  BY DEF OtherProgram, serverVars, playerVars, activation, published
<1>2. TypeOK' /\ PortsInUse' = PortsInUse
  BY <1>1 DEF AgentInv, TypeOK, PortsInUse
<1>3. PortsOfOne'
  BY <1>1 DEF AgentInv, PortsOfOne, PortsInUse
<1>4. BoundIsFree'
  BY <1>1, <1>2 DEF AgentInv, BoundIsFree
<1> QED BY <1>1, <1>2, <1>3, <1>4 DEF AgentInv, Quiet, OneCatalog, AdsOfTasks, JoinsReach, Lobbies

----------------------------------------------------------------------------
LEMMA StepKeeps == ASSUME CatalogAssumption, AgentInv, [Next]_vars PROVE AgentInv'
<1>1. CASE UNCHANGED vars
  <2>1. UNCHANGED <<catalog, reachable, foreign, picked, joins, phase, active, todo, attempts,
                    bound, ads, listeners, failed>>
    BY <1>1 DEF vars, serverVars, outsideVars, playerVars, activation, published
  <2> QED BY <2>1, OutsideTyped, PhaseKeeps
<1>2. CASE Start \/ Ready \/ LoseServer \/ ReachServer \/ \E c \in Catalogs : ChangeCatalog(c)
  BY <1>2, StartReadyKeep
<1>3. CASE FetchCatalog \/ BindListeners \/ Publish \/ Refresh \/ Shutdown
  BY <1>3, FetchCatalogKeeps, BindListenersKeeps, PublishKeeps, EndsKeep
<1>4. CASE \E l \in listeners : ListenerFails(l)
  BY <1>4, ListenerFailsKeeps
<1>5. CASE (\E ad \in ads : PickLobby(ad)) \/ (\E ad \in picked : Join(ad))
  BY <1>5, PickLobbyKeeps, JoinKeeps
<1>6. CASE \E p \in Ports : OtherProgram(p)
  BY <1>6, OtherProgramKeeps
<1> QED BY <1>1, <1>2, <1>3, <1>4, <1>5, <1>6 DEF Next, Agent

(* What Warcraft lists can be joined, whatever changes, fails or takes     *)
(* ports, and nobody who joins comes into another game.                    *)
THEOREM AdsHold == CatalogAssumption => (Spec => []AdsCanBeJoined)
<1> SUFFICES ASSUME CatalogAssumption PROVE Spec => []AdsCanBeJoined
  OBVIOUS
<1>1. Init => AgentInv
  BY InitHolds
<1>2. AgentInv /\ [Next]_vars => AgentInv'
  BY StepKeeps
<1>3. AgentInv => AdsCanBeJoined
  BY DEF AgentInv, AdsOfTasks, PortsOfOne, Quiet, JoinsReach, AdsCanBeJoined
<1> QED BY <1>1, <1>2, <1>3, PTL DEF Spec

----------------------------------------------------------------------------
(* What agents keep is the map.                                            *)
(*                                                                         *)
(* That a failure has its cause is not inductive.  It rests on what holds  *)
(* while the server runs: its table has the map of the build, its file has *)
(* been that map since it was verified unless it was touched, and what an  *)
(* agent has received of an untouched file is a piece of that map.         *)

MapBlocks == Maps \X Nat

ServiceTyped ==
  /\ build \in Entries /\ server \in {"down", "up", "draining"}
  /\ path \in Inodes \cup {NoFile} /\ contents \in [Inodes -> Seq(MapBlocks)]
  /\ copying \subseteq Maps
  /\ wanted \in [Agents -> [entry : Entries, era : Nat]] /\ era \in Nat
  /\ stage \in [Agents -> {"off", "asking", "reading", "loaded", "failed"}]
  /\ source \in [Agents -> Inodes \cup {NoFile}]
  /\ received \in [Agents -> Seq(MapBlocks)] /\ kept \in [Agents -> Seq(MapBlocks)]
  /\ cache \in [Agents -> [Entries -> Seq(MapBlocks)]]
  /\ excused \in [Agents -> BOOLEAN] /\ touched \in BOOLEAN

(* The table has the map of the build, and nothing else. *)
TableOfBuild == server # "down" => assets = {AssetKey(build)}

(* The file that was verified. *)
FileOfBuild == server # "down" /\ ~touched => path # NoFile /\ contents[path] = BlocksOf(build.map)

(* What is streamed was asked for under the catalogue of this server, and  *)
(* the file of an untouched path.                                          *)
StreamsOfBuild ==
  \A a \in Agents : source[a] # NoFile =>
    /\ server # "down" /\ stage[a] = "reading" /\ wanted[a].entry.map = build.map
    /\ ~touched => source[a] = path

(* What was received is a proper piece of the map. *)
PiecesOfMap ==
  \A a \in Agents : source[a] # NoFile =>
    /\ Len(received[a]) < Blocks
    /\ ~touched => \A i \in 1..Len(received[a]) : received[a][i] = <<build.map, i>>

(* What a player of an agent has. *)
Honest == 
  \A a \in Agents :
    /\ kept[a] \in {<<>>, BlocksOf(wanted[a].entry.map)}
    /\ stage[a] = "loaded" => kept[a] # <<>>
    /\ excused[a]

ServiceInv ==
  ServiceTyped /\ TableOfBuild /\ FileOfBuild /\ StreamsOfBuild /\ PiecesOfMap /\ Honest

----------------------------------------------------------------------------
(* Lemmas on maps. *)

LEMMA BlocksOfMap ==
  ASSUME ServiceAssumption, NEW m \in Maps
  PROVE  /\ BlocksOf(m) \in Seq(MapBlocks) /\ Len(BlocksOf(m)) = Blocks
         /\ BlocksOf(m) # <<>>
  BY DEF ServiceAssumption, BlocksOf, MapBlocks

(* What has as many blocks as the map, each of them the map's, is the map. *)
LEMMA WholeMap ==
  ASSUME ServiceAssumption, NEW m \in Maps, NEW data \in Seq(MapBlocks), Len(data) = Blocks,
         \A i \in 1..Blocks : data[i] = <<m, i>>
  PROVE  data = BlocksOf(m)
<1>1. BlocksOf(m) \in Seq(MapBlocks) /\ Len(BlocksOf(m)) = Blocks
  BY BlocksOfMap
<1>2. Len(data) \in Nat /\ \A i \in 1..Len(data) : data[i] = BlocksOf(m)[i]
  BY <1>1 DEF BlocksOf
<1> HIDE DEF BlocksOf
<1> QED
  BY <1>1, <1>2

LEMMA KeysOfBuild ==
  ASSUME NEW b \in Entries, NEW c \in Entries, InSmallLetters(c) = AssetKey(b)
  PROVE  c.map = b.map
  BY DEF Entries, InSmallLetters, AssetKey

----------------------------------------------------------------------------
LEMMA ServiceInitHolds == ASSUME ServiceAssumption, ServiceInit PROVE ServiceInv
<1>1. /\ build \in Entries /\ build.map \in Maps /\ server = "down" /\ era = 0
      /\ path \in Inodes /\ contents = [i \in Inodes |-> BlocksOf(build.map)] /\ copying = {}
      /\ wanted = [a \in Agents |-> [entry |-> build, era |-> 0]]
      /\ stage = [a \in Agents |-> "off"] /\ source = [a \in Agents |-> NoFile]
      /\ received = [a \in Agents |-> <<>>] /\ kept = [a \in Agents |-> <<>>]
      /\ cache = [a \in Agents |-> [c \in Entries |-> <<>>]]
      /\ touched = FALSE /\ excused = [a \in Agents |-> TRUE]
  BY DEF ServiceInit, Entries
<1>2. BlocksOf(build.map) \in Seq(MapBlocks) /\ <<>> \in Seq(MapBlocks)
  BY <1>1, BlocksOfMap
<1>3. ServiceTyped
  BY <1>1, <1>2 DEF ServiceTyped
<1>4. TableOfBuild /\ FileOfBuild /\ StreamsOfBuild /\ PiecesOfMap /\ Honest
  BY <1>1 DEF TableOfBuild, FileOfBuild, StreamsOfBuild, PiecesOfMap, Honest
<1> QED BY <1>3, <1>4 DEF ServiceInv

----------------------------------------------------------------------------
(* The server. *)

(* While it is down, it streams nothing. *)
LEMMA NoStreamWhenDown ==
  ASSUME ServiceInv, server = "down", NEW a \in Agents PROVE source[a] = NoFile
  BY DEF ServiceInv, StreamsOfBuild

LEMMA RunServerKeeps == ASSUME ServiceAssumption, ServiceInv, RunServer PROVE ServiceInv'
<1>1. /\ server = "down" /\ path # NoFile /\ contents[path] = BlocksOf(build.map)
      /\ server' = "up" /\ era' = era + 1 /\ assets' = {AssetKey(build)} /\ touched' = FALSE
      /\ UNCHANGED <<build, path, contents, copying, wanted, stage, source, received, kept,
                     cache, excused>>
  BY DEF RunServer, Verifies, operatorVars, agentVars
<1>2. \A a \in Agents : source[a] = NoFile
  BY <1>1, NoStreamWhenDown
<1>3. era' \in Nat
  BY <1>1 DEF ServiceInv, ServiceTyped
<1>4. ServiceTyped'
  <2>1. touched' \in BOOLEAN
    BY <1>1, Zenon
  <2> QED BY <1>1, <1>3, <2>1 DEF ServiceInv, ServiceTyped
<1>5. TableOfBuild' /\ FileOfBuild' /\ StreamsOfBuild' /\ PiecesOfMap' /\ Honest'
  BY <1>1, <1>2 DEF ServiceInv, TableOfBuild, FileOfBuild, StreamsOfBuild, PiecesOfMap, Honest,
                    AssetKey
<1> QED BY <1>4, <1>5 DEF ServiceInv

(* A server that stops. *)
LEMMA ServerStops ==
  ASSUME ServiceInv, ShutdownSignal \/ Drained \/ Kill PROVE ServiceInv'
<1>1. /\ server' \in {"down", "draining"} /\ (server' = "down" \/ server # "down")
      /\ server' = "draining" => assets' = assets /\ source' = source
      /\ server' = "down" => \A a \in Agents : source'[a] = NoFile
      /\ source' \in [Agents -> Inodes \cup {NoFile}]
      /\ UNCHANGED <<build, era, path, contents, copying, wanted, stage, received, kept, cache,
                     excused, touched>>
  <2>1. source \in [Agents -> Inodes \cup {NoFile}] 
    BY DEF ServiceInv, ServiceTyped
  <2> QED BY <2>1 DEF ShutdownSignal, Drained, Kill, operatorVars, agentVars
<1>2. ServiceTyped'
  BY <1>1 DEF ServiceInv, ServiceTyped
<1>3. TableOfBuild' /\ FileOfBuild' /\ Honest'
  BY <1>1 DEF ServiceInv, TableOfBuild, FileOfBuild, Honest, AssetKey
<1>4. StreamsOfBuild' /\ PiecesOfMap'
  BY <1>1 DEF ServiceInv, StreamsOfBuild, PiecesOfMap
<1> QED BY <1>2, <1>3, <1>4 DEF ServiceInv

----------------------------------------------------------------------------
(* The operator. *)

LEMMA DeployKeeps ==
  ASSUME ServiceInv, NEW b \in Entries, NEW c \in Configs, Deploy(b, c) PROVE ServiceInv'
<1>1. /\ server = "down" /\ server' = "down" /\ build' = b
      /\ UNCHANGED <<era, assets, path, contents, copying, wanted, stage, source, received, kept,
                     cache, excused, touched>>
  BY DEF Deploy, runningVars, agentVars
<1>2. \A a \in Agents : source[a] = NoFile
  BY <1>1, NoStreamWhenDown
<1>3. ServiceTyped'
  BY <1>1 DEF ServiceInv, ServiceTyped
<1>4. TableOfBuild' /\ FileOfBuild' /\ StreamsOfBuild' /\ PiecesOfMap' /\ Honest'
  BY <1>1, <1>2 DEF ServiceInv, TableOfBuild, FileOfBuild, StreamsOfBuild, PiecesOfMap, Honest
<1> QED BY <1>3, <1>4 DEF ServiceInv

(* A change of the file is remembered. *)
LEMMA TouchKeeps ==
  ASSUME ServiceInv, touched' = TRUE, UNCHANGED <<build, runningVars, agentVars>>,
         path' \in Inodes \cup {NoFile}, contents' \in [Inodes -> Seq(MapBlocks)],
         copying' \subseteq Maps
  PROVE  ServiceInv'
<1>1. UNCHANGED <<build, server, era, assets, wanted, stage, source, received, kept, cache,
                  excused>>
  BY DEF runningVars, agentVars
<1>2. ServiceTyped'
  BY <1>1 DEF ServiceInv, ServiceTyped
<1>3. TableOfBuild' /\ FileOfBuild' /\ StreamsOfBuild' /\ PiecesOfMap' /\ Honest'
  BY <1>1 DEF ServiceInv, TableOfBuild, FileOfBuild, StreamsOfBuild, PiecesOfMap, Honest, AssetKey
<1> QED BY <1>2, <1>3 DEF ServiceInv

LEMMA CopyKeeps ==
  ASSUME ServiceAssumption, ServiceInv, NEW m \in Maps, Copy(m) \/ Replace(m) \/ Remove
  PROVE  ServiceInv'
<1>1. touched' = TRUE /\ UNCHANGED <<build, runningVars, agentVars>>
  BY DEF Copy, Replace, Remove, Touches
<1>2. BlocksOf(m) \in Seq(MapBlocks) /\ <<>> \in Seq(MapBlocks)
  BY BlocksOfMap
<1>3. contents \in [Inodes -> Seq(MapBlocks)] /\ path \in Inodes \cup {NoFile} /\ copying \subseteq Maps
  BY DEF ServiceInv, ServiceTyped
<1>4. /\ path' \in Inodes \cup {NoFile} /\ copying' \subseteq Maps
      /\ contents' \in [Inodes -> Seq(MapBlocks)]
  BY <1>2, <1>3 DEF Copy, Replace, Remove
<1> QED BY <1>1, <1>4, TouchKeeps

LEMMA CopyBlockKeeps == ASSUME ServiceInv, CopyBlock PROVE ServiceInv'
<1>1. touched' = TRUE /\ UNCHANGED <<build, path, runningVars, agentVars>>
  BY DEF CopyBlock
<1>2. contents \in [Inodes -> Seq(MapBlocks)] /\ path \in Inodes \cup {NoFile} /\ copying \subseteq Maps
  BY DEF ServiceInv, ServiceTyped
<1>3. PICK m \in copying :
        /\ contents' = [contents EXCEPT ![path] =
                          Append(contents[path], <<m, Len(contents[path]) + 1>>)]
        /\ copying' \in {{}, copying}
  BY DEF CopyBlock
<1>4. path \in Inodes /\ contents[path] \in Seq(MapBlocks)
  BY <1>2 DEF CopyBlock
<1>5. <<m, Len(contents[path]) + 1>> \in MapBlocks
  BY <1>2, <1>4 DEF MapBlocks
<1>6. contents' \in [Inodes -> Seq(MapBlocks)]
  BY <1>2, <1>3, <1>4, <1>5
<1> QED BY <1>1, <1>2, <1>3, <1>6, TouchKeeps

----------------------------------------------------------------------------
(* The agents. *)

(* What a step of one agent has to establish, of that agent alone. *)
LEMMA AgentKeeps ==
  ASSUME ServiceInv, NEW a \in Agents, UNCHANGED <<operatorVars, runningVars, touched>>, ServiceTyped',
         \A b \in Agents \ {a} :
           /\ wanted'[b] = wanted[b] /\ stage'[b] = stage[b] /\ source'[b] = source[b]
           /\ received'[b] = received[b] /\ kept'[b] = kept[b] /\ excused'[b] = excused[b],
         source'[a] # NoFile =>
           /\ server # "down" /\ stage'[a] = "reading" /\ wanted'[a].entry.map = build.map
           /\ Len(received'[a]) < Blocks
           /\ ~touched => /\ source'[a] = path
                          /\ \A i \in 1..Len(received'[a]) : received'[a][i] = <<build.map, i>>,
         kept'[a] \in {<<>>, BlocksOf(wanted'[a].entry.map)},
         stage'[a] = "loaded" => kept'[a] # <<>>,
         excused'[a]
  PROVE  ServiceInv'
<1>1. UNCHANGED <<build, server, assets, path, contents, touched>>
  BY DEF operatorVars, runningVars
<1>2. TableOfBuild' /\ FileOfBuild'
  BY <1>1 DEF ServiceInv, TableOfBuild, FileOfBuild, AssetKey
<1>3. StreamsOfBuild'
  BY <1>1 DEF ServiceInv, StreamsOfBuild
<1>4. PiecesOfMap'
  BY <1>1 DEF ServiceInv, PiecesOfMap
<1>5. Honest'
  BY <1>1 DEF ServiceInv, Honest
<1> QED BY <1>2, <1>3, <1>4, <1>5 DEF ServiceInv

LEMMA FetchEntryKeeps ==
  ASSUME ServiceInv, NEW a \in Agents, FetchEntry(a) PROVE ServiceInv'
<1>1. /\ wanted' = [wanted EXCEPT ![a] = Catalog]
      /\ stage' = [stage EXCEPT ![a] = "asking"] /\ source' = [source EXCEPT ![a] = NoFile]
      /\ kept' = [kept EXCEPT ![a] = <<>>] /\ received' = [received EXCEPT ![a] = <<>>]
      /\ UNCHANGED <<operatorVars, runningVars, build, server, era, path, contents, copying, cache,
                     excused, touched>>
  BY DEF FetchEntry, operatorVars, runningVars
<1>2. Catalog \in [entry : Entries, era : Nat]
  BY DEF Catalog, ServiceInv, ServiceTyped
<1>3. ServiceTyped'
  BY <1>1, <1>2 DEF ServiceInv, ServiceTyped
<1>4. excused'[a]
  BY <1>1 DEF ServiceInv, Honest
<1>5. source'[a] = NoFile /\ kept'[a] = <<>> /\ stage'[a] = "asking"
  BY <1>1 DEF ServiceInv, ServiceTyped
<1>6. \A b \in Agents \ {a} :
        /\ wanted'[b] = wanted[b] /\ stage'[b] = stage[b] /\ source'[b] = source[b]
        /\ received'[b] = received[b] /\ kept'[b] = kept[b] /\ excused'[b] = excused[b]
  BY <1>1 DEF ServiceInv, ServiceTyped
<1> QED BY <1>1, <1>3, <1>4, <1>5, <1>6, AgentKeeps

(* A server that runs, with the token of the agents and an untouched file, *)
(* answers who has its catalogue.                                          *)
LEMMA RespondsToItsAgents ==
  ASSUME ServiceInv, NEW a \in Agents, server = "up", Authorizes, ~touched, wanted[a] = Catalog
  PROVE  Responds(wanted[a].entry)
  BY DEF ServiceInv, TableOfBuild, FileOfBuild, Responds, Catalog, AssetKey

LEMMA RequestKeeps ==
  ASSUME ServiceAssumption, ServiceInv, NEW a \in Agents, Request(a) PROVE ServiceInv'
<1> DEFINE c == wanted[a].entry
<1>1. /\ stage[a] = "asking" /\ UNCHANGED <<operatorVars, runningVars, wanted, cache, touched>>
      /\ UNCHANGED <<build, server, era, path, contents, copying>>
  BY DEF Request, operatorVars, runningVars
<1>2. c \in Entries /\ c.map \in Maps /\ ServiceTyped /\ source[a] = NoFile /\ excused[a] /\ kept[a] \in {<<>>, BlocksOf(c.map)}
  <2>1. ServiceTyped /\ c \in Entries
    BY DEF ServiceInv, ServiceTyped
  <2> QED BY <1>1, <2>1 DEF ServiceInv, Entries, StreamsOfBuild, Honest
<1>3. CASE Verifies(c.map, cache[a][c])
  <2>1. Ends(a, cache[a][c]) /\ UNCHANGED <<source, received, excused>>
    BY <1>3 DEF Request
  <2>2. cache[a][c] = BlocksOf(c.map) /\ cache[a][c] # <<>> /\ cache[a][c] \in Seq(MapBlocks)
    BY <1>2, <1>3, BlocksOfMap DEF Verifies
  <2>3. /\ stage' = [stage EXCEPT ![a] = "loaded"]
        /\ kept' = [kept EXCEPT ![a] = cache[a][c]]
    BY <2>1 DEF Ends
  <2>4. ServiceTyped'
    BY <1>1, <1>2, <2>1, <2>2, <2>3 DEF ServiceTyped
  <2>5. kept'[a] = BlocksOf(c.map) /\ kept'[a] # <<>> /\ source'[a] = NoFile /\ excused'[a]
    BY <1>2, <2>1, <2>2, <2>3 DEF ServiceTyped
  <2>6. \A b \in Agents \ {a} :
          /\ wanted'[b] = wanted[b] /\ stage'[b] = stage[b] /\ source'[b] = source[b]
          /\ received'[b] = received[b] /\ kept'[b] = kept[b] /\ excused'[b] = excused[b]
    BY <1>1, <1>2, <2>1, <2>3 DEF ServiceTyped
  <2> QED BY <1>1, <2>4, <2>5, <2>6, AgentKeeps
<1>4. CASE ~Verifies(c.map, cache[a][c]) /\ Responds(c)
  <2>1. /\ stage' = [stage EXCEPT ![a] = "reading"] /\ source' = [source EXCEPT ![a] = path]
        /\ received' = [received EXCEPT ![a] = <<>>] /\ UNCHANGED <<kept, excused>>
    BY <1>4 DEF Request
  <2>2. server = "up" /\ InSmallLetters(c) \in assets
    BY <1>4 DEF Responds
  <2>3. c.map = build.map
    <3>1. InSmallLetters(c) = AssetKey(build) /\ build \in Entries
      BY <2>2 DEF ServiceInv, ServiceTyped, TableOfBuild
    <3> QED BY <1>2, <3>1, KeysOfBuild
  <2>4. ServiceTyped'
    BY <1>1, <1>2, <2>1 DEF ServiceTyped
  <2>5. /\ source'[a] = path /\ stage'[a] = "reading" /\ received'[a] = <<>>
        /\ kept'[a] = kept[a] /\ excused'[a] /\ wanted'[a].entry = c
    BY <1>1, <1>2, <2>1 DEF ServiceTyped
  <2>6. \A b \in Agents \ {a} :
          /\ wanted'[b] = wanted[b] /\ stage'[b] = stage[b] /\ source'[b] = source[b]
          /\ received'[b] = received[b] /\ kept'[b] = kept[b] /\ excused'[b] = excused[b]
    BY <1>1, <1>2, <2>1 DEF ServiceTyped
  <2>7. Len(received'[a]) = 0 /\ 0 < Blocks
    BY <2>5 DEF ServiceAssumption
  <2>8. \A i \in 1..Len(received'[a]) : received'[a][i] = <<build.map, i>>
    BY <2>7
  <2> QED BY <1>1, <1>2, <2>2, <2>3, <2>4, <2>5, <2>6, <2>7, <2>8, AgentKeeps
<1>5. CASE ~Verifies(c.map, cache[a][c]) /\ ~Responds(c)
  <2>1. /\ Fails(a, server # "up" \/ ~Authorizes \/ touched \/ wanted[a] # Catalog)
        /\ UNCHANGED <<source, received, kept>>
    BY <1>5 DEF Request
  <2>2. server # "up" \/ ~Authorizes \/ touched \/ wanted[a] # Catalog
    BY <1>5, RespondsToItsAgents
  <2>3. stage' = [stage EXCEPT ![a] = "failed"] /\ excused' = [excused EXCEPT ![a] = TRUE]
    BY <2>1, <2>2 DEF Fails
  <2>4. ServiceTyped'
    BY <1>1, <1>2, <2>1, <2>3 DEF ServiceTyped
  <2>5. source'[a] = NoFile /\ stage'[a] = "failed" /\ excused'[a] /\ kept'[a] = kept[a]
    BY <1>2, <2>1, <2>3 DEF ServiceTyped
  <2>6. \A b \in Agents \ {a} :
          /\ wanted'[b] = wanted[b] /\ stage'[b] = stage[b] /\ source'[b] = source[b]
          /\ received'[b] = received[b] /\ kept'[b] = kept[b] /\ excused'[b] = excused[b]
    BY <1>1, <1>2, <2>1, <2>3 DEF ServiceTyped
  <2> QED BY <1>1, <1>2, <2>4, <2>5, <2>6, AgentKeeps
<1> QED BY <1>3, <1>4, <1>5

LEMMA ReadKeeps ==
  ASSUME ServiceAssumption, ServiceInv, NEW a \in Agents, Read(a) PROVE ServiceInv'
<1> DEFINE c == wanted[a].entry
           file == IF source[a] = NoFile THEN <<>> ELSE contents[source[a]]
           n == Len(received[a]) + 1
           data == Append(received[a], file[n])
<1>1. /\ stage[a] = "reading" /\ UNCHANGED <<operatorVars, runningVars, wanted, touched>>
      /\ UNCHANGED <<build, server, era, path, contents, copying>>
  BY DEF Read, operatorVars, runningVars
<1>2. /\ c \in Entries /\ c.map \in Maps /\ ServiceTyped /\ excused[a] /\ kept[a] \in {<<>>, BlocksOf(c.map)}
      /\ file \in Seq(MapBlocks) /\ received[a] \in Seq(MapBlocks) /\ n \in Nat \ {0}
      /\ Blocks \in Nat /\ n = Len(received[a]) + 1
  <2>1. ServiceTyped /\ c \in Entries /\ received[a] \in Seq(MapBlocks)
    BY DEF ServiceInv, ServiceTyped
  <2>2. file \in Seq(MapBlocks)
    BY <2>1 DEF ServiceTyped
  <2>3. n \in Nat \ {0}
    BY <2>1
  <2> QED BY <2>1, <2>2, <2>3 DEF ServiceInv, Entries, Honest, ServiceAssumption
<1>3. source[a] # NoFile =>
        /\ server # "down" /\ c.map = build.map /\ n <= Blocks
        /\ ~touched => /\ file = BlocksOf(build.map) /\ source[a] = path
                       /\ \A i \in 1..Len(received[a]) : received[a][i] = <<build.map, i>>
  BY <1>2 DEF ServiceInv, StreamsOfBuild, PiecesOfMap, FileOfBuild
<1>4. source[a] = NoFile => n > Len(file)
  BY <1>2
<1>5. n <= Len(file) =>
        /\ data \in Seq(MapBlocks) /\ Len(data) = n
        /\ ~touched => \A i \in 1..Len(data) : data[i] = <<build.map, i>>
  <2> SUFFICES ASSUME n <= Len(file) 
               PROVE  /\ data \in Seq(MapBlocks) /\ Len(data) = n
                      /\ ~touched => \A i \in 1..Len(data) : data[i] = <<build.map, i>>
    OBVIOUS
  <2>1. file[n] \in MapBlocks
    BY <1>2
  <2>2. data \in Seq(MapBlocks) /\ Len(data) = n /\ data[n] = file[n]
        /\ \A i \in 1..Len(received[a]) : data[i] = received[a][i]
    BY <1>2, <2>1
  <2>3. ASSUME ~touched PROVE file[n] = <<build.map, n>>
    <3>1. file = BlocksOf(build.map) /\ n \in 1..Blocks
      BY <1>2, <1>3, <1>4, <2>3
    <3> QED BY <3>1 DEF BlocksOf
  <2>4. ASSUME ~touched, NEW i \in 1..n PROVE data[i] = <<build.map, i>>
    <3>1. i = n \/ i \in 1..Len(received[a])
      BY <1>2
    <3> QED BY <1>3, <1>4, <2>2, <2>3, <2>4, <3>1
  <2> QED BY <2>2, <2>4
<1>6. CASE n > Len(file)
  <2>1. /\ Fails(a, source[a] = NoFile \/ touched)
        /\ source' = [source EXCEPT ![a] = NoFile] /\ UNCHANGED <<received, kept, cache>>
    BY <1>6 DEF Read
  <2>2. source[a] = NoFile \/ touched
    <3>1. build.map \in Maps
      BY <1>2 DEF ServiceTyped, Entries
    <3>2. Len(BlocksOf(build.map)) = Blocks
      BY <3>1, BlocksOfMap
    <3> QED BY <1>2, <1>3, <1>6, <3>2
  <2>3. stage' = [stage EXCEPT ![a] = "failed"] /\ excused' = [excused EXCEPT ![a] = TRUE]
    BY <2>1, <2>2 DEF Fails
  <2>4. ServiceTyped'
    BY <1>1, <1>2, <2>1, <2>3 DEF ServiceTyped
  <2>5. source'[a] = NoFile /\ stage'[a] = "failed" /\ excused'[a] /\ kept'[a] = kept[a]
    BY <1>2, <2>1, <2>3 DEF ServiceTyped
  <2>6. \A b \in Agents \ {a} :
          /\ wanted'[b] = wanted[b] /\ stage'[b] = stage[b] /\ source'[b] = source[b]
          /\ received'[b] = received[b] /\ kept'[b] = kept[b] /\ excused'[b] = excused[b]
    BY <1>1, <1>2, <2>1, <2>3 DEF ServiceTyped
  <2> QED BY <1>1, <1>2, <2>4, <2>5, <2>6, AgentKeeps
<1>7. CASE n <= Len(file) /\ n < Blocks
  <2>1. /\ received' = [received EXCEPT ![a] = data]
        /\ UNCHANGED <<stage, source, kept, cache, excused>>
    BY <1>2, <1>7 DEF Read
  <2> HIDE DEF data
  <2>2. ServiceTyped'
    BY <1>1, <1>2, <1>5, <1>7, <2>1 DEF ServiceTyped
  <2>3. received'[a] = data /\ Len(data) < Blocks /\ source[a] # NoFile
    BY <1>2, <1>4, <1>5, <1>7, <2>1 DEF ServiceTyped
  <2>4. stage'[a] = "reading" /\ kept'[a] = kept[a] /\ excused'[a] /\ source'[a] = source[a]
    BY <1>1, <1>2, <2>1
  <2>5. \A b \in Agents \ {a} :
          /\ wanted'[b] = wanted[b] /\ stage'[b] = stage[b] /\ source'[b] = source[b]
          /\ received'[b] = received[b] /\ kept'[b] = kept[b] /\ excused'[b] = excused[b]
    BY <1>1, <1>2, <2>1 DEF ServiceTyped
  <2> QED BY <1>1, <1>2, <1>3, <1>5, <1>7, <2>2, <2>3, <2>4, <2>5, AgentKeeps
<1>8. CASE n <= Len(file) /\ ~(n < Blocks)
  <2>1. /\ source' = [source EXCEPT ![a] = NoFile] /\ UNCHANGED received
        /\ IF Accepts(c.map, data)
             THEN /\ Ends(a, data) /\ UNCHANGED excused
                  /\ cache' = [cache EXCEPT ![a][c] = data]
             ELSE Fails(a, touched) /\ UNCHANGED <<kept, cache>>
    BY <1>2, <1>8 DEF Read
  <2>2. ~touched => Accepts(c.map, data)
    <3>1. source[a] # NoFile /\ Len(data) = Blocks /\ data \in Seq(MapBlocks)
      BY <1>2, <1>3, <1>4, <1>5, <1>8
    <3> HIDE DEF data
    <3> QED BY <1>2, <1>3, <1>5, <1>8, <3>1, WholeMap DEF Accepts
  <2> HIDE DEF data
  <2>3. source'[a] = NoFile
    BY <1>2, <2>1 DEF ServiceTyped
  <2>4. CASE Accepts(c.map, data)
    <3>1. /\ stage' = [stage EXCEPT ![a] = "loaded"] /\ kept' = [kept EXCEPT ![a] = data]
          /\ UNCHANGED <<received, excused>> /\ cache' = [cache EXCEPT ![a][c] = data]
      BY <2>1, <2>4 DEF Ends
    <3>2. data = BlocksOf(c.map) /\ data # <<>> /\ data \in Seq(MapBlocks)
      BY <1>2, <2>4, BlocksOfMap DEF Accepts
    <3>3. cache' \in [Agents -> [Entries -> Seq(MapBlocks)]]
      BY <1>2, <3>1, <3>2 DEF ServiceTyped
    <3>4. ServiceTyped'
      BY <1>1, <1>2, <2>1, <3>1, <3>2, <3>3 DEF ServiceTyped
    <3>5. kept'[a] = data /\ excused'[a]
      BY <1>2, <3>1 DEF ServiceTyped
    <3>6. \A b \in Agents \ {a} :
            /\ wanted'[b] = wanted[b] /\ stage'[b] = stage[b] /\ source'[b] = source[b]
            /\ received'[b] = received[b] /\ kept'[b] = kept[b] /\ excused'[b] = excused[b]
      BY <1>1, <1>2, <2>1, <3>1 DEF ServiceTyped
    <3> QED BY <1>1, <1>2, <2>3, <3>2, <3>4, <3>5, <3>6, AgentKeeps
  <2>5. CASE ~Accepts(c.map, data)
    <3>1. Fails(a, touched) /\ UNCHANGED <<kept, cache, received>> /\ touched
      BY <2>1, <2>2, <2>5
    <3>2. /\ stage' = [stage EXCEPT ![a] = "failed"] /\ excused' = [excused EXCEPT ![a] = touched]
      BY <3>1 DEF Fails
    <3>3. ServiceTyped'
      BY <1>1, <1>2, <2>1, <3>1, <3>2 DEF ServiceTyped
    <3>4. stage'[a] = "failed" /\ excused'[a] /\ kept'[a] = kept[a]
      BY <1>2, <3>1, <3>2 DEF ServiceTyped
    <3>5. \A b \in Agents \ {a} :
            /\ wanted'[b] = wanted[b] /\ stage'[b] = stage[b] /\ source'[b] = source[b]
            /\ received'[b] = received[b] /\ kept'[b] = kept[b] /\ excused'[b] = excused[b]
      BY <1>1, <1>2, <2>1, <3>1, <3>2 DEF ServiceTyped
    <3> QED BY <1>1, <1>2, <2>3, <3>3, <3>4, <3>5, AgentKeeps
  <2> QED BY <2>4, <2>5
<1> QED BY <1>2, <1>6, <1>7, <1>8

LEMMA AskAgainKeeps == ASSUME ServiceInv, NEW a \in Agents, AskAgain(a) PROVE ServiceInv'
<1>1. /\ stage[a] = "failed" /\ stage' = [stage EXCEPT ![a] = "asking"]
      /\ UNCHANGED <<operatorVars, runningVars, build, server, era, path, contents, copying,
                     wanted, source, received, kept, cache, excused, touched>>
  BY DEF AskAgain, operatorVars, runningVars
<1>2. ServiceTyped' /\ source[a] = NoFile /\ stage'[a] = "asking"
  BY <1>1 DEF ServiceInv, ServiceTyped, StreamsOfBuild
<1>3. excused'[a] /\ kept'[a] \in {<<>>, BlocksOf(wanted'[a].entry.map)}
  BY <1>1 DEF ServiceInv, Honest
<1>4. \A b \in Agents \ {a} : stage'[b] = stage[b]
  BY <1>1 DEF ServiceInv, ServiceTyped
<1> QED BY <1>1, <1>2, <1>3, <1>4, AgentKeeps

----------------------------------------------------------------------------
LEMMA ServiceStepKeeps == ASSUME ServiceAssumption, ServiceInv, [ServiceNext]_serviceVars PROVE ServiceInv'
<1>1. CASE UNCHANGED serviceVars
  <2>1. UNCHANGED <<build, server, era, assets, path, contents, copying, wanted, stage, source,
                    received, kept, cache, touched, excused>>
    BY <1>1 DEF serviceVars, operatorVars, runningVars, agentVars
  <2> QED BY <2>1 DEF ServiceInv, ServiceTyped, TableOfBuild, FileOfBuild, StreamsOfBuild, PiecesOfMap,
                      Honest, AssetKey
<1>2. CASE RunServer
  BY <1>2, RunServerKeeps
<1>3. CASE ShutdownSignal \/ Drained \/ Kill
  BY <1>3, ServerStops
<1>4. CASE \E b \in Entries, c \in Configs : Deploy(b, c)
  BY <1>4, DeployKeeps
<1>5. CASE (\E m \in Maps : Copy(m) \/ Replace(m)) \/ Remove
  <2>1. build.map \in Maps
    BY DEF ServiceInv, ServiceTyped, Entries
  <2> QED BY <1>5, <2>1, CopyKeeps
<1>6. CASE CopyBlock
  BY <1>6, CopyBlockKeeps
<1>7. ASSUME NEW a \in Agents, AgentStep(a) PROVE ServiceInv'
  BY <1>7, FetchEntryKeeps, RequestKeeps, ReadKeeps, AskAgainKeeps DEF AgentStep
<1> QED BY <1>1, <1>2, <1>3, <1>4, <1>5, <1>6, <1>7 DEF ServiceNext

(* An agent keeps only the map of its catalogue, every failure has its     *)
(* cause and a server that is up is ready, for any number of agents, maps, *)
(* blocks and changes.                                                     *)
THEOREM DownloadsHold == ServiceAssumption => (ServiceSpec => []DownloadsAreHonest)
<1> SUFFICES ASSUME ServiceAssumption PROVE ServiceSpec => []DownloadsAreHonest
  OBVIOUS
<1>1. ServiceInit => ServiceInv
  BY ServiceInitHolds
<1>2. ServiceInv /\ [ServiceNext]_serviceVars => ServiceInv'
  BY ServiceStepKeeps
<1>3. ServiceInv => DownloadsAreHonest
  BY DEF ServiceInv, Honest, TableOfBuild, Readiness, AssetKey, DownloadsAreHonest
<1> QED BY <1>1, <1>2, <1>3, PTL DEF ServiceSpec
=============================================================================
