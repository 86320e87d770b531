---------------------------- MODULE AgentCatalog ----------------------------
(* How the lobbies of the catalogue get into Warcraft's LAN list and are   *)
(* joined from it: main, activate_lobby, bind_lobby_listeners and          *)
(* accept_connections of apps/strajer-agent/src/main.rs, PublishedLobby    *)
(* and the record of strajer-lan, and REQJOIN of strajer-w3gs.             *)
(*                                                                         *)
(* One lobby after the other gets a port that is free on both loopback     *)
(* addresses, an advertisement and a task that accepts connections; then   *)
(* the catalogue is fetched every 30 seconds, and the agent ends when it   *)
(* has changed.  Its supervisor starts it again (module AgentSupervisor).  *)
EXTENDS Naturals, Sequences, FiniteSets

CONSTANTS
  Catalogs,       \* catalogues of the server: sequences of lobby descriptors,
                  \* each with its `game', lan_game_id and game_secret
  Ports,
  BindAttempts,   \* LOBBY_BIND_ATTEMPTS
  MaxChanges,     \* bound: changes of the server's catalogue
  MaxOutages,     \* bound: times the server cannot be reached
  MaxFailures,    \* bound: publications and listeners that fail
  MaxForeign,     \* assumption: IPv6 ports of other programs at one time
  MaxTakeovers,   \* bound: ports that other programs take or leave
  MaxJoins        \* bound: joins

(* LobbyCatalog::validate refuses a game that is there twice. *)
CatalogAssumption ==
  /\ Catalogs # {}
  /\ \A c \in Catalogs :
       /\ c \in Seq({c[i] : i \in DOMAIN c})
       /\ \A i, j \in DOMAIN c : c[i].game = c[j].game => i = j
  /\ BindAttempts \in Nat \ {0} /\ Ports \subseteq Nat \ {0}
  /\ {MaxChanges, MaxOutages, MaxFailures, MaxForeign, MaxTakeovers, MaxJoins} \subseteq Nat

VARIABLES
  catalog, reachable,    \* the server
  foreign,               \* IPv6 ports of other programs
  phase, active, todo,   \* the agent, its catalogue and what is not active yet
  attempts, bound,       \* the lobby that is being activated: ports tried and taken
  ads, listeners,        \* advertisements and tasks that accept
  failed,                \* history: advertisements whose task has ended
  picked,                \* the advertisement that a player has picked in Warcraft
  joins,                 \* history: whom the joins have reached
  changes, outages, failures, takeovers

serverVars == <<catalog, reachable, changes, outages>>
playerVars == <<picked, joins>>
outsideVars == <<foreign, takeovers, playerVars>>
activation == <<todo, attempts, bound>>
published == <<ads, listeners, failed>>
vars == <<serverVars, outsideVars, phase, active, activation, published, failures>>

Phases == {"down", "starting", "activating", "running"}
NoPort == 0
Lobbies(c) == {c[i] : i \in DOMAIN c}
AllLobbies == UNION {Lobbies(c) : c \in Catalogs}
Ad == [lobby: AllLobbies, port: Ports]

(* validate_runtime_catalog: an empty catalogue stands for all bad ones.   *)
Valid(c) == c # <<>>

(* With the process its sockets are closed and its records withdrawn.      *)
Exit ==
  /\ phase' = "down" /\ active' = <<>> /\ todo' = <<>> /\ attempts' = 0 /\ bound' = NoPort
  /\ ads' = {} /\ listeners' = {} /\ failed' = {}

----------------------------------------------------------------------------
(* Activation. *)

Start ==
  /\ phase = "down" /\ phase' = "starting"
  /\ UNCHANGED <<serverVars, outsideVars, active, activation, published, failures>>

FetchCatalog ==
  /\ phase = "starting"
  /\ IF reachable /\ Valid(catalog)
       THEN /\ phase' = "activating" /\ active' = catalog /\ todo' = catalog
            /\ UNCHANGED <<attempts, bound, published>>
       ELSE Exit
  /\ UNCHANGED <<serverVars, outsideVars, failures>>

PortsInUse == {l.port : l \in listeners}

SharesPort(p) == p \notin foreign

TriesAgain == attempts + 1 < BindAttempts

(* The system picks a free IPv4 port; the same IPv6 port may be in use.    *)
BindListeners ==
  /\ phase = "activating" /\ todo # <<>> /\ bound = NoPort
  /\ \E p \in Ports \ PortsInUse :
       IF SharesPort(p)
         THEN /\ bound' = p /\ attempts' = 0
              /\ UNCHANGED <<phase, active, todo, published>>
         ELSE IF TriesAgain
           THEN /\ attempts' = attempts + 1
                /\ UNCHANGED <<phase, active, todo, bound, published>>
           ELSE Exit
  /\ UNCHANGED <<serverVars, outsideVars, failures>>

(* For the lobby that n - 1 others follow, the port was free on both.      *)
BindsFor(n) == BindListeners /\ Len(todo) = n /\ bound' # NoPort

Publish ==
  /\ phase = "activating" /\ bound # NoPort
  /\ \/ /\ ads' = ads \cup {[lobby |-> Head(todo), port |-> bound]}
        /\ listeners' = listeners \cup {[lobby |-> Head(todo), port |-> bound]}
        /\ todo' = Tail(todo) /\ bound' = NoPort
        /\ UNCHANGED <<phase, active, attempts, failed, failures>>
     \/ /\ failures < MaxFailures /\ failures' = failures + 1
        /\ Exit
  /\ UNCHANGED <<serverVars, outsideVars>>

Ready ==
  /\ phase = "activating" /\ todo = <<>> /\ phase' = "running"
  /\ UNCHANGED <<serverVars, outsideVars, active, activation, published, failures>>

----------------------------------------------------------------------------
(* The published agent. *)

WrongRequiresRestart(c) == ~(Lobbies(active) \subseteq Lobbies(c))
RequiresRestart(c) == active # c

(* Errors of the request and invalid catalogues keep the publications.     *)
Refresh ==
  /\ phase = "running" /\ reachable /\ Valid(catalog) /\ RequiresRestart(catalog)
  /\ Exit
  /\ UNCHANGED <<serverVars, outsideVars, failures>>

(* accept fails, or the connection numbers are exhausted: nobody looks at  *)
(* the task until the agent ends.                                          *)
ListenerFails(l) ==
  /\ failures < MaxFailures /\ failures' = failures + 1
  /\ listeners' = listeners \ {l} /\ failed' = failed \cup {l}
  /\ UNCHANGED <<serverVars, outsideVars, phase, active, activation, ads>>

(* A signal, or standard input that is closed with the supervisor.         *)
Shutdown ==
  /\ phase = "running" /\ failures < MaxFailures /\ failures' = failures + 1
  /\ Exit
  /\ UNCHANGED <<serverVars, outsideVars>>

----------------------------------------------------------------------------
(* A player, in Warcraft's list. *)

(* The record has the game and the port; it may be withdrawn while Warcraft *)
(* shows it.                                                                *)
PickLobby(ad) ==
  /\ ad \in ads /\ picked = {} /\ Cardinality(joins) < MaxJoins /\ picked' = {ad}
  /\ UNCHANGED <<serverVars, foreign, takeovers, phase, active, activation, published, joins,
                 failures>>

WrongAdmits(lobby, game) == TRUE
(* validate_join_request *)
Admits(lobby, game) == lobby.game = game

(* REQJOIN, from a Warcraft whose name and connection are as they should,  *)
(* to whoever listens on the port now.                                     *)
Join(ad) ==
  /\ ad \in picked /\ picked' = {}
  /\ joins' = joins \cup
       {[saw |-> ad.lobby, listed |-> ad \in ads, got |-> l.lobby] :
          l \in {l \in listeners : l.port = ad.port /\ Admits(l.lobby, ad.lobby.game)}}
  /\ UNCHANGED <<serverVars, foreign, takeovers, phase, active, activation, published, failures>>

----------------------------------------------------------------------------
(* The surroundings. *)

ChangeCatalog(c) ==
  /\ changes < MaxChanges /\ changes' = changes + 1 /\ c # catalog /\ catalog' = c
  /\ UNCHANGED <<reachable, outages, outsideVars, phase, active, activation, published, failures>>

LoseServer ==
  /\ reachable /\ outages < MaxOutages /\ outages' = outages + 1 /\ reachable' = FALSE
  /\ UNCHANGED <<catalog, changes, outsideVars, phase, active, activation, published, failures>>

ReachServer ==
  /\ ~reachable /\ reachable' = TRUE
  /\ UNCHANGED <<catalog, changes, outages, outsideVars, phase, active, activation, published,
                 failures>>

OtherProgram(p) ==
  /\ takeovers < MaxTakeovers /\ takeovers' = takeovers + 1
  /\ p \notin PortsInUse \cup {bound}
  /\ foreign' = IF p \in foreign THEN foreign \ {p} ELSE foreign \cup {p}
  /\ Cardinality(foreign') <= MaxForeign
  /\ UNCHANGED <<serverVars, playerVars, phase, active, activation, published, failures>>

----------------------------------------------------------------------------
Init ==
  /\ catalog \in Catalogs /\ reachable = TRUE
  /\ foreign \in SUBSET Ports /\ Cardinality(foreign) <= MaxForeign
  /\ phase = "down" /\ active = <<>> /\ todo = <<>> /\ attempts = 0 /\ bound = NoPort
  /\ ads = {} /\ listeners = {} /\ failed = {} /\ picked = {} /\ joins = {}
  /\ changes = 0 /\ outages = 0 /\ failures = 0 /\ takeovers = 0

Agent == FetchCatalog \/ BindListeners \/ Publish \/ Ready \/ Refresh

Next ==
  \/ Start \/ Agent \/ Shutdown
  \/ \E l \in listeners : ListenerFails(l)
  \/ (\E ad \in ads : PickLobby(ad)) \/ (\E ad \in picked : Join(ad))
  \/ \E c \in Catalogs : ChangeCatalog(c)
  \/ LoseServer \/ ReachServer
  \/ \E p \in Ports : OtherProgram(p)

Spec == Init /\ [][Next]_vars

----------------------------------------------------------------------------
(* Every variable keeps its type. *)
TypeOK ==
  /\ catalog \in Catalogs /\ reachable \in BOOLEAN /\ foreign \subseteq Ports
  /\ phase \in Phases /\ active \in Catalogs \cup {<<>>}
  /\ attempts < BindAttempts /\ bound \in Ports \cup {NoPort}
  /\ ads \subseteq Ad /\ listeners \subseteq Ad /\ failed \subseteq Ad /\ picked \subseteq Ad

(* What Warcraft lists can be joined, on a port that is the lobby's alone  *)
(* and that no other program has on the other loopback address; only a     *)
(* listener that ended leaves an advertisement behind, and none outlives   *)
(* the agent.  Who joins gets the very lobby that the list shows or, when  *)
(* it is not listed any more, a later form of the same game: never another *)
(* game that has come to its port.                                         *)
AdsCanBeJoined ==
  /\ TypeOK
  /\ ads = listeners \cup failed
  /\ \A l \in listeners :
       /\ l.port \notin foreign
       /\ \A other \in listeners : other.port = l.port => other = l
  /\ phase = "down" => ads = {}
  /\ \A j \in joins : j.got.game = j.saw.game /\ (j.listed => j.got = j.saw)

(* Once the server keeps a valid catalogue, Warcraft comes to list its     *)
(* lobbies and nothing else, whatever failed or changed on the way.        *)
AdsFollowTheCatalog ==
  <>[][FALSE]_catalog
    => <>[](Valid(catalog) => {ad.lobby : ad \in ads} = Lobbies(catalog))
=============================================================================
