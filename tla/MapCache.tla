------------------------------ MODULE MapCache ------------------------------
(* The agent's map cache, apps/strajer-agent/src/local_map.rs: a map is    *)
(* taken from the Warcraft installation, from the cache file or from the   *)
(* server, checked against its catalogue entry, and kept in memory.        *)
(*                                                                         *)
(* Every published lobby has a MapCache of its own, shared by its prefetch *)
(* and by its Warcraft sessions; lobbies of the same map share the cache   *)
(* file and its directory.  A session's load may be aborted at any await   *)
(* (main.rs:1197), and the process may end at any moment and be started    *)
(* again, under an identifier used before.                                 *)
(*                                                                         *)
(* Contents of files are abstracted to whether they are the map.           *)
EXTENDS Naturals, FiniteSets

CONSTANTS
  Lobbies,       \* the lobbies published, all of the same map
  Sessions,      \* the loads of Warcraft sessions
  ProcessIds,    \* identifiers the agent's process may get
  MaxRestarts,   \* bound: restarts of the agent
  MaxDamages     \* bound: times the files are changed from outside

ASSUME CacheAssumption ==
  /\ Lobbies \cap Sessions = {} /\ (Lobbies = {} => Sessions = {})
  /\ MaxRestarts \in Nat /\ MaxDamages \in Nat

VARIABLES
  cell,         \* per lobby, the contents of its OnceCell
  loadStage,        \* per load, where it is
  lobbyOf,      \* per load, the lobby whose map it loads
  temporary,    \* per load, its temporary file's name
  installed,    \* the contents of the map in the Warcraft installation
  cacheFile,    \* the contents of cache_path
  directory,    \* temporary files, from names to contents
  pid,          \* std::process::id
  sequence,     \* DOWNLOAD_SEQUENCE
  restarts, damages

loadVars == <<loadStage, lobbyOf, temporary>>
cacheVars == <<cell, loadVars, installed, cacheFile, directory, pid, sequence, restarts, damages>>

Loads == Lobbies \cup Sessions
Contents == {"partial", "map", "other"}   \* a file that is not there is an other one
Initializing == {"installed", "cached", "naming", "opening", "reading", "renaming", "removing"}
Finished == {"loaded", "failed", "aborted"}
Stages == {"idle", "waiting"} \cup Initializing \cup Finished
TemporaryNames == ProcessIds \X Nat
NoName == <<>>

Move(i, to) == loadStage' = [loadStage EXCEPT ![i] = to]

----------------------------------------------------------------------------
(* MapCache::load *)

(* The task that a session spawns when Warcraft asks for the map. *)
Request(i, l) ==
  /\ i \in Sessions /\ loadStage[i] = "idle"
  /\ Move(i, "waiting")
  /\ lobbyOf' = [lobbyOf EXCEPT ![i] = l]
  /\ UNCHANGED <<cell, temporary, installed, cacheFile, directory, pid, sequence,
                 restarts, damages>>

WrongUninitialized(l) ==
  ~\E i \in Loads : lobbyOf[i] = l /\ loadStage[i] \in Initializing \cup {"aborted"}

(* tokio's OnceCell lets one initializer run, and the next one when that   *)
(* failed or was dropped.                                                  *)
Uninitialized(l) == ~\E i \in Loads : lobbyOf[i] = l /\ loadStage[i] \in Initializing

GetOrTryInit(i) ==
  /\ loadStage[i] = "waiting"
  /\ \/ cell[lobbyOf[i]] # "absent" /\ Move(i, "loaded")
     \/ cell[lobbyOf[i]] = "absent" /\ Uninitialized(lobbyOf[i]) /\ Move(i, "installed")
  /\ UNCHANGED <<cell, lobbyOf, temporary, installed, cacheFile, directory, pid, sequence,
                 restarts, damages>>

(* The initializer's result is that of load. *)
Keep(i, contents) ==
  /\ cell' = [cell EXCEPT ![lobbyOf[i]] = contents]
  /\ Move(i, "loaded")

(* load_valid_map: size, CRC-32 and SHA-1 of what was read. *)
Valid(contents) == contents = "map"

Look(i, at, contents, otherwise) ==
  /\ loadStage[i] = at
  /\ \/ Valid(contents) /\ Keep(i, contents)
     \/ ~Valid(contents) /\ Move(i, otherwise) /\ UNCHANGED cell
  /\ UNCHANGED <<lobbyOf, temporary, installed, cacheFile, directory, pid, sequence,
                 restarts, damages>>

LookInstalled(i) == Look(i, "installed", installed, "cached")
LookCached(i) == Look(i, "cached", cacheFile, "naming")

----------------------------------------------------------------------------
(* download_map *)

WrongTemporaryName == <<pid, 0>>

TemporaryName == <<pid, sequence>>

TakeName(i) ==
  /\ loadStage[i] = "naming"
  /\ temporary' = [temporary EXCEPT ![i] = TemporaryName]
  /\ sequence' = sequence + 1
  /\ Move(i, "opening")
  /\ UNCHANGED <<cell, lobbyOf, installed, cacheFile, directory, pid, restarts, damages>>

With(name, contents) ==
  [n \in DOMAIN directory \cup {name} |-> IF n = name THEN contents ELSE directory[n]]

Without(name) == [n \in DOMAIN directory \ {name} |-> directory[n]]

(* The request may be refused, and create_new fails on a file that is left *)
(* from another process of the same identifier.                            *)
OpenTemporary(i) ==
  /\ loadStage[i] = "opening"
  /\ \/ Move(i, "removing") /\ UNCHANGED directory
     \/ /\ temporary[i] \notin DOMAIN directory
        /\ directory' = With(temporary[i], "partial")
        /\ Move(i, "reading")
  /\ UNCHANGED <<cell, lobbyOf, temporary, installed, cacheFile, pid, sequence, restarts,
                 damages>>

(* What passes the check of size, CRC-32 and SHA-1 once it was received. *)
Verified == {"map"}

(* The response may end early, be too long or fail; what arrived is        *)
(* checked before it is flushed.                                           *)
ReadResponse(i) ==
  /\ loadStage[i] = "reading"
  /\ \/ \E contents \in Verified :
          /\ Move(i, "renaming")
          /\ directory' = IF temporary[i] \in DOMAIN directory
                          THEN With(temporary[i], contents) ELSE directory
     \/ Move(i, "removing") /\ UNCHANGED directory
  /\ UNCHANGED <<cell, lobbyOf, temporary, installed, cacheFile, pid, sequence, restarts,
                 damages>>

(* The data kept is what was received and checked, not the file. *)
Install(i) ==
  /\ loadStage[i] = "renaming"
  /\ \/ /\ temporary[i] \in DOMAIN directory
        /\ cacheFile' = directory[temporary[i]]
        /\ directory' = Without(temporary[i])
        /\ Keep(i, "map")
     \/ Move(i, "removing") /\ UNCHANGED <<cell, cacheFile, directory>>
  /\ UNCHANGED <<lobbyOf, temporary, installed, pid, sequence, restarts, damages>>

(* Any error of the download ends here, that of create_new too. *)
RemoveTemporary(i) ==
  /\ loadStage[i] = "removing"
  /\ directory' = Without(temporary[i])
  /\ Move(i, "failed")
  /\ UNCHANGED <<cell, lobbyOf, temporary, installed, cacheFile, pid, sequence, restarts,
                 damages>>

----------------------------------------------------------------------------
(* What ends a load, and what changes the files, from outside. *)

(* Warcraft has the map after all. *)
Abort(i) ==
  /\ i \in Sessions /\ loadStage[i] \in {"waiting"} \cup Initializing
  /\ Move(i, "aborted")
  /\ UNCHANGED <<cell, lobbyOf, temporary, installed, cacheFile, directory, pid, sequence,
                 restarts, damages>>

(* A new agent prefetches the map of every lobby. *)
Prefetches == [i \in Loads |-> IF i \in Lobbies THEN "waiting" ELSE "idle"]
OwnLobby == [i \in Loads |-> IF i \in Lobbies THEN i ELSE CHOOSE l \in Lobbies : TRUE]

RestartAgent ==
  /\ restarts < MaxRestarts
  /\ restarts' = restarts + 1
  /\ cell' = [l \in Lobbies |-> "absent"]
  /\ loadStage' = Prefetches /\ lobbyOf' = OwnLobby
  /\ temporary' = [i \in Loads |-> NoName]
  /\ pid' \in ProcessIds /\ sequence' = 1
  /\ UNCHANGED <<installed, cacheFile, directory, damages>>

Damage ==
  /\ damages < MaxDamages
  /\ damages' = damages + 1
  /\ \/ installed' \in {"map", "other"} /\ UNCHANGED cacheFile
     \/ cacheFile' = "other" /\ UNCHANGED installed
  /\ UNCHANGED <<cell, loadVars, directory, pid, sequence, restarts>>

----------------------------------------------------------------------------
CacheInit ==
  /\ cell = [l \in Lobbies |-> "absent"]
  /\ loadStage = Prefetches /\ lobbyOf = OwnLobby
  /\ temporary = [i \in Loads |-> NoName]
  /\ installed \in {"map", "other"} /\ cacheFile \in {"map", "other"}
  /\ directory = [n \in {} |-> "absent"]
  /\ pid \in ProcessIds /\ sequence = 1
  /\ restarts = 0 /\ damages = 0

LoadStep(i) ==
  \/ GetOrTryInit(i) \/ LookInstalled(i) \/ LookCached(i)
  \/ TakeName(i) \/ OpenTemporary(i) \/ ReadResponse(i) \/ Install(i) \/ RemoveTemporary(i)

CacheNext ==
  \/ \E i \in Loads : LoadStep(i) \/ Abort(i) \/ (\E l \in Lobbies : Request(i, l))
  \/ RestartAgent \/ Damage

CacheSpec == CacheInit /\ [][CacheNext]_cacheVars

----------------------------------------------------------------------------
(* Every variable of the cache keeps its type. *)
CacheTypeOK ==
  /\ cell \in [Lobbies -> {"absent", "map"}]
  /\ loadStage \in [Loads -> Stages] /\ lobbyOf \in [Loads -> Lobbies]
  /\ temporary \in [Loads -> TemporaryNames \cup {NoName}]
  /\ installed \in Contents /\ cacheFile \in Contents
  /\ DOMAIN directory \subseteq TemporaryNames /\ \A n \in DOMAIN directory : directory[n] \in Contents
  /\ pid \in ProcessIds /\ sequence \in Nat

(* Loads of several lobbies write to the same directory, and a failed load *)
(* removes a file it may not have created: it never is one that another    *)
(* load still writes or is about to rename.                                *)
DownloadsKeepTheirFiles ==
  /\ CacheTypeOK
  /\ \A i \in Loads :
       loadStage[i] \in {"reading", "renaming"} =>
         /\ temporary[i] \in DOMAIN directory
         /\ \A j \in Loads \ {i} : loadStage[j] \in Initializing => temporary[j] # temporary[i]

(* Loads end, unless their agent does, even those that wait for one that   *)
(* is aborted or fails: one that waits goes on in its place.  So again and *)
(* again no load is under way.                                             *)
EveryLoadEnds == []<>(\A i \in Loads : loadStage[i] \in Finished \cup {"idle"})
=============================================================================
