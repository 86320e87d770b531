----------------------------- MODULE MapService -----------------------------
(* The server's side of the map: a server starts only with the map of its  *)
(* catalogue, verified once, and streams the file to the agents, which     *)
(* check what they receive (apps/strajer-server/src/main.rs, config.rs,    *)
(* state.rs, map_asset.rs and http.rs; the agent's side in detail is       *)
(* module MapCache).                                                       *)
(*                                                                         *)
(* The operator deploys builds with other maps, copies maps over the file, *)
(* replaces or removes it, and stops the server or kills it, at any time,  *)
(* also while the server streams it.  A map is a sequence of its blocks.   *)
EXTENDS Naturals, Sequences, FiniteSets

CONSTANTS
  Agents,
  Maps,         \* maps, by the SHA-1 in their catalogue entries
  Spellings,    \* which may be written in capital letters
  Tokens, NoToken,
  AgentToken,   \* the token with which the agents were packaged
  Blocks,       \* blocks of a map
  Inodes,       \* files at and once at the map's path
  NoFile,
  MaxStarts, MaxTouches   \* bounds: of the server, of the operator's changes

ServiceAssumption ==
  /\ "small" \in Spellings /\ NoToken \notin Tokens /\ AgentToken \in Tokens /\ NoFile \notin Inodes
  /\ Blocks \in Nat \ {0} /\ {MaxStarts, MaxTouches} \subseteq Nat

VARIABLES
  build,      \* the program that is deployed: the map of its catalogue
  config,     \* its environment
  server,     \* down, up or draining
  era,        \* the catalogue's created_at_unix_seconds
  assets,     \* map_assets, by their keys
  path,       \* what is at STRAJER_MAP_PATH
  contents,   \* of every inode, its blocks
  copying,    \* the map that the operator copies over the file, if any
  wanted,     \* per agent, the catalogue with which it was started
  stage,      \* per agent, where its load is
  source,     \* per agent, the file that the server streams to it
  received,   \* per agent, the blocks it has
  kept,       \* per agent, the map in its memory
  cache,      \* per agent, its cache files
  touched,    \* history: the file was changed since the server verified it
  excused,    \* history: per agent, its last failure has a cause
  touches

operatorVars == <<build, config, path, contents, copying, touches>>
runningVars == <<server, era, assets>>
agentVars == <<wanted, stage, source, received, kept, cache, excused>>
serviceVars == <<operatorVars, runningVars, agentVars, touched>>

Entries == [map : Maps, spelling : Spellings]
Configs == [token : Tokens \cup {NoToken}, public : BOOLEAN]

BlocksOf(m) == [i \in 1..Blocks |-> <<m, i>>]

----------------------------------------------------------------------------
(* The server. *)

(* ServerConfig::from_environment *)
ValidConfig(c) == c.public => c.token # NoToken

(* MapAsset::load: size, CRC-32 and SHA-1 of the file. *)
Verifies(m, data) == data = BlocksOf(m)

(* to_ascii_lowercase *)
InSmallLetters(c) == [c EXCEPT !.spelling = "small"]

WrongAssetKey(c) == c
(* The key of the table; a request's SHA-1 is put in small letters too.    *)
AssetKey(c) == InSmallLetters(c)

RunServer ==
  /\ server = "down" /\ era < MaxStarts
  /\ ValidConfig(config) /\ path # NoFile /\ Verifies(build.map, contents[path])
  /\ server' = "up" /\ era' = era + 1 /\ assets' = {AssetKey(build)} /\ touched' = FALSE
  /\ UNCHANGED <<operatorVars, agentVars>>

(* readiness, which the container's health check asks for. *)
Readiness == server = "up" /\ InSmallLetters(build) \in assets

(* A signal: no new connections, and the streams under way are finished.   *)
ShutdownSignal ==
  /\ server = "up" /\ server' = "draining"
  /\ UNCHANGED <<operatorVars, agentVars, era, assets, touched>>

Drained ==
  /\ server = "draining" /\ \A a \in Agents : source[a] = NoFile
  /\ server' = "down" /\ assets' = {}
  /\ UNCHANGED <<operatorVars, agentVars, era, touched>>

(* The streams are cut. *)
Kill ==
  /\ server # "down" /\ server' = "down" /\ assets' = {}
  /\ source' = [a \in Agents |-> NoFile]
  /\ UNCHANGED <<operatorVars, era, wanted, stage, received, kept, cache, excused, touched>>

(* authorizes_lobby_session *)
Authorizes == config.token \in {NoToken, AgentToken}

(* map_download: a file of whatever contents, with the length of the one   *)
(* that was verified.                                                      *)
Responds(c) == server = "up" /\ Authorizes /\ InSmallLetters(c) \in assets /\ path # NoFile

----------------------------------------------------------------------------
(* The operator. *)

Touches ==
  /\ touches < MaxTouches /\ touches' = touches + 1 /\ touched' = TRUE
  /\ UNCHANGED <<build, config, runningVars, agentVars>>

Deploy(b, c) ==
  /\ server = "down" /\ touches < MaxTouches /\ touches' = touches + 1
  /\ build' = b /\ config' = c
  /\ UNCHANGED <<path, contents, copying, runningVars, agentVars, touched>>

(* cp truncates the file that is there and then fills it. *)
Copy(m) ==
  /\ path # NoFile /\ Touches
  /\ contents' = [contents EXCEPT ![path] = <<>>] /\ copying' = {m}
  /\ UNCHANGED path

CopyBlock ==
  /\ path # NoFile
  /\ \E m \in copying :
       LET next == Append(contents[path], <<m, Len(contents[path]) + 1>>)
       IN  /\ contents' = [contents EXCEPT ![path] = next]
           /\ copying' = IF Len(next) = Blocks THEN {} ELSE copying
  /\ touched' = TRUE
  /\ UNCHANGED <<build, config, path, touches, runningVars, agentVars>>

(* mv replaces the file; who has the old one open goes on reading it.      *)
Replace(m) ==
  /\ Touches
  /\ \E i \in Inodes \ {source[a] : a \in Agents} :
       /\ i # path
       /\ path' = i /\ contents' = [contents EXCEPT ![i] = BlocksOf(m)]
  /\ copying' = {}

Remove ==
  /\ path # NoFile /\ Touches /\ path' = NoFile /\ copying' = {}
  /\ UNCHANGED contents

----------------------------------------------------------------------------
(* An agent: its catalogue and MapCache::load. *)

Catalog == [entry |-> build, era |-> era]

(* The agent starts again when a catalogue is not the one it has, which    *)
(* every start of the server makes another; its memory is lost.            *)
FetchEntry(a) ==
  /\ server = "up" /\ wanted[a] # Catalog
  /\ wanted' = [wanted EXCEPT ![a] = Catalog]
  /\ stage' = [stage EXCEPT ![a] = "asking"] /\ source' = [source EXCEPT ![a] = NoFile]
  /\ kept' = [kept EXCEPT ![a] = <<>>] /\ received' = [received EXCEPT ![a] = <<>>]
  /\ UNCHANGED <<operatorVars, runningVars, cache, excused, touched>>

Ends(a, data) ==
  /\ stage' = [stage EXCEPT ![a] = "loaded"]
  /\ kept' = [kept EXCEPT ![a] = data]

Fails(a, excuse) ==
  /\ stage' = [stage EXCEPT ![a] = "failed"]
  /\ excused' = [excused EXCEPT ![a] = excuse]

(* A file of the cache is used only if it is the map. *)
Request(a) ==
  /\ stage[a] = "asking"
  /\ LET c == wanted[a].entry
     IN  IF Verifies(c.map, cache[a][c])
           THEN Ends(a, cache[a][c]) /\ UNCHANGED <<source, received, excused>>
         ELSE IF Responds(c)
           THEN /\ stage' = [stage EXCEPT ![a] = "reading"]
                /\ source' = [source EXCEPT ![a] = path]
                /\ received' = [received EXCEPT ![a] = <<>>]
                /\ UNCHANGED <<kept, excused>>
         ELSE /\ Fails(a, server # "up" \/ ~Authorizes \/ touched \/ wanted[a] # Catalog)
              /\ UNCHANGED <<source, received, kept>>
  /\ UNCHANGED <<operatorVars, runningVars, wanted, cache, touched>>

WrongAccepts(m, data) == Len(data) = Blocks
(* validate_hash, of what was received. *)
Accepts(m, data) == data = BlocksOf(m)

(* The next block of the file, if there is one: as many as the response    *)
(* has announced make the map.                                             *)
Read(a) ==
  /\ stage[a] = "reading"
  /\ LET c == wanted[a].entry
         file == IF source[a] = NoFile THEN <<>> ELSE contents[source[a]]
         n == Len(received[a]) + 1
         data == Append(received[a], file[n])
     IN  IF n > Len(file)
           THEN /\ Fails(a, source[a] = NoFile \/ touched)
                /\ source' = [source EXCEPT ![a] = NoFile] /\ UNCHANGED <<received, kept, cache>>
         ELSE IF n < Blocks
           THEN /\ received' = [received EXCEPT ![a] = data]
                /\ UNCHANGED <<stage, source, kept, cache, excused>>
         ELSE /\ source' = [source EXCEPT ![a] = NoFile] /\ UNCHANGED received
              /\ IF Accepts(c.map, data)
                   THEN /\ Ends(a, data) /\ UNCHANGED excused
                        /\ cache' = [cache EXCEPT ![a][c] = data]
                   ELSE Fails(a, touched) /\ UNCHANGED <<kept, cache>>
  /\ UNCHANGED <<operatorVars, runningVars, wanted, touched>>

(* Another Warcraft asks for the map. *)
AskAgain(a) ==
  /\ stage[a] = "failed" /\ stage' = [stage EXCEPT ![a] = "asking"]
  /\ UNCHANGED <<operatorVars, runningVars, wanted, source, received, kept, cache, excused, touched>>

----------------------------------------------------------------------------
ServiceInit ==
  /\ build \in Entries /\ config \in Configs
  /\ server = "down" /\ era = 0 /\ assets = {}
  /\ path \in Inodes /\ contents = [i \in Inodes |-> BlocksOf(build.map)] /\ copying = {}
  /\ wanted = [a \in Agents |-> [entry |-> build, era |-> era]]
  /\ stage = [a \in Agents |-> "off"] /\ source = [a \in Agents |-> NoFile]
  /\ received = [a \in Agents |-> <<>>] /\ kept = received
  /\ cache = [a \in Agents |-> [c \in Entries |-> <<>>]]
  /\ touched = FALSE /\ excused = [a \in Agents |-> TRUE] /\ touches = 0

AgentStep(a) == FetchEntry(a) \/ Request(a) \/ Read(a) \/ AskAgain(a)

ServiceNext ==
  \/ RunServer \/ ShutdownSignal \/ Drained \/ Kill
  \/ \E b \in Entries, c \in Configs : Deploy(b, c)
  \/ \E m \in Maps : Copy(m) \/ Replace(m)
  \/ CopyBlock \/ Remove
  \/ \E a \in Agents : AgentStep(a)

ServiceSpec == ServiceInit /\ [][ServiceNext]_serviceVars

----------------------------------------------------------------------------
(* An agent keeps only the map of the catalogue it has, whatever happens   *)
(* to the file while it is read; a server that is up is ready; and if its  *)
(* file is left alone, every agent with its token and its catalogue gets   *)
(* the map.                                                                *)
DownloadsAreHonest ==
  \A a \in Agents :
    /\ kept[a] \in {<<>>, BlocksOf(wanted[a].entry.map)}
    /\ stage[a] = "loaded" => kept[a] # <<>>
    /\ excused[a]
    /\ server = "up" => Readiness

(* Once the server stays up, with the token of the agents and a file that  *)
(* is left alone, every agent comes to have the map, whatever failed       *)
(* before.                                                                 *)
MapsArrive ==
  <>[](server = "up" /\ Authorizes /\ ~touched) =>
    <>[](\A a \in Agents : stage[a] = "loaded" /\ kept[a] = BlocksOf(build.map))
=============================================================================
