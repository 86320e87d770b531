-------------------------- MODULE LobbyConnection --------------------------
(* The WebSocket between an agent and the lobby: the handshake with its    *)
(* timeouts and the heartbeats with their watchdogs, at both ends          *)
(* (RemoteLobbySession::connect and next_event in remote_lobby.rs,         *)
(* serve_lobby_socket and run_connected_lobby_socket in http.rs), while    *)
(* the network is cut in one direction or both, comes back, and machines   *)
(* lose their power.                                                       *)
(*                                                                         *)
(* One player joins the lobby from one agent, again and again; every       *)
(* attempt is a socket of its own.  Time passes in units of five seconds.  *)
(* What is sent arrives before time passes, unless the direction is cut:   *)
(* then TCP keeps it and delivers it later.  An end that was closed says   *)
(* so, and what still arrives there is thrown away.  Updates and game      *)
(* messages are activity as much as pings are, and are left out.           *)
EXTENDS Naturals, Sequences

CONSTANTS
  Sockets,
  Interval,   \* [Ends -> Nat]: REMOTE_ and LOBBY_HEARTBEAT_INTERVAL
  Limit,      \* [Ends -> Nat]: REMOTE_SERVER_ and LOBBY_CLIENT_IDLE_TIMEOUT
  JoinLimit,  \* REMOTE_CONNECT_, REMOTE_JOIN_ and LOBBY_JOIN_TIMEOUT
  MaxFaults,  \* bound: cuts and losses of power
  MaxQuits    \* bound: times the player leaves

Ends == {"agent", "server"}

ASSUME ConnectionAssumption ==
  /\ Interval \in [Ends -> Nat \ {0}] /\ Limit \in [Ends -> Nat]
  /\ \A e \in Ends : Interval[e] < Limit[e]
  /\ JoinLimit \in Nat \ {0} /\ MaxFaults \in Nat /\ MaxQuits \in Nat

VARIABLES
  at,      \* per end and socket, its stage, the age of the last activity or of
           \* the wait, the time to the next heartbeat and why it was closed
  wire,    \* per end and socket, what is on its way there
  up,      \* per end, whether what is sent there arrives
  rested,  \* the player has not tried to join within this unit of time
  orphan,  \* history: how long a seat has been without its agent since the
           \* network last came back
  faults, quits

networkVars == <<up, faults>>
vars == <<at, wire, networkVars, rested, orphan, quits>>

Stages == {"closed", "connecting", "joining", "waiting", "member"}
Waits == {"connecting", "joining", "waiting"}
Causes == {"none", "late", "idle", "told", "refused", "quit", "power"}
Messages == {"Upgrade", "Switched", "Join", "Joined", "Rejected", "Ping", "Pong", "Close"}

Peer(e) == IF e = "agent" THEN "server" ELSE "agent"

Longest(e) == Limit[e] + Interval[e] + JoinLimit

End(stage, next) == [stage |-> stage, age |-> 0, next |-> next, cause |-> "none"]
Closed(why) == [End("closed", 0) EXCEPT !.cause = why]

Enter(e, s, state) == at' = [at EXCEPT ![e][s] = state]

Send(e, s, messages) == wire' = [wire EXCEPT ![Peer(e)][s] = @ \o messages]

(* The end takes the next message and answers it. *)
Answer(e, s, m, messages) ==
  /\ up[e] /\ wire[e][s] # <<>> /\ Head(wire[e][s]) = m
  /\ wire' = [wire EXCEPT ![e][s] = Tail(@), ![Peer(e)][s] = @ \o messages]
  /\ UNCHANGED <<networkVars, rested, orphan, quits>>

----------------------------------------------------------------------------
(* The handshake. *)

Connect(s) ==
  /\ rested /\ rested' = FALSE
  /\ \A t \in Sockets : at["agent"][t].stage = "closed"
  /\ at["server"][s].stage = "closed" /\ wire["server"][s] = <<>>
  /\ at' = [at EXCEPT !["agent"][s] = End("connecting", 0), !["server"][s] = Closed("none")]
  /\ wire' = [wire EXCEPT !["server"][s] = <<"Upgrade">>, !["agent"][s] = <<>>]
  /\ orphan' = [orphan EXCEPT ![s] = 0]
  /\ UNCHANGED <<networkVars, quits>>

AcceptUpgrade(s) ==
  /\ at["server"][s].stage = "closed"
  /\ Answer("server", s, "Upgrade", <<"Switched">>)
  /\ Enter("server", s, End("waiting", 0))

SendJoin(s) ==
  /\ at["agent"][s].stage = "connecting"
  /\ Answer("agent", s, "Switched", <<"Join">>)
  /\ Enter("agent", s, End("joining", 0))

(* The room has a player of this name. *)
Taken(s) == \E t \in Sockets \ {s} : at["server"][t].stage = "member"

JoinRoom(s) ==
  /\ at["server"][s].stage = "waiting"
  /\ \/ /\ ~Taken(s)
        /\ Answer("server", s, "Join", <<"Joined">>)
        /\ Enter("server", s, End("member", Interval["server"]))
     \/ /\ Taken(s)
        /\ Answer("server", s, "Join", <<"Rejected", "Close">>)
        /\ Enter("server", s, Closed("refused"))

Joined(s) ==
  /\ at["agent"][s].stage = "joining"
  /\ \/ /\ Answer("agent", s, "Joined", <<>>)
        /\ Enter("agent", s, End("member", Interval["agent"]))
     \/ /\ Answer("agent", s, "Rejected", <<"Close">>)
        /\ Enter("agent", s, Closed("refused"))

(* The server answers a join that comes too late with a refusal. *)
GiveUp(e, s) ==
  /\ at[e][s].stage \in Waits /\ at[e][s].age >= JoinLimit
  /\ Enter(e, s, Closed("late"))
  /\ Send(e, s, IF e = "server" THEN <<"Rejected", "Close">> ELSE <<"Close">>)
  /\ UNCHANGED <<networkVars, rested, orphan, quits>>

----------------------------------------------------------------------------
(* The heartbeats. *)

Reply(m) == IF m = "Ping" THEN <<"Pong">> ELSE <<>>

WrongHeard(state) == state
Heard(state) == [state EXCEPT !.age = 0]

Hear(e, s) ==
  /\ at[e][s].stage = "member"
  /\ \E m \in {"Ping", "Pong"} :
       /\ Answer(e, s, m, Reply(m))
       /\ Enter(e, s, Heard(at[e][s]))

WrongIdle(e, s) == at[e][s].age >= Limit[Peer(e)]

Idle(e, s) == at[e][s].age >= Limit[e]

WrongBeaten(state, next) == [state EXCEPT !.next = next, !.age = 0]
Beaten(state, next) == [state EXCEPT !.next = next]

WrongFarewell(e) == IF e = "server" THEN <<>> ELSE <<"Close">>
Farewell(e) == <<"Close">>

Beat(e, s) ==
  /\ at[e][s].stage = "member" /\ at[e][s].next = 0
  /\ \/ Idle(e, s) /\ Enter(e, s, Closed("idle")) /\ Send(e, s, Farewell(e))
     \/ /\ ~Idle(e, s)
        /\ Enter(e, s, Beaten(at[e][s], Interval[e]))
        /\ Send(e, s, <<"Ping">>)
  /\ UNCHANGED <<networkVars, rested, orphan, quits>>

----------------------------------------------------------------------------
(* The end of a socket. *)

HearClose(e, s) ==
  /\ at[e][s].stage # "closed"
  /\ Answer(e, s, "Close", <<>>)
  /\ Enter(e, s, Closed("told"))

(* What is late for the stage of its receiver. *)
ThrowAway(e, s) ==
  /\ at[e][s].stage = "closed"
  /\ \E m \in Messages \ {"Upgrade"} : Answer(e, s, m, <<>>)
  /\ UNCHANGED at

Quit(s) ==
  /\ quits < MaxQuits /\ quits' = quits + 1
  /\ at["agent"][s].stage # "closed"
  /\ Enter("agent", s, Closed("quit"))
  /\ Send("agent", s, <<"Close">>)
  /\ UNCHANGED <<networkVars, rested, orphan>>

----------------------------------------------------------------------------
(* The network, the agent's machine, and time. *)

(* One direction or both.                                                  *)
Cut(ends) ==
  /\ faults < MaxFaults /\ faults' = faults + 1
  /\ \A e \in ends : up[e]
  /\ up' = [e \in Ends |-> up[e] /\ e \notin ends]
  /\ UNCHANGED <<at, wire, rested, orphan, quits>>

Heal(e) ==
  /\ ~up[e] /\ up' = [up EXCEPT ![e] = TRUE]
  /\ orphan' = [s \in Sockets |-> 0]
  /\ UNCHANGED <<at, wire, rested, faults, quits>>

(* Nobody is left to say that the socket was closed. *)
LosePower ==
  /\ faults < MaxFaults /\ faults' = faults + 1
  /\ at' = [at EXCEPT !["agent"] = [s \in Sockets |-> Closed("power")]]
  /\ wire' = [e \in Ends |-> [s \in Sockets |-> <<>>]]
  /\ UNCHANGED <<up, rested, orphan, quits>>

Elapsed(e, s) ==
  LET state == at[e][s]
  IN  IF state.stage = "closed" THEN state
      ELSE [state EXCEPT !.age = IF @ < Longest(e) THEN @ + 1 ELSE @,
                         !.next = IF state.stage = "member" THEN @ - 1 ELSE @]

Orphaned(s) == at["server"][s].stage = "member" /\ at["agent"][s].stage = "closed"

(* Timers fire in time, and what can arrive has arrived. *)
Tick ==
  /\ \A e \in Ends, s \in Sockets :
       /\ up[e] => wire[e][s] = <<>>
       /\ at[e][s].stage = "member" => at[e][s].next > 0
       /\ at[e][s].stage \in Waits => at[e][s].age < JoinLimit
  /\ at' = [e \in Ends |-> [s \in Sockets |-> Elapsed(e, s)]]
  /\ orphan' = [s \in Sockets |->
       IF ~Orphaned(s) THEN 0
       ELSE IF orphan[s] < Longest("server") THEN orphan[s] + 1 ELSE orphan[s]]
  /\ rested' = TRUE
  /\ UNCHANGED <<wire, networkVars, quits>>

----------------------------------------------------------------------------
Init ==
  /\ at = [e \in Ends |-> [s \in Sockets |-> Closed("none")]]
  /\ wire = [e \in Ends |-> [s \in Sockets |-> <<>>]]
  /\ up = [e \in Ends |-> TRUE]
  /\ rested = TRUE /\ orphan = [s \in Sockets |-> 0]
  /\ faults = 0 /\ quits = 0

Runs(e, s) == GiveUp(e, s) \/ Hear(e, s) \/ Beat(e, s) \/ HearClose(e, s) \/ ThrowAway(e, s)

Handshake(s) == AcceptUpgrade(s) \/ SendJoin(s) \/ JoinRoom(s) \/ Joined(s)

Next ==
  \/ \E s \in Sockets : Connect(s) \/ Handshake(s) \/ Quit(s) \/ (\E e \in Ends : Runs(e, s))
  \/ \E ends \in SUBSET Ends \ {{}} : Cut(ends)
  \/ \E e \in Ends : Heal(e)
  \/ LosePower
  \/ Tick

Spec == Init /\ [][Next]_vars

(* Both ends run, time passes, and the player joins again whenever there   *)
(* is no session.                                                          *)
FairSpec ==
  /\ Spec
  /\ \A s \in Sockets :
       /\ WF_vars(Handshake(s))
       /\ \A e \in Ends : WF_vars(Runs(e, s))
  /\ WF_vars(\E s \in Sockets : Connect(s))
  /\ WF_vars(Tick)

----------------------------------------------------------------------------
(* Every variable of the connection keeps its type, an age stays under its *)
(* limit and one interval, and the two ends know the stages they may be in.*)
TypeOK ==
  /\ at \in [Ends -> [Sockets -> [stage: Stages, age: Nat, next: Nat, cause: Causes]]]
  /\ \A s \in Sockets :
       /\ at["agent"][s].stage # "waiting"
       /\ at["server"][s].stage \notin {"connecting", "joining"}
       /\ \A e \in Ends : at[e][s].stage = "member" => at[e][s].age < Limit[e] + Interval[e]
  /\ wire \in [Ends -> [Sockets -> Seq(Messages)]]
  /\ up \in [Ends -> BOOLEAN] /\ rested \in BOOLEAN
  /\ orphan \in [Sockets -> Nat] /\ faults \in 0..MaxFaults /\ quits \in 0..MaxQuits

(* As long as the network is whole, no watchdog and no timeout of the      *)
(* handshake closes a session, however quiet the lobby is.                 *)
HealthyStays ==
  faults = 0 => \A e \in Ends, s \in Sockets : at[e][s].cause \notin {"idle", "late"}

(* An agent that is in the lobby has a seat there, or is about to be told  *)
(* that it was closed; and two sockets of one player never both have one.  *)
MembersHaveSeats ==
  \A s \in Sockets :
    /\ at["agent"][s].stage = "member" =>
         \/ at["server"][s].stage = "member"
         \/ \E i \in 1..Len(wire["agent"][s]) : wire["agent"][s][i] = "Close"
    /\ \A t \in Sockets :
         at["server"][s].stage = "member" /\ at["server"][t].stage = "member" => s = t

(* `watchdog-ul serverului elibereaza slotul': a seat does not outlive its *)
(* agent, or the last return of the network after it, by the idle limit    *)
(* and one interval.                                                       *)
SeatsAreFreed ==
  /\ TypeOK
  /\ \A s \in Sockets : orphan[s] < Limit["server"] + Interval["server"]

Seated == \E s \in Sockets : \A e \in Ends : at[e][s].stage = "member"

(* `permitand un join nou fara restartul aplicatiei': once the network is  *)
(* whole again, a player who keeps trying gets a seat and keeps it.        *)
RejoinWorks == <>[](\A e \in Ends : up[e]) => <>[]Seated
=============================================================================
