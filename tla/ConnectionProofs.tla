-------------------------- MODULE ConnectionProofs --------------------------
(* Seats and sockets, for any intervals and limits that fit each other and *)
(* any number of sockets, cuts, losses of power and returns.               *)
(*                                                                         *)
(* What one end believes of the other is true or about to be corrected by  *)
(* what is on its way: that is said of each message on the wire.  A seat   *)
(* without its agent has heard nothing since the network last came back,   *)
(* so it is no longer orphaned than it is idle (OrphanIsYoung); and while  *)
(* the network is whole, an end that has not heard of its peer for an      *)
(* interval has asked, and the answer comes before time passes (Healthy).  *)
EXTENDS LobbyConnection, TLAPS

Has(q, m) == \E i \in DOMAIN q : q[i] = m

Agent(s) == at["agent"][s].stage
Server(s) == at["server"][s].stage
ToAgent(s) == wire["agent"][s]
ToServer(s) == wire["server"][s]

(* A socket is opened once. *)
UpgradeStarts(s) ==
  /\ \A i \in DOMAIN ToServer(s) : ToServer(s)[i] = "Upgrade" => i = 1
  /\ Has(ToServer(s), "Upgrade") =>
       Server(s) = "closed" /\ ToAgent(s) = <<>> /\ orphan[s] = 0

(* Who says that it closes has closed. *)
ClosesAreMeant(s) ==
  /\ Has(ToServer(s), "Close") => Agent(s) = "closed"
  /\ Has(ToAgent(s), "Close") => Server(s) = "closed"

(* Who is, or will be, told that it is in the lobby has a seat, unless it  *)
(* is told that it was closed too.                                         *)
SeatOfMember(s) ==
  /\ Has(ToAgent(s), "Joined") =>
       Server(s) = "member" \/ Has(ToAgent(s), "Close") \/ Agent(s) = "closed"
  /\ Agent(s) = "member" => Server(s) = "member" \/ Has(ToAgent(s), "Close")

OneSeat(s) ==
  \A t \in Sockets : Server(s) = "member" /\ Server(t) = "member" => s = t

(* A seat without its agent hears nothing new. *)
OrphanIsYoung(s) ==
  /\ Agent(s) # "closed" \/ Server(s) = "waiting" => orphan[s] = 0
  /\ Orphaned(s) => orphan[s] <= at["server"][s].age
  /\ Orphaned(s) /\ orphan[s] # 0 /\ up["server"] => ToServer(s) = <<>>
  /\ orphan[s] < Limit["server"] + Interval["server"]

(* The next heartbeat is due before the limit and one interval have passed.*)
BeatsInTime(e, s) ==
  at[e][s].stage = "member" =>
    /\ at[e][s].next <= Interval[e]
    /\ at[e][s].age + at[e][s].next < Limit[e] + Interval[e]

(* While nothing fails, whoever waits is about to be told something,       *)
HandshakeGoesOn(s) ==
  /\ Agent(s) = "connecting" =>
       Has(ToServer(s), "Upgrade") \/ Has(ToAgent(s), "Switched") \/ Has(ToAgent(s), "Close")
  /\ Agent(s) = "joining" =>
       \/ Has(ToServer(s), "Join") \/ Has(ToAgent(s), "Joined")
       \/ Has(ToAgent(s), "Rejected") \/ Has(ToAgent(s), "Close")
  /\ Server(s) = "waiting" =>
       Has(ToAgent(s), "Switched") \/ Has(ToServer(s), "Join") \/ Has(ToServer(s), "Close")

(* an end that is left alone is about to be told that,                     *)
EndsAreTold(s) ==
  /\ Agent(s) = "closed" /\ (Server(s) # "closed" \/ Has(ToServer(s), "Upgrade")) =>
       Has(ToServer(s), "Close")
  /\ Agent(s) # "closed" /\ Server(s) = "closed" =>
       Has(ToServer(s), "Upgrade") \/ Has(ToAgent(s), "Close")
  /\ Server(s) = "member" =>
       Agent(s) = "member" \/ Has(ToAgent(s), "Joined") \/ Has(ToServer(s), "Close")

(* and who heard nothing for an interval is about to be answered.          *)
AnswersCome(e, s) ==
  /\ at[e][s].stage \in Waits => at[e][s].age = 0
  /\ at[e][s].stage = "member" =>
       /\ at[e][s].age <= Interval[e]
       /\ \/ at[e][s].age + at[e][s].next <= Interval[e]
          \/ Has(wire[Peer(e)][s], "Ping") \/ Has(wire[e][s], "Pong") \/ Has(wire[e][s], "Close")
  /\ at[e][s].cause \notin {"idle", "late"}

Healthy(s) ==
  faults = 0 =>
    /\ \A e \in Ends : up[e] /\ AnswersCome(e, s)
    /\ HandshakeGoesOn(s) /\ EndsAreTold(s)

SocketInv(s) ==
  /\ UpgradeStarts(s) /\ ClosesAreMeant(s) /\ SeatOfMember(s) /\ OneSeat(s)
  /\ OrphanIsYoung(s) /\ \A e \in Ends : BeatsInTime(e, s)
  /\ Healthy(s)

ConnectionInv == TypeOK /\ \A s \in Sockets : SocketInv(s)

----------------------------------------------------------------------------
(* Lemmas on sequences, ends and the shape of steps. *)

State == [stage: Stages, age: Nat, next: Nat, cause: Causes]

LEMMA Bounds ==
  /\ \A e \in Ends : Interval[e] \in Nat /\ Interval[e] > 0 /\ Limit[e] \in Nat /\ Interval[e] < Limit[e]
  /\ JoinLimit \in Nat /\ JoinLimit > 0 /\ MaxFaults \in Nat /\ MaxQuits \in Nat
  BY ConnectionAssumption DEF ConnectionAssumption

LEMMA TwoEnds ==
  /\ Ends = {"agent", "server"} /\ "agent" \in Ends /\ "server" \in Ends
  /\ Peer("agent") = "server" /\ Peer("server") = "agent"
  /\ \A e \in Ends : Peer(e) \in Ends /\ Peer(e) # e /\ Peer(Peer(e)) = e
  BY DEF Ends, Peer

LEMMA HasTail ==
  ASSUME NEW q \in Seq(Messages), q # <<>>
  PROVE  /\ Tail(q) \in Seq(Messages) /\ Head(q) \in Messages /\ Has(q, Head(q))
         /\ \A m : Has(Tail(q), m) => Has(q, m)
         /\ \A m : Has(q, m) /\ Head(q) # m => Has(Tail(q), m)
         /\ \A i \in DOMAIN Tail(q) : i + 1 \in DOMAIN q /\ Tail(q)[i] = q[i + 1] /\ i + 1 # 1
<1>1. /\ Tail(q) \in Seq(Messages) /\ Head(q) \in Messages /\ Head(q) = q[1]
      /\ Len(q) \in Nat \ {0} /\ DOMAIN q = 1..Len(q) /\ DOMAIN Tail(q) = 1..(Len(q) - 1)
      /\ \A i \in 1..(Len(q) - 1) : Tail(q)[i] = q[i + 1]
  OBVIOUS
<1>2. Has(q, Head(q))
  BY <1>1 DEF Has
<1>3. \A i \in DOMAIN Tail(q) : i + 1 \in DOMAIN q /\ Tail(q)[i] = q[i + 1] /\ i + 1 # 1
  BY <1>1
<1>4. ASSUME NEW m, Has(Tail(q), m)
      PROVE  Has(q, m)
  BY <1>3, <1>4 DEF Has
<1>5. ASSUME NEW m, Has(q, m), Head(q) # m
      PROVE  Has(Tail(q), m)
  <2>1. PICK i \in DOMAIN q : q[i] = m
    BY <1>5 DEF Has
  <2>2. i - 1 \in DOMAIN Tail(q) /\ Tail(q)[i - 1] = q[(i - 1) + 1]
    BY <1>1, <1>5, <2>1
  <2> QED
    BY <1>1, <2>1, <2>2 DEF Has
<1> QED
  BY <1>1, <1>2, <1>3, <1>4, <1>5

LEMMA HasConcat ==
  ASSUME NEW q \in Seq(Messages), NEW r \in Seq(Messages)
  PROVE  /\ q \o r \in Seq(Messages)
         /\ \A m : Has(q \o r, m) <=> Has(q, m) \/ Has(r, m)
         /\ \A i \in DOMAIN q : i \in DOMAIN (q \o r) /\ (q \o r)[i] = q[i]
         /\ \A i \in DOMAIN (q \o r) : i \in DOMAIN q \/ Has(r, (q \o r)[i])
<1>1. /\ q \o r \in Seq(Messages) /\ Len(q) \in Nat /\ Len(r) \in Nat
      /\ DOMAIN q = 1..Len(q) /\ DOMAIN r = 1..Len(r)
      /\ DOMAIN (q \o r) = 1..(Len(q) + Len(r))
      /\ \A i \in 1..Len(q) : (q \o r)[i] = q[i]
      /\ \A i \in 1..Len(r) : (q \o r)[Len(q) + i] = r[i]
  OBVIOUS
<1>2. \A i \in DOMAIN q : i \in DOMAIN (q \o r) /\ (q \o r)[i] = q[i]
  BY <1>1
<1>3. \A i \in DOMAIN (q \o r) : i \in DOMAIN q \/ Has(r, (q \o r)[i])
  <2> SUFFICES ASSUME NEW i \in DOMAIN (q \o r), i \notin DOMAIN q
      PROVE  Has(r, (q \o r)[i])
    OBVIOUS
  <2>1. i - Len(q) \in DOMAIN r /\ (q \o r)[Len(q) + (i - Len(q))] = r[i - Len(q)]
        /\ Len(q) + (i - Len(q)) = i
    BY <1>1
  <2> QED
    BY <2>1 DEF Has
<1>4. ASSUME NEW m, Has(q \o r, m)
      PROVE  Has(q, m) \/ Has(r, m)
  BY <1>2, <1>3, <1>4 DEF Has
<1>5. ASSUME NEW m, Has(q, m)
      PROVE  Has(q \o r, m)
  BY <1>2, <1>5 DEF Has
<1>6. ASSUME NEW m, Has(r, m)
      PROVE  Has(q \o r, m)
  <2>1. PICK i \in DOMAIN r : r[i] = m
    BY <1>6 DEF Has
  <2>2. Len(q) + i \in DOMAIN (q \o r) /\ (q \o r)[Len(q) + i] = m
    BY <1>1, <2>1
  <2> QED
    BY <2>2 DEF Has
<1> QED
  BY <1>1, <1>2, <1>3, <1>4, <1>5, <1>6

(* What is sent at once. *)
LEMMA HasFew ==
  /\ <<>> \in Seq(Messages) /\ \A m : ~Has(<<>>, m)
  /\ \A a \in Messages : <<a>> \in Seq(Messages) /\ \A m : Has(<<a>>, m) <=> m = a
  /\ \A a, b \in Messages :
       <<a, b>> \in Seq(Messages) /\ \A m : Has(<<a, b>>, m) <=> m = a \/ m = b
  BY DEF Has

LEMMA AnswerShape ==
  ASSUME TypeOK, NEW e \in Ends, NEW s \in Sockets, NEW m, NEW messages \in Seq(Messages),
         Answer(e, s, m, messages)
  PROVE  /\ up[e] /\ Has(wire[e][s], m) /\ wire[e][s] # <<>> /\ m \in Messages
         /\ wire' \in [Ends -> [Sockets -> Seq(Messages)]]
         /\ wire'[e][s] = Tail(wire[e][s])
         /\ wire'[Peer(e)][s] = wire[Peer(e)][s] \o messages
         /\ \A x \in Ends, t \in Sockets : t # s => wire'[x][t] = wire[x][t]
         /\ \A x : Has(wire'[e][s], x) => Has(wire[e][s], x)
         /\ \A x : Has(wire[e][s], x) /\ x # m => Has(wire'[e][s], x)
         /\ \A x : Has(wire'[Peer(e)][s], x) <=> Has(wire[Peer(e)][s], x) \/ Has(messages, x)
         /\ UNCHANGED <<up, faults, rested, orphan, quits>>
<1>1. wire \in [Ends -> [Sockets -> Seq(Messages)]]
  BY DEF TypeOK
<1>2. Peer(e) \in Ends /\ Peer(e) # e
  BY TwoEnds
<1>3. /\ up[e] /\ wire[e][s] # <<>> /\ Head(wire[e][s]) = m
      /\ UNCHANGED <<up, faults, rested, orphan, quits>>
      /\ wire' = [wire EXCEPT ![e][s] = Tail(@), ![Peer(e)][s] = @ \o messages]
  BY DEF Answer, networkVars
<1>4. wire[e][s] \in Seq(Messages) /\ wire[Peer(e)][s] \in Seq(Messages)
  BY <1>1, <1>2
<1>5. Tail(wire[e][s]) \in Seq(Messages) /\ wire[Peer(e)][s] \o messages \in Seq(Messages)
  BY <1>3, <1>4, HasTail, HasConcat
<1>6. /\ wire'[e][s] = Tail(wire[e][s])
      /\ wire'[Peer(e)][s] = wire[Peer(e)][s] \o messages
      /\ \A x \in Ends, t \in Sockets : t # s => wire'[x][t] = wire[x][t]
  BY <1>1, <1>2, <1>3
<1>7. wire' \in [Ends -> [Sockets -> Seq(Messages)]]
  BY <1>1, <1>2, <1>3, <1>5
<1>8. /\ Has(wire[e][s], m) /\ m \in Messages
      /\ \A x : Has(wire'[e][s], x) => Has(wire[e][s], x)
      /\ \A x : Has(wire[e][s], x) /\ x # m => Has(wire'[e][s], x)
  <2> DEFINE q == wire[e][s]
  <2>1. q \in Seq(Messages) /\ q # <<>> /\ Head(q) = m /\ wire'[e][s] = Tail(q)
    BY <1>3, <1>4, <1>6
  <2> HIDE DEF q
  <2>2. /\ Head(q) \in Messages /\ Has(q, Head(q)) /\ \A x : Has(Tail(q), x) => Has(q, x)
        /\ \A x : Has(q, x) /\ Head(q) # x => Has(Tail(q), x)
    BY <2>1, HasTail
  <2> QED
    BY <2>1, <2>2 DEF q
<1>9. \A x : Has(wire'[Peer(e)][s], x) <=> Has(wire[Peer(e)][s], x) \/ Has(messages, x)
  BY <1>4, <1>6, HasConcat
<1> QED
  BY <1>3, <1>6, <1>7, <1>8, <1>9

LEMMA SendShape ==
  ASSUME TypeOK, NEW e \in Ends, NEW s \in Sockets, NEW messages \in Seq(Messages),
         Send(e, s, messages)
  PROVE  /\ wire' \in [Ends -> [Sockets -> Seq(Messages)]]
         /\ wire'[e][s] = wire[e][s]
         /\ wire'[Peer(e)][s] = wire[Peer(e)][s] \o messages
         /\ \A x \in Ends, t \in Sockets : t # s => wire'[x][t] = wire[x][t]
         /\ \A x : Has(wire'[Peer(e)][s], x) <=> Has(wire[Peer(e)][s], x) \/ Has(messages, x)
<1>1. wire \in [Ends -> [Sockets -> Seq(Messages)]]
  BY DEF TypeOK
<1>2. Peer(e) \in Ends /\ Peer(e) # e
  BY TwoEnds
<1>3. wire' = [wire EXCEPT ![Peer(e)][s] = @ \o messages]
  BY DEF Send
<1>4. wire[Peer(e)][s] \in Seq(Messages)
  BY <1>1, <1>2
<1>5. wire[Peer(e)][s] \o messages \in Seq(Messages)
  BY <1>4, HasConcat
<1>6. /\ wire'[e][s] = wire[e][s]
      /\ wire'[Peer(e)][s] = wire[Peer(e)][s] \o messages
      /\ \A x \in Ends, t \in Sockets : t # s => wire'[x][t] = wire[x][t]
  BY <1>1, <1>2, <1>3
<1>7. wire' \in [Ends -> [Sockets -> Seq(Messages)]]
  BY <1>1, <1>2, <1>3, <1>5
<1> QED
  BY <1>4, <1>6, <1>7, HasConcat

LEMMA EnterShape ==
  ASSUME TypeOK, NEW e \in Ends, NEW s \in Sockets, NEW state \in State, Enter(e, s, state)
  PROVE  /\ at' \in [Ends -> [Sockets -> State]] /\ at'[e][s] = state
         /\ at'[Peer(e)][s] = at[Peer(e)][s]
         /\ \A x \in Ends, t \in Sockets : t # s => at'[x][t] = at[x][t]
<1>1. at \in [Ends -> [Sockets -> State]] /\ at' = [at EXCEPT ![e][s] = state]
  BY DEF TypeOK, State, Enter
<1> QED
  BY <1>1, TwoEnds

LEMMA EndFields ==
  ASSUME NEW stage \in Stages, NEW next \in Nat
  PROVE  /\ End(stage, next) \in State
         /\ End(stage, next).stage = stage /\ End(stage, next).age = 0
         /\ End(stage, next).next = next /\ End(stage, next).cause = "none"
  BY DEF End, State, Causes

LEMMA ClosedFields ==
  ASSUME NEW why \in Causes
  PROVE  /\ Closed(why) \in State /\ Closed(why).stage = "closed" /\ Closed(why).cause = why
<1>1. Closed(why) = [stage |-> "closed", age |-> 0, next |-> 0, cause |-> why]
  BY DEF Closed, End
<1> QED
  BY <1>1 DEF State, Stages

(* A step of one socket leaves the others alone. *)
LEMMA SocketKeeps ==
  ASSUME ConnectionInv, NEW s \in Sockets, TypeOK', SocketInv(s)',
         \A x \in Ends, t \in Sockets : t # s => at'[x][t] = at[x][t],
         \A x \in Ends, t \in Sockets : t # s => wire'[x][t] = wire[x][t],
         \A t \in Sockets : t # s => orphan'[t] = orphan[t],
         up' = up, faults' = faults
  PROVE  ConnectionInv'
<1> SUFFICES ASSUME NEW t \in Sockets, t # s
             PROVE  SocketInv(t)'
  BY DEF ConnectionInv
<1>1. SocketInv(t)
  BY DEF ConnectionInv
<1>2. /\ at'["agent"][t] = at["agent"][t] /\ at'["server"][t] = at["server"][t]
      /\ wire'["agent"][t] = wire["agent"][t] /\ wire'["server"][t] = wire["server"][t]
      /\ orphan'[t] = orphan[t]
  BY TwoEnds
<1>3. UpgradeStarts(t)' /\ ClosesAreMeant(t)' /\ SeatOfMember(t)' /\ OrphanIsYoung(t)'
  BY <1>1, <1>2 DEF SocketInv, UpgradeStarts, ClosesAreMeant, SeatOfMember, OrphanIsYoung, Orphaned,
                    Agent, Server, ToAgent, ToServer, Has
<1>4. OneSeat(t)'
  BY <1>1, <1>2, TwoEnds DEF SocketInv, OneSeat, Server
<1>5. \A e \in Ends : BeatsInTime(e, t)'
  BY <1>1, <1>2, TwoEnds DEF SocketInv, BeatsInTime
<1>6. Healthy(t)'
  <2> SUFFICES ASSUME faults = 0
               PROVE  /\ \A e \in Ends : up[e] /\ AnswersCome(e, t)'
                      /\ HandshakeGoesOn(t)' /\ EndsAreTold(t)'
    BY DEF Healthy
  <2>1. HandshakeGoesOn(t)' /\ EndsAreTold(t)'
    BY <1>1, <1>2 DEF SocketInv, Healthy, HandshakeGoesOn, EndsAreTold, Agent, Server, ToAgent,
                      ToServer, Has
  <2>2. \A e \in Ends : up[e] /\ AnswersCome(e, t)'
    BY <1>1, <1>2, TwoEnds DEF SocketInv, Healthy, AnswersCome, Has
  <2> QED
    BY <2>1, <2>2
<1> QED
  BY <1>3, <1>4, <1>5, <1>6 DEF SocketInv

----------------------------------------------------------------------------
(* Every step keeps the invariant. *)

LEMMA TypeOfParts ==
  ASSUME at' \in [Ends -> [Sockets -> State]], wire' \in [Ends -> [Sockets -> Seq(Messages)]],
         \A s \in Sockets : /\ Agent(s)' # "waiting"
                            /\ Server(s)' \notin {"connecting", "joining"}
                            /\ \A e \in Ends : BeatsInTime(e, s)',
         up' \in [Ends -> BOOLEAN], rested' \in BOOLEAN, orphan' \in [Sockets -> Nat],
         faults' \in 0..MaxFaults, quits' \in 0..MaxQuits
  PROVE  TypeOK'
<1>1. ASSUME NEW s \in Sockets, NEW e \in Ends, at'[e][s].stage = "member"
      PROVE  at'[e][s].age < Limit[e] + Interval[e]
  <2>1. at'[e][s] \in State
    OBVIOUS
  <2>2. at'[e][s].age \in Nat /\ at'[e][s].next \in Nat
    BY <2>1 DEF State
  <2> QED
    BY <1>1, <2>2, Bounds DEF BeatsInTime
<1> QED
  BY <1>1 DEF TypeOK, State, Agent, Server

(* The state of an end of a socket. *)
LEMMA StateOf ==
  ASSUME TypeOK, NEW e \in Ends, NEW s \in Sockets
  PROVE  /\ at[e][s] \in State /\ at[e][s].stage \in Stages /\ at[e][s].age \in Nat
         /\ at[e][s].next \in Nat /\ at[e][s].cause \in Causes
         /\ wire[e][s] \in Seq(Messages) /\ orphan[s] \in Nat
<1>1. at[e][s] \in State /\ wire[e][s] \in Seq(Messages) /\ orphan[s] \in Nat
  BY DEF TypeOK, State
<1> QED
  BY <1>1 DEF State

(* A step of socket s: types follow from the socket. *)
LEMMA StepTyped ==
  ASSUME ConnectionInv, NEW s \in Sockets,
         at' \in [Ends -> [Sockets -> State]], wire' \in [Ends -> [Sockets -> Seq(Messages)]],
         \A x \in Ends, t \in Sockets : t # s => at'[x][t] = at[x][t],
         Agent(s)' # "waiting", Server(s)' \notin {"connecting", "joining"},
         \A e \in Ends : BeatsInTime(e, s)',
         up' = up, faults' = faults, rested' \in BOOLEAN, orphan' \in [Sockets -> Nat],
         quits' \in 0..MaxQuits
  PROVE  TypeOK'
<1>1. ASSUME NEW t \in Sockets, t # s
      PROVE  /\ Agent(t)' # "waiting" /\ Server(t)' \notin {"connecting", "joining"}
             /\ \A e \in Ends : BeatsInTime(e, t)'
  <2>1. /\ at'["agent"][t] = at["agent"][t] /\ at'["server"][t] = at["server"][t]
    BY <1>1, TwoEnds
  <2>2. Agent(t)' # "waiting" /\ Server(t)' \notin {"connecting", "joining"}
    BY <2>1 DEF ConnectionInv, TypeOK, Agent, Server
  <2>3. \A e \in Ends : BeatsInTime(e, t)'
    BY <1>1, <2>1, TwoEnds DEF ConnectionInv, SocketInv, BeatsInTime
  <2> QED
    BY <2>2, <2>3
<1>2. up' \in [Ends -> BOOLEAN] /\ faults' \in 0..MaxFaults
  BY DEF ConnectionInv, TypeOK
<1> QED
  BY <1>1, <1>2, TypeOfParts

LEMMA InvOfSocket ==
  ASSUME ConnectionInv, NEW s \in Sockets
  PROVE  /\ TypeOK /\ SocketInv(s) /\ UpgradeStarts(s) /\ ClosesAreMeant(s) /\ SeatOfMember(s)
         /\ OneSeat(s) /\ OrphanIsYoung(s) /\ BeatsInTime("agent", s) /\ BeatsInTime("server", s)
         /\ Agent(s) # "waiting" /\ Server(s) \notin {"connecting", "joining"}
         /\ Agent(s) \in Stages /\ Server(s) \in Stages /\ orphan[s] \in Nat
         /\ rested \in BOOLEAN /\ orphan \in [Sockets -> Nat] /\ quits \in 0..MaxQuits
         /\ Healthy(s) /\ faults \in Nat
<1>1. TypeOK /\ SocketInv(s)
  BY DEF ConnectionInv
<1>2. Agent(s) \in Stages /\ Server(s) \in Stages
  BY <1>1, TwoEnds, StateOf DEF Agent, Server
<1>3. Agent(s) # "waiting" /\ Server(s) \notin {"connecting", "joining"}
  BY <1>1 DEF TypeOK, Agent, Server
<1>4. /\ UpgradeStarts(s) /\ ClosesAreMeant(s) /\ SeatOfMember(s)
      /\ OneSeat(s) /\ OrphanIsYoung(s) /\ BeatsInTime("agent", s) /\ BeatsInTime("server", s)
      /\ Healthy(s)
  BY <1>1, TwoEnds DEF SocketInv
<1>5. orphan[s] \in Nat /\ rested \in BOOLEAN /\ quits \in 0..MaxQuits /\ faults \in Nat
      /\ orphan \in [Sockets -> Nat]
  BY <1>1 DEF TypeOK
<1> QED
  BY <1>1, <1>2, <1>3, <1>4, <1>5

LEMMA ConnectKeeps ==
  ASSUME ConnectionInv, NEW s \in Sockets, Connect(s)
  PROVE  ConnectionInv'
<1> USE TwoEnds
<1> DEFINE new == End("connecting", 0)
           old == Closed("none")
<1>1. TypeOK /\ OneSeat(s) /\ quits \in 0..MaxQuits
  BY InvOfSocket
<1>2. /\ at["server"][s].stage = "closed"
      /\ at' = [at EXCEPT !["agent"][s] = new, !["server"][s] = old]
      /\ wire' = [wire EXCEPT !["server"][s] = <<"Upgrade">>, !["agent"][s] = <<>>]
      /\ orphan' = [orphan EXCEPT ![s] = 0]
      /\ rested' = FALSE /\ up' = up /\ faults' = faults /\ quits' = quits
  BY DEF Connect, networkVars
<1>3. /\ new \in State /\ new.stage = "connecting" /\ new.age = 0 /\ new.cause = "none"
      /\ old \in State /\ old.stage = "closed" /\ old.cause = "none"
  BY EndFields, ClosedFields DEF Stages, Causes
<1> HIDE DEF new, old
<1>4. /\ at \in [Ends -> [Sockets -> State]] /\ wire \in [Ends -> [Sockets -> Seq(Messages)]]
      /\ orphan \in [Sockets -> Nat]
  BY <1>1 DEF TypeOK, State
<1>5. /\ at' \in [Ends -> [Sockets -> State]] /\ at'["agent"][s] = new /\ at'["server"][s] = old
      /\ \A x \in Ends, t \in Sockets : t # s => at'[x][t] = at[x][t]
  BY <1>2, <1>3, <1>4
<1>6. <<"Upgrade">> \in Seq(Messages) /\ <<>> \in Seq(Messages)
  BY HasFew DEF Messages
<1>7. /\ wire' \in [Ends -> [Sockets -> Seq(Messages)]]
      /\ wire'["server"][s] = <<"Upgrade">> /\ wire'["agent"][s] = <<>>
      /\ \A x \in Ends, t \in Sockets : t # s => wire'[x][t] = wire[x][t]
  BY <1>2, <1>4, <1>6
<1>8. /\ orphan' \in [Sockets -> Nat] /\ orphan'[s] = 0
      /\ \A t \in Sockets : t # s => orphan'[t] = orphan[t]
  BY <1>2, <1>4
<1>9. /\ \A m : Has(wire'["server"][s], m) <=> m = "Upgrade"
      /\ \A m : ~Has(wire'["agent"][s], m)
      /\ \A i \in DOMAIN wire'["server"][s] : i = 1
  BY <1>7 DEF Has
<1>10. /\ Agent(s)' = "connecting" /\ Server(s)' = "closed"
       /\ ToServer(s)' = wire'["server"][s] /\ ToAgent(s)' = wire'["agent"][s]
  BY <1>3, <1>5 DEF Agent, Server, ToServer, ToAgent
<1>11. UpgradeStarts(s)' /\ ClosesAreMeant(s)' /\ SeatOfMember(s)' /\ OneSeat(s)'
  BY <1>7, <1>8, <1>9, <1>10 DEF UpgradeStarts, ClosesAreMeant, SeatOfMember, OneSeat
<1>12. OrphanIsYoung(s)'
  BY <1>8, <1>10, Bounds DEF OrphanIsYoung, Orphaned, Agent, Server
<1>13. \A e \in Ends : BeatsInTime(e, s)'
  BY <1>3, <1>5 DEF BeatsInTime
<1>14. Healthy(s)'
  <2>1. HandshakeGoesOn(s)' /\ EndsAreTold(s)'
    BY <1>9, <1>10 DEF HandshakeGoesOn, EndsAreTold
  <2>2. \A e \in Ends : AnswersCome(e, s)'
    BY <1>3, <1>5 DEF AnswersCome, Waits
  <2>3. faults = 0 => \A e \in Ends : up[e]
    BY InvOfSocket DEF Healthy
  <2> QED
    BY <1>2, <2>1, <2>2, <2>3 DEF Healthy
<1>15. TypeOK'
  BY <1>1, <1>2, <1>5, <1>7, <1>8, <1>10, <1>13, StepTyped
<1>16. SocketInv(s)'
  BY <1>11, <1>12, <1>13, <1>14 DEF SocketInv
<1> QED
  BY <1>2, <1>5, <1>7, <1>8, <1>15, <1>16, SocketKeeps

(* What is left to show of a step of socket s. *)
LEMMA StepOfSocket ==
  ASSUME ConnectionInv, NEW s \in Sockets,
         at' \in [Ends -> [Sockets -> State]], wire' \in [Ends -> [Sockets -> Seq(Messages)]],
         \A x \in Ends, t \in Sockets : t # s => at'[x][t] = at[x][t],
         \A x \in Ends, t \in Sockets : t # s => wire'[x][t] = wire[x][t],
         Agent(s)' # "waiting", Server(s)' \notin {"connecting", "joining"},
         up' = up, faults' = faults, rested' = rested, orphan' = orphan, quits' \in 0..MaxQuits,
         UpgradeStarts(s)', ClosesAreMeant(s)', SeatOfMember(s)', OneSeat(s)', OrphanIsYoung(s)',
         BeatsInTime("agent", s)', BeatsInTime("server", s)',
         faults = 0 => /\ AnswersCome("agent", s)' /\ AnswersCome("server", s)'
                       /\ HandshakeGoesOn(s)' /\ EndsAreTold(s)'
  PROVE  ConnectionInv'
<1>1. \A e \in Ends : BeatsInTime(e, s)'
  BY TwoEnds
<1>2. TypeOK'
  BY <1>1, InvOfSocket, StepTyped
<1>3. Healthy(s)'
  <2>1. faults = 0 => \A e \in Ends : up[e] /\ AnswersCome(e, s)'
    BY TwoEnds, InvOfSocket DEF Healthy
  <2> QED
    BY <2>1 DEF Healthy
<1>4. SocketInv(s)'
  BY <1>1, <1>3 DEF SocketInv
<1> QED
  BY <1>2, <1>4, SocketKeeps

LEMMA ServerAnswers ==
  ASSUME ConnectionInv, NEW s \in Sockets, NEW m, NEW messages \in Seq(Messages),
         Answer("server", s, m, messages)
  PROVE  /\ Has(ToServer(s), m) /\ m \in Messages /\ up["server"] /\ ToServer(s) # <<>>
         /\ wire' \in [Ends -> [Sockets -> Seq(Messages)]]
         /\ \A x \in Ends, t \in Sockets : t # s => wire'[x][t] = wire[x][t]
         /\ \A x : Has(ToServer(s)', x) => Has(ToServer(s), x)
         /\ \A x : Has(ToServer(s), x) /\ x # m => Has(ToServer(s)', x)
         /\ \A x : Has(ToAgent(s)', x) <=> Has(ToAgent(s), x) \/ Has(messages, x)
         /\ UNCHANGED <<up, faults, rested, orphan, quits>>
         /\ UpgradeStarts(s)' /\ ~Has(ToServer(s)', "Upgrade")
         /\ m # "Upgrade" => ~Has(ToServer(s), "Upgrade")
<1>1. TypeOK /\ UpgradeStarts(s)
  BY InvOfSocket
<1>2. /\ Has(ToServer(s), m) /\ m \in Messages /\ up["server"] /\ ToServer(s) # <<>>
      /\ wire' \in [Ends -> [Sockets -> Seq(Messages)]]
      /\ \A x \in Ends, t \in Sockets : t # s => wire'[x][t] = wire[x][t]
      /\ ToServer(s)' = Tail(ToServer(s))
      /\ \A x : Has(ToServer(s)', x) => Has(ToServer(s), x)
      /\ \A x : Has(ToServer(s), x) /\ x # m => Has(ToServer(s)', x)
      /\ \A x : Has(ToAgent(s)', x) <=> Has(ToAgent(s), x) \/ Has(messages, x)
      /\ UNCHANGED <<up, faults, rested, orphan, quits>>
  <2>1. /\ up["server"] /\ Has(wire["server"][s], m) /\ wire["server"][s] # <<>> /\ m \in Messages
        /\ wire' \in [Ends -> [Sockets -> Seq(Messages)]]
        /\ wire'["server"][s] = Tail(wire["server"][s])
        /\ wire'["agent"][s] = wire["agent"][s] \o messages
        /\ \A x \in Ends, t \in Sockets : t # s => wire'[x][t] = wire[x][t]
        /\ UNCHANGED <<up, faults, rested, orphan, quits>>
    BY <1>1, TwoEnds, AnswerShape
  <2>2. /\ \A x : Has(wire'["server"][s], x) => Has(wire["server"][s], x)
        /\ \A x : Has(wire["server"][s], x) /\ x # m => Has(wire'["server"][s], x)
    BY <1>1, TwoEnds, AnswerShape, ZenonT(20)
  <2>3. \A x : Has(wire'["agent"][s], x) <=> Has(wire["agent"][s], x) \/ Has(messages, x)
    BY <1>1, TwoEnds, AnswerShape
  <2> QED
    BY <2>1, <2>2, <2>3 DEF ToServer, ToAgent
<1>3. ToServer(s) \in Seq(Messages) /\ Head(ToServer(s)) = m
  BY <1>1, TwoEnds, StateOf DEF ToServer, Answer
<1>4. \A i \in DOMAIN ToServer(s)' : ToServer(s)'[i] # "Upgrade"
  BY <1>1, <1>2, <1>3, HasTail DEF UpgradeStarts
<1>5. ~Has(ToServer(s)', "Upgrade")
  BY <1>4 DEF Has
<1>6. UpgradeStarts(s)'
  BY <1>4, <1>5 DEF UpgradeStarts
<1>7. m # "Upgrade" => ~Has(ToServer(s), "Upgrade")
  BY <1>2, <1>5
<1> QED
  BY <1>2, <1>5, <1>6, <1>7

LEMMA AgentAnswers ==
  ASSUME ConnectionInv, NEW s \in Sockets, NEW m, NEW messages \in Seq(Messages),
         Answer("agent", s, m, messages), ~Has(messages, "Upgrade")
  PROVE  /\ Has(ToAgent(s), m) /\ m \in Messages
         /\ wire' \in [Ends -> [Sockets -> Seq(Messages)]]
         /\ \A x \in Ends, t \in Sockets : t # s => wire'[x][t] = wire[x][t]
         /\ \A x : Has(ToAgent(s)', x) => Has(ToAgent(s), x)
         /\ \A x : Has(ToAgent(s), x) /\ x # m => Has(ToAgent(s)', x)
         /\ \A x : Has(ToServer(s)', x) <=> Has(ToServer(s), x) \/ Has(messages, x)
         /\ messages = <<>> => ToServer(s)' = ToServer(s)
         /\ UNCHANGED <<up, faults, rested, orphan, quits>>
         /\ UpgradeStarts(s)' /\ ~Has(ToServer(s), "Upgrade") /\ ~Has(ToServer(s)', "Upgrade")
<1>1. TypeOK /\ UpgradeStarts(s)
  BY InvOfSocket
<1>2. /\ Has(ToAgent(s), m) /\ m \in Messages /\ ToAgent(s) # <<>>
      /\ wire' \in [Ends -> [Sockets -> Seq(Messages)]]
      /\ \A x \in Ends, t \in Sockets : t # s => wire'[x][t] = wire[x][t]
      /\ ToServer(s)' = ToServer(s) \o messages
      /\ \A x : Has(ToAgent(s)', x) => Has(ToAgent(s), x)
      /\ \A x : Has(ToAgent(s), x) /\ x # m => Has(ToAgent(s)', x)
      /\ \A x : Has(ToServer(s)', x) <=> Has(ToServer(s), x) \/ Has(messages, x)
      /\ UNCHANGED <<up, faults, rested, orphan, quits>>
  <2>1. /\ up["agent"] /\ Has(wire["agent"][s], m) /\ wire["agent"][s] # <<>> /\ m \in Messages
        /\ wire' \in [Ends -> [Sockets -> Seq(Messages)]]
        /\ wire'["agent"][s] = Tail(wire["agent"][s])
        /\ wire'["server"][s] = wire["server"][s] \o messages
        /\ \A x \in Ends, t \in Sockets : t # s => wire'[x][t] = wire[x][t]
        /\ UNCHANGED <<up, faults, rested, orphan, quits>>
    BY <1>1, TwoEnds, AnswerShape
  <2>2. /\ \A x : Has(wire'["agent"][s], x) => Has(wire["agent"][s], x)
        /\ \A x : Has(wire["agent"][s], x) /\ x # m => Has(wire'["agent"][s], x)
    BY <1>1, TwoEnds, AnswerShape
  <2>3. \A x : Has(wire'["server"][s], x) <=> Has(wire["server"][s], x) \/ Has(messages, x)
    BY <1>1, TwoEnds, AnswerShape
  <2> QED
    BY <2>1, <2>2, <2>3 DEF ToServer, ToAgent
<1>3. ~Has(ToServer(s), "Upgrade") /\ ~Has(ToServer(s)', "Upgrade")
  BY <1>1, <1>2 DEF UpgradeStarts
<1>4. UpgradeStarts(s)'
  BY <1>3 DEF UpgradeStarts, Has
<1>5. ToServer(s) \in Seq(Messages)
  BY <1>1, TwoEnds, StateOf DEF ToServer
<1>6. messages = <<>> => ToServer(s)' = ToServer(s)
  BY <1>2, <1>5
<1> QED
  BY <1>2, <1>3, <1>4, <1>6

LEMMA AcceptKeeps ==
  ASSUME ConnectionInv, NEW s \in Sockets, AcceptUpgrade(s)
  PROVE  ConnectionInv'
<1> USE TwoEnds
<1> DEFINE new == End("waiting", 0)
<1>1. /\ TypeOK /\ UpgradeStarts(s) /\ ClosesAreMeant(s) /\ SeatOfMember(s) /\ OneSeat(s)
      /\ OrphanIsYoung(s) /\ BeatsInTime("agent", s) /\ Healthy(s)
      /\ Agent(s) # "waiting" /\ quits \in 0..MaxQuits
  BY InvOfSocket
<1>2. Server(s) = "closed" /\ Answer("server", s, "Upgrade", <<"Switched">>) /\ Enter("server", s, new)
  BY DEF AcceptUpgrade, Server
<1>3. new \in State /\ new.stage = "waiting" /\ new.age = 0 /\ new.cause = "none"
  BY EndFields DEF Stages
<1> HIDE DEF new
<1>4. <<"Switched">> \in Seq(Messages) /\ \A x : Has(<<"Switched">>, x) <=> x = "Switched"
  BY HasFew DEF Messages
<1>5. /\ at' \in [Ends -> [Sockets -> State]] /\ at'["server"][s] = new
      /\ at'["agent"][s] = at["agent"][s]
      /\ \A x \in Ends, t \in Sockets : t # s => at'[x][t] = at[x][t]
  BY <1>1, <1>2, <1>3, EnterShape
<1>6. /\ Has(ToServer(s), "Upgrade") /\ up["server"]
      /\ wire' \in [Ends -> [Sockets -> Seq(Messages)]]
      /\ \A x \in Ends, t \in Sockets : t # s => wire'[x][t] = wire[x][t]
      /\ \A x : Has(ToServer(s)', x) => Has(ToServer(s), x)
      /\ \A x : Has(ToServer(s), x) /\ x # "Upgrade" => Has(ToServer(s)', x)
      /\ \A x : Has(ToAgent(s)', x) <=> Has(ToAgent(s), x) \/ Has(<<"Switched">>, x)
      /\ UNCHANGED <<up, faults, rested, orphan, quits>>
      /\ UpgradeStarts(s)' /\ ~Has(ToServer(s)', "Upgrade")
  BY <1>2, <1>4, ServerAnswers
<1>7. Agent(s)' = Agent(s) /\ Server(s)' = "waiting"
  BY <1>3, <1>5 DEF Agent, Server
<1>8. ToAgent(s) = <<>> /\ orphan[s] = 0 /\ \A x : Has(ToAgent(s)', x) <=> x = "Switched"
  <2>1. ToAgent(s) = <<>> /\ orphan[s] = 0
    BY <1>1, <1>6 DEF UpgradeStarts
  <2>2. \A x : ~Has(ToAgent(s), x)
    BY <2>1, HasFew
  <2> QED
    BY <1>4, <1>6, <2>1, <2>2
<1>9. ClosesAreMeant(s)' /\ SeatOfMember(s)' /\ OneSeat(s)'
  <2>1. Agent(s) # "member"
    BY <1>1, <1>2, <1>8, HasFew DEF SeatOfMember
  <2> QED
    BY <1>1, <1>6, <1>7, <1>8, <2>1 DEF ClosesAreMeant, SeatOfMember, OneSeat
<1>10. OrphanIsYoung(s)'
  BY <1>1, <1>6, <1>7, <1>8 DEF OrphanIsYoung, Orphaned, Agent, Server
<1>11. BeatsInTime("agent", s)' /\ BeatsInTime("server", s)'
  BY <1>1, <1>3, <1>5 DEF BeatsInTime
<1>12. ASSUME faults = 0
       PROVE  /\ AnswersCome("agent", s)' /\ AnswersCome("server", s)'
              /\ HandshakeGoesOn(s)' /\ EndsAreTold(s)'
  <2>1. AnswersCome("agent", s) /\ HandshakeGoesOn(s) /\ EndsAreTold(s)
    BY <1>1, <1>12 DEF Healthy
  <2>2. HandshakeGoesOn(s)' /\ EndsAreTold(s)'
    BY <1>2, <1>6, <1>7, <1>8, <2>1 DEF HandshakeGoesOn, EndsAreTold
  <2>3. AnswersCome("server", s)'
    BY <1>3, <1>5 DEF AnswersCome
  <2>4. AnswersCome("agent", s)'
    <3>1. Agent(s) # "member"
      BY <1>1, <1>2, <1>8, HasFew DEF SeatOfMember
    <3> QED
      BY <1>5, <2>1, <3>1 DEF AnswersCome, Agent
  <2> QED
    BY <2>2, <2>3, <2>4
<1> QED
  BY <1>1, <1>5, <1>6, <1>7, <1>9, <1>10, <1>11, <1>12, StepOfSocket

(* The agent closes, and says so. *)
LEMMA AgentCloses ==
  ASSUME ConnectionInv, NEW s \in Sockets, Agent(s) # "closed",
         NEW why \in Causes, faults = 0 => why \notin {"idle", "late"},
         Enter("agent", s, Closed(why)),
         wire' \in [Ends -> [Sockets -> Seq(Messages)]], UpgradeStarts(s)',
         \A x \in Ends, t \in Sockets : t # s => wire'[x][t] = wire[x][t],
         \A x : Has(ToAgent(s)', x) => Has(ToAgent(s), x),
         \A x : Has(ToServer(s)', x) <=> Has(ToServer(s), x) \/ x = "Close",
         up' = up, faults' = faults, rested' = rested, orphan' = orphan, quits' \in 0..MaxQuits
  PROVE  ConnectionInv'
<1> USE TwoEnds
<1>1. /\ TypeOK /\ ClosesAreMeant(s) /\ SeatOfMember(s) /\ OneSeat(s)
      /\ OrphanIsYoung(s) /\ BeatsInTime("server", s) /\ Healthy(s)
      /\ Server(s) \notin {"connecting", "joining"}
  BY InvOfSocket
<1>2. Closed(why) \in State /\ Closed(why).stage = "closed" /\ Closed(why).cause = why
  BY ClosedFields
<1>3. /\ at' \in [Ends -> [Sockets -> State]] /\ at'["agent"][s] = Closed(why)
      /\ at'["server"][s] = at["server"][s]
      /\ \A x \in Ends, t \in Sockets : t # s => at'[x][t] = at[x][t]
  BY <1>1, <1>2, EnterShape
<1>4. /\ Agent(s)' = "closed" /\ Server(s)' = Server(s)
      /\ \A t \in Sockets : Server(t)' = Server(t)
  BY <1>2, <1>3 DEF Agent, Server
<1>5. ClosesAreMeant(s)' /\ SeatOfMember(s)' /\ OneSeat(s)'
  BY <1>1, <1>4 DEF ClosesAreMeant, SeatOfMember, OneSeat
<1>6. OrphanIsYoung(s)'
  <2>1. orphan[s] = 0 /\ at["server"][s].age \in Nat
    BY <1>1, StateOf DEF OrphanIsYoung
  <2> QED
    BY <1>1, <1>3, <2>1 DEF OrphanIsYoung
<1>7. BeatsInTime("agent", s)' /\ BeatsInTime("server", s)'
  BY <1>1, <1>2, <1>3 DEF BeatsInTime
<1>8. ASSUME faults = 0
      PROVE  /\ AnswersCome("agent", s)' /\ AnswersCome("server", s)'
             /\ HandshakeGoesOn(s)' /\ EndsAreTold(s)'
  <2>1. AnswersCome("server", s)
    BY <1>1, <1>8 DEF Healthy
  <2>2. HandshakeGoesOn(s)' /\ EndsAreTold(s)'
    BY <1>4 DEF HandshakeGoesOn, EndsAreTold
  <2>3. AnswersCome("agent", s)'
    BY <1>2, <1>3, <1>8 DEF AnswersCome, Waits
  <2>4. Has(wire'["server"][s], "Close")
    BY DEF ToServer
  <2>5. AnswersCome("server", s)'
    BY <1>3, <2>1, <2>4 DEF AnswersCome
  <2> QED
    BY <2>2, <2>3, <2>5
<1> QED
  BY <1>1, <1>3, <1>4, <1>5, <1>6, <1>7, <1>8, StepOfSocket

(* The server frees the seat or refuses, and says so. *)
LEMMA ServerCloses ==
  ASSUME ConnectionInv, NEW s \in Sockets, Server(s) # "closed",
         NEW why \in Causes, faults = 0 => why \notin {"idle", "late"},
         Enter("server", s, Closed(why)),
         wire' \in [Ends -> [Sockets -> Seq(Messages)]],
         UpgradeStarts(s)', ~Has(ToServer(s)', "Upgrade"),
         \A x \in Ends, t \in Sockets : t # s => wire'[x][t] = wire[x][t],
         \A x : Has(ToServer(s)', x) => Has(ToServer(s), x),
         \A x : Has(ToAgent(s), x) => Has(ToAgent(s)', x),
         Has(ToAgent(s)', "Close"),
         up' = up, faults' = faults, rested' = rested, orphan' = orphan, quits' \in 0..MaxQuits
  PROVE  ConnectionInv'
<1> USE TwoEnds
<1>1. /\ TypeOK /\ ClosesAreMeant(s) /\ SeatOfMember(s) /\ OneSeat(s)
      /\ OrphanIsYoung(s) /\ BeatsInTime("agent", s) /\ Healthy(s) /\ Agent(s) # "waiting"
  BY InvOfSocket
<1>2. Closed(why) \in State /\ Closed(why).stage = "closed" /\ Closed(why).cause = why
  BY ClosedFields
<1>3. /\ at' \in [Ends -> [Sockets -> State]] /\ at'["server"][s] = Closed(why)
      /\ at'["agent"][s] = at["agent"][s]
      /\ \A x \in Ends, t \in Sockets : t # s => at'[x][t] = at[x][t]
  BY <1>1, <1>2, EnterShape
<1>4. Agent(s)' = Agent(s) /\ Server(s)' = "closed"
  BY <1>2, <1>3 DEF Agent, Server
<1>5. ClosesAreMeant(s)' /\ SeatOfMember(s)' /\ OneSeat(s)'
  BY <1>1, <1>4 DEF ClosesAreMeant, SeatOfMember, OneSeat
<1>6. OrphanIsYoung(s)'
  <2>1. ~Orphaned(s)'
    BY <1>4 DEF Orphaned, Server
  <2> QED
    BY <1>1, <1>4, <2>1 DEF OrphanIsYoung
<1>7. BeatsInTime("agent", s)' /\ BeatsInTime("server", s)'
  BY <1>1, <1>2, <1>3 DEF BeatsInTime
<1>8. ASSUME faults = 0
      PROVE  /\ AnswersCome("agent", s)' /\ AnswersCome("server", s)'
             /\ HandshakeGoesOn(s)' /\ EndsAreTold(s)'
  <2>1. AnswersCome("agent", s) /\ HandshakeGoesOn(s) /\ EndsAreTold(s)
    BY <1>1, <1>8 DEF Healthy
  <2>2. HandshakeGoesOn(s)' /\ EndsAreTold(s)'
    BY <1>4 DEF HandshakeGoesOn, EndsAreTold
  <2>3. AnswersCome("server", s)'
    BY <1>2, <1>3, <1>8 DEF AnswersCome, Waits
  <2>4. Has(wire'["agent"][s], "Close")
    BY DEF ToAgent
  <2>5. AnswersCome("agent", s)'
    BY <1>3, <2>1, <2>4 DEF AnswersCome
  <2> QED
    BY <2>2, <2>3, <2>5
<1> QED
  BY <1>1, <1>3, <1>4, <1>5, <1>6, <1>7, <1>8, StepOfSocket

LEMMA AgentSends ==
  ASSUME ConnectionInv, NEW s \in Sockets, NEW messages \in Seq(Messages),
         Send("agent", s, messages), ~Has(messages, "Upgrade"), orphan' = orphan,
         at'["server"][s] = at["server"][s]
  PROVE  /\ wire' \in [Ends -> [Sockets -> Seq(Messages)]]
         /\ \A x \in Ends, t \in Sockets : t # s => wire'[x][t] = wire[x][t]
         /\ ToAgent(s)' = ToAgent(s)
         /\ \A x : Has(ToServer(s)', x) <=> Has(ToServer(s), x) \/ Has(messages, x)
         /\ UpgradeStarts(s)'
<1>1. TypeOK /\ UpgradeStarts(s)
  BY InvOfSocket
<1>2. /\ wire' \in [Ends -> [Sockets -> Seq(Messages)]]
      /\ wire'["agent"][s] = wire["agent"][s]
      /\ wire'["server"][s] = wire["server"][s] \o messages
      /\ \A x \in Ends, t \in Sockets : t # s => wire'[x][t] = wire[x][t]
  BY <1>1, TwoEnds, SendShape
<1>3. \A x : Has(wire'["server"][s], x) <=> Has(wire["server"][s], x) \/ Has(messages, x)
  BY <1>1, TwoEnds, SendShape
<1>4. \A i \in DOMAIN ToServer(s)' : ToServer(s)'[i] = "Upgrade" => i = 1
  <2>1. ToServer(s) \in Seq(Messages) /\ ToServer(s)' = ToServer(s) \o messages
    BY <1>1, <1>2, TwoEnds, StateOf DEF ToServer
  <2>2. /\ \A i \in DOMAIN ToServer(s) : ToServer(s)'[i] = ToServer(s)[i]
        /\ \A i \in DOMAIN ToServer(s)' : i \in DOMAIN ToServer(s) \/ Has(messages, ToServer(s)'[i])
    BY <2>1, HasConcat
  <2> QED
    BY <1>1, <2>2 DEF UpgradeStarts
<1>5. ToAgent(s)' = ToAgent(s) /\ Server(s)' = Server(s)
  BY <1>2 DEF ToAgent, Server
<1>6. UpgradeStarts(s)'
  <2>1. Has(ToServer(s)', "Upgrade") => Has(ToServer(s), "Upgrade")
    BY <1>3 DEF ToServer
  <2> QED
    BY <1>1, <1>4, <1>5, <2>1 DEF UpgradeStarts
<1> QED
  BY <1>2, <1>3, <1>5, <1>6 DEF ToServer

LEMMA ServerSends ==
  ASSUME ConnectionInv, NEW s \in Sockets, NEW messages \in Seq(Messages),
         Send("server", s, messages), Server(s) # "closed"
  PROVE  /\ wire' \in [Ends -> [Sockets -> Seq(Messages)]]
         /\ \A x \in Ends, t \in Sockets : t # s => wire'[x][t] = wire[x][t]
         /\ ToServer(s)' = ToServer(s)
         /\ \A x : Has(ToAgent(s)', x) <=> Has(ToAgent(s), x) \/ Has(messages, x)
         /\ UpgradeStarts(s)' /\ ~Has(ToServer(s)', "Upgrade") /\ ~Has(ToServer(s), "Upgrade")
<1>1. TypeOK /\ UpgradeStarts(s)
  BY InvOfSocket
<1>2. /\ wire' \in [Ends -> [Sockets -> Seq(Messages)]]
      /\ wire'["server"][s] = wire["server"][s]
      /\ \A x \in Ends, t \in Sockets : t # s => wire'[x][t] = wire[x][t]
  BY <1>1, TwoEnds, SendShape
<1>3. \A x : Has(wire'["agent"][s], x) <=> Has(wire["agent"][s], x) \/ Has(messages, x)
  BY <1>1, TwoEnds, SendShape
<1>4. ToServer(s)' = ToServer(s)
  BY <1>2 DEF ToServer
<1>5. ~Has(ToServer(s), "Upgrade")
  BY <1>1 DEF UpgradeStarts
<1>6. ~Has(ToServer(s)', "Upgrade")
  BY <1>4, <1>5
<1>7. UpgradeStarts(s)'
  BY <1>6 DEF UpgradeStarts, Has
<1> QED
  BY <1>2, <1>3, <1>4, <1>5, <1>6, <1>7 DEF ToAgent

LEMMA GiveUpKeeps ==
  ASSUME ConnectionInv, NEW e \in Ends, NEW s \in Sockets, GiveUp(e, s)
  PROVE  ConnectionInv'
<1>1. /\ at[e][s].stage \in Waits /\ at[e][s].age >= JoinLimit /\ Enter(e, s, Closed("late"))
      /\ Send(e, s, IF e = "server" THEN <<"Rejected", "Close">> ELSE <<"Close">>)
      /\ up' = up /\ faults' = faults /\ rested' = rested /\ orphan' = orphan /\ quits' = quits
  BY DEF GiveUp, networkVars
<1>2. faults # 0
  BY <1>1, InvOfSocket, StateOf, Bounds DEF Healthy, AnswersCome
<1>3. /\ <<"Close">> \in Seq(Messages) /\ <<"Rejected", "Close">> \in Seq(Messages)
      /\ \A x : Has(<<"Close">>, x) <=> x = "Close"
      /\ \A x : Has(<<"Rejected", "Close">>, x) <=> x = "Rejected" \/ x = "Close"
  BY HasFew DEF Messages
<1>4. TypeOK /\ quits \in 0..MaxQuits /\ "late" \in Causes
  BY InvOfSocket DEF Causes
<1>5. CASE e = "agent"
  <2>1. Agent(s) # "closed" /\ Send("agent", s, <<"Close">>) /\ Enter("agent", s, Closed("late"))
    BY <1>1, <1>5 DEF Agent, Waits
  <2>2. at'["server"][s] = at["server"][s]
    BY <1>4, <2>1, TwoEnds, ClosedFields, EnterShape
  <2> QED
    BY <1>1, <1>2, <1>3, <1>4, <2>1, <2>2, AgentSends, AgentCloses
<1>6. CASE e = "server"
  <2>1. /\ Server(s) # "closed" /\ Send("server", s, <<"Rejected", "Close">>)
        /\ Enter("server", s, Closed("late"))
    BY <1>1, <1>6 DEF Server, Waits
  <2> QED
    BY <1>1, <1>2, <1>3, <1>4, <2>1, ServerSends, ServerCloses
<1> QED
  BY <1>5, <1>6, TwoEnds

LEMMA QuitKeeps ==
  ASSUME ConnectionInv, NEW s \in Sockets, Quit(s)
  PROVE  ConnectionInv'
<1>1. /\ quits < MaxQuits /\ quits' = quits + 1 /\ Agent(s) # "closed"
      /\ Enter("agent", s, Closed("quit")) /\ Send("agent", s, <<"Close">>)
      /\ up' = up /\ faults' = faults /\ rested' = rested /\ orphan' = orphan
  BY DEF Quit, networkVars, Agent
<1>2. <<"Close">> \in Seq(Messages) /\ \A x : Has(<<"Close">>, x) <=> x = "Close"
  BY HasFew DEF Messages
<1>3. TypeOK /\ quits' \in 0..MaxQuits /\ "quit" \in Causes
  BY <1>1, InvOfSocket, Bounds DEF Causes
<1>4. at'["server"][s] = at["server"][s]
  BY <1>1, <1>3, TwoEnds, ClosedFields, EnterShape
<1> QED
  BY <1>1, <1>2, <1>3, <1>4, AgentSends, AgentCloses

(* The agent goes on with the handshake. *)
LEMMA AgentGoesOn ==
  ASSUME ConnectionInv, NEW s \in Sockets, NEW m, NEW messages \in Seq(Messages), NEW state \in State,
         Agent(s) \in {"connecting", "joining"}, Answer("agent", s, m, messages),
         Enter("agent", s, state),
         ~Has(messages, "Upgrade"), ~Has(messages, "Close"),
         state.age = 0, state.cause = "none",
         \/ m = "Switched" /\ state.stage = "joining" /\ Has(messages, "Join")
         \/ m = "Joined" /\ state.stage = "member" /\ state.next = Interval["agent"]
  PROVE  ConnectionInv'
<1> USE TwoEnds
<1>1. /\ TypeOK /\ ClosesAreMeant(s) /\ SeatOfMember(s) /\ OneSeat(s)
      /\ OrphanIsYoung(s) /\ BeatsInTime("server", s) /\ Healthy(s)
      /\ Server(s) \notin {"connecting", "joining"} /\ quits \in 0..MaxQuits
  BY InvOfSocket
<1>2. /\ at' \in [Ends -> [Sockets -> State]] /\ at'["agent"][s] = state
      /\ at'["server"][s] = at["server"][s]
      /\ \A x \in Ends, t \in Sockets : t # s => at'[x][t] = at[x][t]
  BY <1>1, EnterShape
<1>3. /\ Has(ToAgent(s), m) /\ wire' \in [Ends -> [Sockets -> Seq(Messages)]]
      /\ \A x \in Ends, t \in Sockets : t # s => wire'[x][t] = wire[x][t]
      /\ \A x : Has(ToAgent(s)', x) => Has(ToAgent(s), x)
      /\ \A x : Has(ToAgent(s), x) /\ x # m => Has(ToAgent(s)', x)
      /\ \A x : Has(ToServer(s)', x) <=> Has(ToServer(s), x) \/ Has(messages, x)
      /\ UNCHANGED <<up, faults, rested, orphan, quits>>
      /\ UpgradeStarts(s)' /\ ~Has(ToServer(s), "Upgrade") /\ ~Has(ToServer(s)', "Upgrade")
  BY AgentAnswers
<1>4. /\ Agent(s)' = state.stage /\ Server(s)' = Server(s) /\ Agent(s)' \in {"joining", "member"}
      /\ \A t \in Sockets : Server(t)' = Server(t)
  BY <1>2 DEF Agent, Server
<1>5. ClosesAreMeant(s)' /\ SeatOfMember(s)' /\ OneSeat(s)'
  <2>1. ClosesAreMeant(s)'
    BY <1>1, <1>3, <1>4 DEF ClosesAreMeant
  <2>2. SeatOfMember(s)'
    BY <1>1, <1>3, <1>4 DEF SeatOfMember
  <2> QED
    BY <1>1, <1>4, <2>1, <2>2 DEF OneSeat
<1>6. OrphanIsYoung(s)'
  <2>1. orphan[s] = 0 /\ ~Orphaned(s)'
    BY <1>1, <1>4 DEF OrphanIsYoung, Orphaned, Agent
  <2> QED
    BY <1>1, <1>3, <2>1 DEF OrphanIsYoung
<1>7. BeatsInTime("agent", s)' /\ BeatsInTime("server", s)'
  <2>1. BeatsInTime("server", s)'
    BY <1>1, <1>2 DEF BeatsInTime
  <2>2. BeatsInTime("agent", s)'
    BY <1>2, Bounds DEF BeatsInTime
  <2> QED
    BY <2>1, <2>2
<1>8. ASSUME faults = 0
      PROVE  /\ AnswersCome("agent", s)' /\ AnswersCome("server", s)'
             /\ HandshakeGoesOn(s)' /\ EndsAreTold(s)'
  <2>1. AnswersCome("server", s) /\ HandshakeGoesOn(s) /\ EndsAreTold(s)
    BY <1>1, <1>8 DEF Healthy
  <2>2. HandshakeGoesOn(s)' /\ EndsAreTold(s)'
    <3>1. HandshakeGoesOn(s)'
      <4>1. CASE m = "Switched" /\ state.stage = "joining" /\ Has(messages, "Join")
        BY <1>3, <1>4, <2>1, <4>1 DEF HandshakeGoesOn
      <4>2. CASE m = "Joined" /\ state.stage = "member"
        BY <1>3, <1>4, <2>1, <4>2 DEF HandshakeGoesOn
      <4> QED
        BY <4>1, <4>2
    <3>2. EndsAreTold(s)'
      <4>1. CASE m = "Switched"
        <5>1. Has(ToAgent(s), "Close") => Has(ToAgent(s)', "Close")
          BY <1>3, <4>1
        <5>2. Has(ToAgent(s), "Joined") => Has(ToAgent(s)', "Joined")
          BY <1>3, <4>1
        <5>3. Has(ToServer(s), "Close") => Has(ToServer(s)', "Close")
          BY <1>3
        <5> QED
          BY <1>3, <1>4, <2>1, <5>1, <5>2, <5>3 DEF EndsAreTold
      <4>2. CASE m = "Joined" /\ state.stage = "member"
        BY <1>3, <1>4, <2>1, <4>2 DEF EndsAreTold
      <4> QED
        BY <4>1, <4>2
    <3> QED
      BY <3>1, <3>2
  <2>3. AnswersCome("agent", s)'
    BY <1>2, Bounds DEF AnswersCome, Waits
  <2>4. /\ Has(wire["agent"][s], "Ping") => Has(wire'["agent"][s], "Ping")
        /\ \A x : Has(wire["server"][s], x) => Has(wire'["server"][s], x)
    BY <1>3 DEF ToAgent, ToServer
  <2>5. AnswersCome("server", s)'
    BY <1>2, <2>1, <2>4 DEF AnswersCome
  <2> QED
    BY <2>2, <2>3, <2>5
<1> QED
  BY <1>1, <1>2, <1>3, <1>4, <1>5, <1>6, <1>7, <1>8, StepOfSocket

LEMMA SendJoinKeeps ==
  ASSUME ConnectionInv, NEW s \in Sockets, SendJoin(s)
  PROVE  ConnectionInv'
<1> DEFINE new == End("joining", 0)
<1>1. Agent(s) = "connecting" /\ Answer("agent", s, "Switched", <<"Join">>) /\ Enter("agent", s, new)
  BY DEF SendJoin, Agent
<1>2. new \in State /\ new.stage = "joining" /\ new.age = 0 /\ new.cause = "none"
  BY EndFields DEF Stages
<1> HIDE DEF new
<1>3. <<"Join">> \in Seq(Messages) /\ \A x : Has(<<"Join">>, x) <=> x = "Join"
  BY HasFew DEF Messages
<1> QED
  BY <1>1, <1>2, <1>3, AgentGoesOn

LEMMA JoinedKeeps ==
  ASSUME ConnectionInv, NEW s \in Sockets, Joined(s)
  PROVE  ConnectionInv'
<1>1. Agent(s) = "joining" /\ TypeOK /\ quits \in 0..MaxQuits
  BY InvOfSocket DEF Joined, Agent
<1>2. CASE Answer("agent", s, "Joined", <<>>) /\ Enter("agent", s, End("member", Interval["agent"]))
  <2> DEFINE new == End("member", Interval["agent"])
  <2>1. /\ new \in State /\ new.stage = "member" /\ new.age = 0 /\ new.cause = "none"
        /\ new.next = Interval["agent"]
    BY EndFields, Bounds, TwoEnds DEF Stages
  <2>2. Enter("agent", s, new)
    BY <1>2
  <2> HIDE DEF new
  <2> QED
    BY <1>1, <1>2, <2>1, <2>2, HasFew, AgentGoesOn
<1>3. CASE Answer("agent", s, "Rejected", <<"Close">>) /\ Enter("agent", s, Closed("refused"))
  <2>1. <<"Close">> \in Seq(Messages) /\ \A x : Has(<<"Close">>, x) <=> x = "Close"
    BY HasFew DEF Messages
  <2>2. /\ wire' \in [Ends -> [Sockets -> Seq(Messages)]]
        /\ \A x \in Ends, t \in Sockets : t # s => wire'[x][t] = wire[x][t]
        /\ \A x : Has(ToAgent(s)', x) => Has(ToAgent(s), x)
        /\ \A x : Has(ToServer(s)', x) <=> Has(ToServer(s), x) \/ Has(<<"Close">>, x)
        /\ UNCHANGED <<up, faults, rested, orphan, quits>> /\ UpgradeStarts(s)'
    BY <1>3, <2>1, AgentAnswers, ZenonT(20)
  <2>3. "refused" \in Causes /\ "refused" \notin {"idle", "late"}
    BY DEF Causes
  <2> QED
    BY <1>1, <1>3, <2>1, <2>2, <2>3, AgentCloses
<1> QED
  BY <1>2, <1>3 DEF Joined

LEMMA JoinRoomKeeps ==
  ASSUME ConnectionInv, NEW s \in Sockets, JoinRoom(s)
  PROVE  ConnectionInv'
<1> USE TwoEnds
<1>1. /\ TypeOK /\ ClosesAreMeant(s) /\ SeatOfMember(s) /\ OneSeat(s)
      /\ OrphanIsYoung(s) /\ BeatsInTime("agent", s) /\ Healthy(s)
      /\ Agent(s) # "waiting" /\ quits \in 0..MaxQuits /\ Server(s) = "waiting"
  BY InvOfSocket DEF JoinRoom, Server
<1>2. CASE ~Taken(s) /\ Answer("server", s, "Join", <<"Joined">>)
           /\ Enter("server", s, End("member", Interval["server"]))
  <2> DEFINE new == End("member", Interval["server"])
  <2>1. /\ new \in State /\ new.stage = "member" /\ new.age = 0 /\ new.cause = "none"
        /\ new.next = Interval["server"]
    BY EndFields, Bounds DEF Stages
  <2>2. Enter("server", s, new)
    BY <1>2
  <2> HIDE DEF new
  <2>3. <<"Joined">> \in Seq(Messages) /\ \A x : Has(<<"Joined">>, x) <=> x = "Joined"
    BY HasFew DEF Messages
  <2>4. /\ at' \in [Ends -> [Sockets -> State]] /\ at'["server"][s] = new
        /\ at'["agent"][s] = at["agent"][s]
        /\ \A x \in Ends, t \in Sockets : t # s => at'[x][t] = at[x][t]
    BY <1>1, <2>1, <2>2, EnterShape
  <2>5. /\ wire' \in [Ends -> [Sockets -> Seq(Messages)]]
        /\ \A x \in Ends, t \in Sockets : t # s => wire'[x][t] = wire[x][t]
        /\ \A x : Has(ToServer(s)', x) => Has(ToServer(s), x)
        /\ \A x : Has(ToServer(s), x) /\ x # "Join" => Has(ToServer(s)', x)
        /\ \A x : Has(ToAgent(s)', x) <=> Has(ToAgent(s), x) \/ Has(<<"Joined">>, x)
        /\ UNCHANGED <<up, faults, rested, orphan, quits>>
        /\ UpgradeStarts(s)' /\ ~Has(ToServer(s), "Upgrade")
    <3>1. Answer("server", s, "Join", <<"Joined">>) /\ <<"Joined">> \in Seq(Messages)
      BY <1>2, <2>3
    <3>2. ~Has(ToServer(s), "Upgrade")
      BY <1>1, InvOfSocket DEF UpgradeStarts
    <3> QED
      BY <3>1, <3>2, ServerAnswers
  <2>6. /\ Agent(s)' = Agent(s) /\ Server(s)' = "member"
        /\ \A t \in Sockets : t # s => Server(t)' = Server(t)
    BY <2>1, <2>4 DEF Agent, Server
  <2>7. ClosesAreMeant(s)' /\ SeatOfMember(s)'
    BY <1>1, <2>3, <2>5, <2>6 DEF ClosesAreMeant, SeatOfMember
  <2>8. OneSeat(s)'
    BY <1>2, <2>6 DEF OneSeat, Taken, Server
  <2>9. OrphanIsYoung(s)'
    BY <1>1, <2>1, <2>4, <2>5, <2>6 DEF OrphanIsYoung, Orphaned, Agent, Server
  <2>10. BeatsInTime("agent", s)' /\ BeatsInTime("server", s)'
    <3>1. BeatsInTime("agent", s)'
      BY <1>1, <2>4 DEF BeatsInTime
    <3>2. BeatsInTime("server", s)'
      BY <2>1, <2>4, Bounds DEF BeatsInTime
    <3> QED
      BY <3>1, <3>2
  <2>11. ASSUME faults = 0
         PROVE  /\ AnswersCome("agent", s)' /\ AnswersCome("server", s)'
                /\ HandshakeGoesOn(s)' /\ EndsAreTold(s)'
    <3>1. AnswersCome("agent", s) /\ HandshakeGoesOn(s) /\ EndsAreTold(s)
      BY <1>1, <2>11 DEF Healthy
    <3>2. HandshakeGoesOn(s)' /\ EndsAreTold(s)'
      BY <1>1, <2>3, <2>5, <2>6, <3>1 DEF HandshakeGoesOn, EndsAreTold
    <3>3. AnswersCome("server", s)'
      BY <2>1, <2>4, Bounds DEF AnswersCome, Waits
    <3>4. /\ Has(wire["server"][s], "Ping") => Has(wire'["server"][s], "Ping")
          /\ \A x : Has(wire["agent"][s], x) => Has(wire'["agent"][s], x)
      BY <2>5 DEF ToAgent, ToServer
    <3>5. AnswersCome("agent", s)'
      BY <2>4, <3>1, <3>4 DEF AnswersCome
    <3> QED
      BY <3>2, <3>3, <3>5
  <2> QED
    BY <1>1, <2>4, <2>5, <2>6, <2>7, <2>8, <2>9, <2>10, <2>11, StepOfSocket
<1>3. CASE Answer("server", s, "Join", <<"Rejected", "Close">>) /\ Enter("server", s, Closed("refused"))
  <2>1. /\ <<"Rejected", "Close">> \in Seq(Messages)
        /\ \A x : Has(<<"Rejected", "Close">>, x) <=> x = "Rejected" \/ x = "Close"
    BY HasFew DEF Messages
  <2>2. /\ wire' \in [Ends -> [Sockets -> Seq(Messages)]]
        /\ \A x \in Ends, t \in Sockets : t # s => wire'[x][t] = wire[x][t]
        /\ \A x : Has(ToServer(s)', x) => Has(ToServer(s), x)
        /\ \A x : Has(ToAgent(s)', x) <=> Has(ToAgent(s), x) \/ Has(<<"Rejected", "Close">>, x)
        /\ UNCHANGED <<up, faults, rested, orphan, quits>>
        /\ UpgradeStarts(s)' /\ ~Has(ToServer(s)', "Upgrade")
    <3>1. Answer("server", s, "Join", <<"Rejected", "Close">>)
      BY <1>3
    <3>2. <<"Rejected", "Close">> \in Seq(Messages)
      BY <2>1
    <3> QED
      BY <3>1, <3>2, ServerAnswers
  <2>3. "refused" \in Causes /\ "refused" \notin {"idle", "late"}
    BY DEF Causes
  <2> QED
    BY <1>1, <1>3, <2>1, <2>2, <2>3, ServerCloses
<1> QED
  BY <1>2, <1>3 DEF JoinRoom

LEMMA ReplyFacts ==
  ASSUME NEW m \in {"Ping", "Pong"}
  PROVE  /\ Reply(m) \in Seq(Messages) /\ \A x : Has(Reply(m), x) => x = "Pong"
         /\ m = "Ping" => Has(Reply(m), "Pong")
<1>1. CASE m = "Ping"
  <2>1. Reply(m) = <<"Pong">>
    BY <1>1 DEF Reply
  <2> QED
    BY <1>1, <2>1, HasFew, ZenonT(20) DEF Messages
<1>2. CASE m = "Pong"
  <2>1. Reply(m) = <<>>
    BY <1>2 DEF Reply
  <2> QED
    BY <1>2, <2>1, HasFew DEF Messages
<1> QED
  BY <1>1, <1>2

(* A member that has heard its peer, or has sent a heartbeat, stays one. *)
LEMMA MemberFields ==
  ASSUME TypeOK, NEW e \in Ends, NEW s \in Sockets, NEW next \in Nat
  PROVE  /\ Heard(at[e][s]) \in State /\ Heard(at[e][s]).stage = at[e][s].stage
         /\ Heard(at[e][s]).age = 0 /\ Heard(at[e][s]).next = at[e][s].next
         /\ Heard(at[e][s]).cause = at[e][s].cause
         /\ Beaten(at[e][s], next) \in State /\ Beaten(at[e][s], next).stage = at[e][s].stage
         /\ Beaten(at[e][s], next).age = at[e][s].age /\ Beaten(at[e][s], next).next = next
         /\ Beaten(at[e][s], next).cause = at[e][s].cause
<1>1. at[e][s] \in State
  BY StateOf
<1> QED
  BY <1>1 DEF State, Heard, Beaten

(* Nobody enters or leaves: what is on the wire is still what it was,      *)
(* without one heartbeat or with one more.                                 *)
LEMMA HeartbeatKeeps ==
  ASSUME ConnectionInv, NEW e \in Ends, NEW s \in Sockets, NEW state \in State,
         at[e][s].stage = "member", Enter(e, s, state),
         state.stage = "member", state.cause = at[e][s].cause, BeatsInTime(e, s)',
         wire' \in [Ends -> [Sockets -> Seq(Messages)]], UpgradeStarts(s)',
         \A x \in Ends, t \in Sockets : t # s => wire'[x][t] = wire[x][t],
         \A x : x \notin {"Ping", "Pong"} => (Has(ToServer(s)', x) <=> Has(ToServer(s), x)),
         \A x : x \notin {"Ping", "Pong"} => (Has(ToAgent(s)', x) <=> Has(ToAgent(s), x)),
         up' = up, faults' = faults, rested' = rested, orphan' = orphan, quits' = quits,
         OrphanIsYoung(s)',
         faults = 0 => AnswersCome(e, s)' /\ AnswersCome(Peer(e), s)'
  PROVE  ConnectionInv'
<1> USE TwoEnds
<1>1. /\ TypeOK /\ ClosesAreMeant(s) /\ SeatOfMember(s) /\ OneSeat(s)
      /\ BeatsInTime("agent", s) /\ BeatsInTime("server", s) /\ Healthy(s)
      /\ Agent(s) # "waiting" /\ Server(s) \notin {"connecting", "joining"} /\ quits' \in 0..MaxQuits
  BY InvOfSocket
<1>2. /\ at' \in [Ends -> [Sockets -> State]] /\ at'[e][s] = state
      /\ at'[Peer(e)][s] = at[Peer(e)][s]
      /\ \A x \in Ends, t \in Sockets : t # s => at'[x][t] = at[x][t]
  BY <1>1, EnterShape
<1>3. /\ Agent(s)' = Agent(s) /\ Server(s)' = Server(s)
      /\ \A t \in Sockets : Server(t)' = Server(t)
  <2>1. \A x \in Ends : at'[x][s].stage = at[x][s].stage
    BY <1>2
  <2> QED
    BY <1>2, <2>1 DEF Agent, Server
<1>4. /\ \A x \in {"Upgrade", "Close", "Joined", "Switched", "Join", "Rejected"} :
           /\ Has(ToServer(s)', x) <=> Has(ToServer(s), x)
           /\ Has(ToAgent(s)', x) <=> Has(ToAgent(s), x)
  OBVIOUS
<1>5. ClosesAreMeant(s)' /\ SeatOfMember(s)' /\ OneSeat(s)'
  <2>1. ClosesAreMeant(s)'
    BY <1>1, <1>3, <1>4 DEF ClosesAreMeant
  <2>2. SeatOfMember(s)'
    BY <1>1, <1>3, <1>4 DEF SeatOfMember
  <2> QED
    BY <1>1, <1>3, <2>1, <2>2 DEF OneSeat
<1>6. BeatsInTime("agent", s)' /\ BeatsInTime("server", s)'
  <2>1. BeatsInTime(Peer(e), s)'
    BY <1>1, <1>2 DEF BeatsInTime
  <2> QED
    BY <2>1
<1>7. ASSUME faults = 0
      PROVE  /\ AnswersCome("agent", s)' /\ AnswersCome("server", s)'
             /\ HandshakeGoesOn(s)' /\ EndsAreTold(s)'
  <2>1. HandshakeGoesOn(s) /\ EndsAreTold(s)
    BY <1>1, <1>7 DEF Healthy
  <2>2. HandshakeGoesOn(s)'
    BY <1>3, <1>4, <2>1 DEF HandshakeGoesOn
  <2>3. EndsAreTold(s)'
    BY <1>3, <1>4, <2>1 DEF EndsAreTold
  <2>4. AnswersCome("agent", s)' /\ AnswersCome("server", s)'
    BY <1>7
  <2> QED
    BY <2>2, <2>3, <2>4
<1> QED
  BY <1>1, <1>2, <1>3, <1>5, <1>6, <1>7, StepOfSocket

LEMMA HearKeeps ==
  ASSUME ConnectionInv, NEW e \in Ends, NEW s \in Sockets, Hear(e, s)
  PROVE  ConnectionInv'
<1> USE TwoEnds
<1> DEFINE new == Heard(at[e][s])
<1>1. /\ TypeOK /\ OrphanIsYoung(s) /\ BeatsInTime("agent", s) /\ BeatsInTime("server", s) /\ Healthy(s)
  BY InvOfSocket
<1>2. PICK m \in {"Ping", "Pong"} : Answer(e, s, m, Reply(m)) /\ Enter(e, s, new)
  BY DEF Hear
<1>3. /\ new \in State /\ new.stage = "member" /\ new.age = 0 /\ new.next = at[e][s].next
      /\ new.cause = at[e][s].cause /\ at[e][s].stage = "member" /\ at[e][s].next \in Nat
  BY <1>1, MemberFields, StateOf DEF Hear
<1> HIDE DEF new
<1>4. /\ Reply(m) \in Seq(Messages) /\ \A x : Has(Reply(m), x) => x = "Pong"
      /\ m = "Ping" => Has(Reply(m), "Pong")
  BY ReplyFacts
<1>5. /\ at'[e][s] = new /\ at'[Peer(e)][s] = at[Peer(e)][s]
  BY <1>1, <1>2, <1>3, EnterShape
<1>6. BeatsInTime(e, s)'
  <2>1. at[e][s].next <= Interval[e]
    BY <1>1, <1>3 DEF BeatsInTime
  <2>2. 0 + at[e][s].next < Limit[e] + Interval[e]
    BY <1>3, <2>1, Bounds
  <2> QED
    BY <1>3, <1>5, <2>1, <2>2 DEF BeatsInTime
<1>7. /\ wire' \in [Ends -> [Sockets -> Seq(Messages)]]
      /\ \A x \in Ends, t \in Sockets : t # s => wire'[x][t] = wire[x][t]
      /\ up' = up /\ faults' = faults /\ rested' = rested /\ orphan' = orphan /\ quits' = quits
      /\ up[e] /\ wire[e][s] # <<>>
  BY <1>1, <1>2, <1>4, AnswerShape
<1>8. /\ \A x : Has(wire'[e][s], x) => Has(wire[e][s], x)
      /\ \A x : Has(wire[e][s], x) /\ x # m => Has(wire'[e][s], x)
  BY <1>1, <1>2, <1>4, AnswerShape, ZenonT(20)
<1>9. \A x : Has(wire'[Peer(e)][s], x) <=> Has(wire[Peer(e)][s], x) \/ Has(Reply(m), x)
  BY <1>1, <1>2, <1>4, AnswerShape
<1>10. \A x : x \notin {"Ping", "Pong"} =>
         /\ Has(wire'[e][s], x) <=> Has(wire[e][s], x)
         /\ Has(wire'[Peer(e)][s], x) <=> Has(wire[Peer(e)][s], x)
  BY <1>4, <1>8, <1>9
<1>11. UpgradeStarts(s)'
  <2>1. CASE e = "agent"
    <3>1. Answer("agent", s, m, Reply(m)) /\ ~Has(Reply(m), "Upgrade")
      BY <1>2, <1>4, <2>1
    <3> QED
      BY <1>4, <3>1, AgentAnswers
  <2>2. CASE e = "server"
    <3>1. Answer("server", s, m, Reply(m))
      BY <1>2, <2>2
    <3> QED
      BY <1>4, <3>1, ServerAnswers
  <2> QED
    BY <2>1, <2>2
<1>12. OrphanIsYoung(s)'
  <2>1. CASE e = "agent"
    <3>1. Agent(s) = "member" /\ Agent(s)' = "member"
      BY <1>3, <1>5, <2>1 DEF Agent
    <3>2. ~Orphaned(s)' /\ orphan'[s] = 0
      BY <1>1, <1>7, <3>1 DEF OrphanIsYoung, Orphaned, Agent
    <3> QED
      BY <1>1, <1>7, <3>1, <3>2 DEF OrphanIsYoung
  <2>2. CASE e = "server"
    <3>1. Agent(s)' = Agent(s) /\ Server(s)' = Server(s) /\ (Orphaned(s)' <=> Orphaned(s))
      BY <1>3, <1>5, <2>2 DEF Agent, Server, Orphaned
    <3>2. Orphaned(s) => orphan[s] = 0
      BY <1>1, <1>7, <2>2 DEF OrphanIsYoung, ToServer
    <3>3. at'["server"][s].age = 0
      BY <1>3, <1>5, <2>2
    <3> QED
      BY <1>1, <1>7, <3>1, <3>2, <3>3 DEF OrphanIsYoung
  <2> QED
    BY <2>1, <2>2
<1>13. ASSUME faults = 0
       PROVE  AnswersCome(e, s)' /\ AnswersCome(Peer(e), s)'
  <2>1. AnswersCome(e, s) /\ AnswersCome(Peer(e), s)
    BY <1>1, <1>13 DEF Healthy
  <2>2. at[e][s].next <= Interval[e]
    BY <1>1, <1>3 DEF BeatsInTime
  <2>3. AnswersCome(e, s)'
    BY <1>3, <1>5, <2>1, <2>2, Bounds DEF AnswersCome, Waits
  <2>4. /\ Has(wire[e][s], "Ping") => Has(wire'[e][s], "Ping") \/ Has(wire'[Peer(e)][s], "Pong")
        /\ Has(wire[Peer(e)][s], "Pong") => Has(wire'[Peer(e)][s], "Pong")
        /\ Has(wire[Peer(e)][s], "Close") => Has(wire'[Peer(e)][s], "Close")
    BY <1>4, <1>8, <1>9
  <2>5. AnswersCome(Peer(e), s)'
    BY <1>5, <2>1, <2>4 DEF AnswersCome
  <2> QED
    BY <2>3, <2>5
<1>14. /\ \A x : x \notin {"Ping", "Pong"} => (Has(ToServer(s)', x) <=> Has(ToServer(s), x))
       /\ \A x : x \notin {"Ping", "Pong"} => (Has(ToAgent(s)', x) <=> Has(ToAgent(s), x))
  BY <1>10 DEF ToServer, ToAgent
<1> QED
  BY <1>2, <1>3, <1>6, <1>7, <1>11, <1>12, <1>13, <1>14, HeartbeatKeeps

LEMMA BeatKeeps ==
  ASSUME ConnectionInv, NEW e \in Ends, NEW s \in Sockets, Beat(e, s)
  PROVE  ConnectionInv'
<1> USE TwoEnds
<1>1. /\ TypeOK /\ OrphanIsYoung(s) /\ BeatsInTime("agent", s) /\ BeatsInTime("server", s)
      /\ Healthy(s) /\ quits \in 0..MaxQuits
  BY InvOfSocket
<1>2. /\ at[e][s].stage = "member" /\ at[e][s].age \in Nat
      /\ up' = up /\ faults' = faults /\ rested' = rested /\ orphan' = orphan /\ quits' = quits
  BY <1>1, StateOf DEF Beat, networkVars
<1>3. /\ e = "agent" => Agent(s) = "member"
      /\ e = "server" => Server(s) = "member"
  BY <1>2 DEF Agent, Server
<1>4. /\ <<"Close">> \in Seq(Messages) /\ <<"Ping">> \in Seq(Messages)
      /\ \A x : Has(<<"Close">>, x) <=> x = "Close"
      /\ \A x : Has(<<"Ping">>, x) <=> x = "Ping"
  BY HasFew DEF Messages
<1>5. CASE Idle(e, s) /\ Enter(e, s, Closed("idle")) /\ Send(e, s, Farewell(e))
  <2>1. faults # 0
    <3>1. at[e][s].age >= Limit[e]
      BY <1>5 DEF Idle
    <3> QED
      BY <1>1, <1>2, <3>1, Bounds DEF Healthy, AnswersCome
  <2>2. Send(e, s, <<"Close">>) /\ Enter(e, s, Closed("idle")) /\ "idle" \in Causes
    BY <1>5 DEF Farewell, Causes
  <2>3. CASE e = "agent"
    <3>1. Agent(s) # "closed" /\ Send("agent", s, <<"Close">>) /\ Enter("agent", s, Closed("idle"))
      BY <1>3, <2>2, <2>3
    <3>2. at'["server"][s] = at["server"][s]
      BY <1>1, <2>2, <3>1, ClosedFields, EnterShape
    <3> QED
      BY <1>1, <1>2, <1>4, <2>1, <2>2, <3>1, <3>2, AgentSends, AgentCloses
  <2>4. CASE e = "server"
    <3>1. Server(s) # "closed" /\ Send("server", s, <<"Close">>) /\ Enter("server", s, Closed("idle"))
      BY <1>3, <2>2, <2>4
    <3> QED
      BY <1>1, <1>2, <1>4, <2>1, <2>2, <3>1, ServerSends, ServerCloses
  <2> QED
    BY <2>3, <2>4
<1>6. CASE /\ ~Idle(e, s) /\ Enter(e, s, Beaten(at[e][s], Interval[e])) /\ Send(e, s, <<"Ping">>)
  <2> DEFINE new == Beaten(at[e][s], Interval[e])
  <2>1. /\ new \in State /\ new.stage = "member" /\ new.age = at[e][s].age /\ new.next = Interval[e]
        /\ new.cause = at[e][s].cause
    BY <1>1, <1>2, MemberFields, Bounds
  <2>2. Enter(e, s, new) /\ Send(e, s, <<"Ping">>)
    BY <1>6
  <2>3. at[e][s].age < Limit[e]
    BY <1>2, <1>6, Bounds DEF Idle
  <2> HIDE DEF new
  <2>4. at'[e][s] = new /\ at'[Peer(e)][s] = at[Peer(e)][s]
    BY <1>1, <2>1, <2>2, EnterShape
  <2>5. BeatsInTime(e, s)'
    BY <1>2, <2>1, <2>3, <2>4, Bounds DEF BeatsInTime
  <2>6. /\ wire' \in [Ends -> [Sockets -> Seq(Messages)]] /\ wire'[e][s] = wire[e][s]
        /\ \A x \in Ends, t \in Sockets : t # s => wire'[x][t] = wire[x][t]
    BY <1>1, <1>4, <2>2, SendShape
  <2>7. \A x : Has(wire'[Peer(e)][s], x) <=> Has(wire[Peer(e)][s], x) \/ x = "Ping"
    BY <1>1, <1>4, <2>2, SendShape, ZenonT(20)
  <2>8. UpgradeStarts(s)'
    <3>1. CASE e = "agent"
      <4>1. at'["server"][s] = at["server"][s] /\ Send("agent", s, <<"Ping">>)
        BY <2>2, <2>4, <3>1
      <4> QED
        BY <1>2, <1>4, <4>1, AgentSends
    <3>2. CASE e = "server"
      <4>1. Server(s) # "closed" /\ Send("server", s, <<"Ping">>)
        BY <1>3, <2>2, <3>2
      <4> QED
        BY <1>4, <4>1, ServerSends
    <3> QED
      BY <3>1, <3>2
  <2>9. /\ Agent(s)' = Agent(s) /\ Server(s)' = Server(s) /\ (Orphaned(s)' <=> Orphaned(s))
        /\ at'["server"][s].age = at["server"][s].age
    <3>1. /\ at'["agent"][s].stage = at["agent"][s].stage /\ at'["server"][s].stage = at["server"][s].stage
          /\ at'["server"][s].age = at["server"][s].age
      BY <1>2, <2>1, <2>4
    <3> QED
      BY <3>1 DEF Agent, Server, Orphaned
  <2>10. OrphanIsYoung(s)'
    <3>1. Orphaned(s) => ToServer(s)' = ToServer(s)
      BY <1>3, <2>6 DEF Orphaned, ToServer, Agent
    <3> QED
      BY <1>1, <1>2, <2>9, <3>1 DEF OrphanIsYoung
  <2>11. ASSUME faults = 0
         PROVE  AnswersCome(e, s)' /\ AnswersCome(Peer(e), s)'
    <3>1. AnswersCome(e, s) /\ AnswersCome(Peer(e), s)
      BY <1>1, <2>11 DEF Healthy
    <3>2. AnswersCome(e, s)'
      BY <1>2, <2>1, <2>4, <2>7, <3>1 DEF AnswersCome, Waits
    <3>3. AnswersCome(Peer(e), s)'
      BY <2>4, <2>6, <2>7, <3>1 DEF AnswersCome
    <3> QED
      BY <3>2, <3>3
  <2>12. /\ \A x : x \notin {"Ping", "Pong"} => (Has(ToServer(s)', x) <=> Has(ToServer(s), x))
         /\ \A x : x \notin {"Ping", "Pong"} => (Has(ToAgent(s)', x) <=> Has(ToAgent(s), x))
    BY <2>6, <2>7 DEF ToServer, ToAgent
  <2> QED
    BY <1>2, <2>1, <2>2, <2>5, <2>6, <2>8, <2>10, <2>11, <2>12, HeartbeatKeeps
<1> QED
  BY <1>5, <1>6 DEF Beat

LEMMA HearCloseKeeps ==
  ASSUME ConnectionInv, NEW e \in Ends, NEW s \in Sockets, HearClose(e, s)
  PROVE  ConnectionInv'
<1> USE TwoEnds
<1>1. /\ TypeOK /\ ClosesAreMeant(s) /\ SeatOfMember(s) /\ OneSeat(s)
      /\ OrphanIsYoung(s) /\ BeatsInTime("agent", s) /\ BeatsInTime("server", s) /\ Healthy(s)
      /\ Agent(s) # "waiting" /\ Server(s) \notin {"connecting", "joining"} /\ quits \in 0..MaxQuits
  BY InvOfSocket
<1>2. at[e][s].stage # "closed" /\ Answer(e, s, "Close", <<>>) /\ Enter(e, s, Closed("told"))
  BY DEF HearClose
<1>3. Closed("told") \in State /\ Closed("told").stage = "closed" /\ Closed("told").cause = "told"
  BY ClosedFields DEF Causes
<1>4. /\ at' \in [Ends -> [Sockets -> State]] /\ at'[e][s] = Closed("told")
      /\ at'[Peer(e)][s] = at[Peer(e)][s]
      /\ \A x \in Ends, t \in Sockets : t # s => at'[x][t] = at[x][t]
  BY <1>1, <1>2, <1>3, EnterShape
<1>5. <<>> \in Seq(Messages) /\ \A x : ~Has(<<>>, x)
  BY HasFew
<1>6. BeatsInTime("agent", s)' /\ BeatsInTime("server", s)'
  <2>1. BeatsInTime(e, s)' /\ BeatsInTime(Peer(e), s)'
    BY <1>1, <1>3, <1>4 DEF BeatsInTime
  <2> QED
    BY <2>1
<1>7. CASE e = "agent"
  <2>1. Answer("agent", s, "Close", <<>>)
    BY <1>2, <1>7
  <2>2. /\ Has(ToAgent(s), "Close") /\ wire' \in [Ends -> [Sockets -> Seq(Messages)]]
        /\ \A x \in Ends, t \in Sockets : t # s => wire'[x][t] = wire[x][t]
        /\ \A x : Has(ToAgent(s)', x) => Has(ToAgent(s), x)
        /\ ToServer(s)' = ToServer(s)
        /\ UNCHANGED <<up, faults, rested, orphan, quits>>
        /\ UpgradeStarts(s)' /\ ~Has(ToServer(s), "Upgrade")
    BY <1>5, <2>1, AgentAnswers
  <2>3. /\ Agent(s)' = "closed" /\ Server(s)' = "closed" /\ Server(s) = "closed" /\ Agent(s) # "closed"
        /\ at'["agent"][s] = Closed("told") /\ at'["server"][s] = at["server"][s]
    BY <1>1, <1>2, <1>3, <1>4, <1>7, <2>2 DEF Agent, Server, ClosesAreMeant
  <2>4. ClosesAreMeant(s)' /\ SeatOfMember(s)' /\ OneSeat(s)'
    BY <2>3 DEF ClosesAreMeant, SeatOfMember, OneSeat
  <2>5. OrphanIsYoung(s)'
    <3>1. ~Orphaned(s)'
      BY <2>3 DEF Orphaned, Server
    <3> QED
      BY <1>1, <2>2, <2>3, <3>1 DEF OrphanIsYoung
  <2>6. ASSUME faults = 0
        PROVE  /\ AnswersCome("agent", s)' /\ AnswersCome("server", s)'
               /\ HandshakeGoesOn(s)' /\ EndsAreTold(s)'
    <3>1. AnswersCome("server", s)
      BY <1>1, <2>6 DEF Healthy
    <3>2. HandshakeGoesOn(s)' /\ EndsAreTold(s)'
      BY <2>2, <2>3 DEF HandshakeGoesOn, EndsAreTold
    <3>3. AnswersCome("agent", s)'
      BY <1>3, <2>3 DEF AnswersCome, Waits
    <3>4. AnswersCome("server", s)'
      BY <2>3, <3>1 DEF AnswersCome, Waits, Server
    <3> QED
      BY <3>2, <3>3, <3>4
  <2> QED
    BY <1>1, <1>4, <1>6, <2>2, <2>3, <2>4, <2>5, <2>6, StepOfSocket
<1>8. CASE e = "server"
  <2>1. Answer("server", s, "Close", <<>>)
    BY <1>2, <1>8
  <2>2. /\ Has(ToServer(s), "Close") /\ wire' \in [Ends -> [Sockets -> Seq(Messages)]]
        /\ \A x \in Ends, t \in Sockets : t # s => wire'[x][t] = wire[x][t]
        /\ UNCHANGED <<up, faults, rested, orphan, quits>>
        /\ UpgradeStarts(s)' /\ ~Has(ToServer(s)', "Upgrade")
    BY <1>5, <2>1, ServerAnswers
  <2>3. /\ Agent(s)' = "closed" /\ Server(s)' = "closed" /\ Agent(s) = "closed"
        /\ at'["server"][s] = Closed("told") /\ at'["agent"][s] = at["agent"][s]
    BY <1>1, <1>3, <1>4, <1>8, <2>2 DEF Agent, Server, ClosesAreMeant
  <2>4. ClosesAreMeant(s)' /\ SeatOfMember(s)' /\ OneSeat(s)'
    BY <2>3 DEF ClosesAreMeant, SeatOfMember, OneSeat
  <2>5. OrphanIsYoung(s)'
    <3>1. ~Orphaned(s)'
      BY <2>3 DEF Orphaned, Server
    <3> QED
      BY <1>1, <2>2, <2>3, <3>1 DEF OrphanIsYoung
  <2>6. ASSUME faults = 0
        PROVE  /\ AnswersCome("agent", s)' /\ AnswersCome("server", s)'
               /\ HandshakeGoesOn(s)' /\ EndsAreTold(s)'
    <3>1. AnswersCome("agent", s)
      BY <1>1, <2>6 DEF Healthy
    <3>2. HandshakeGoesOn(s)' /\ EndsAreTold(s)'
      BY <2>2, <2>3 DEF HandshakeGoesOn, EndsAreTold
    <3>3. AnswersCome("server", s)'
      BY <1>3, <2>3 DEF AnswersCome, Waits
    <3>4. AnswersCome("agent", s)'
      BY <2>3, <3>1 DEF AnswersCome, Waits, Agent
    <3> QED
      BY <3>2, <3>3, <3>4
  <2> QED
    BY <1>1, <1>4, <1>6, <2>2, <2>3, <2>4, <2>5, <2>6, StepOfSocket
<1> QED
  BY <1>7, <1>8

LEMMA ThrowAwayKeeps ==
  ASSUME ConnectionInv, NEW e \in Ends, NEW s \in Sockets, ThrowAway(e, s)
  PROVE  ConnectionInv'
<1> USE TwoEnds
<1>1. /\ TypeOK /\ ClosesAreMeant(s) /\ SeatOfMember(s) /\ OneSeat(s)
      /\ OrphanIsYoung(s) /\ BeatsInTime("agent", s) /\ BeatsInTime("server", s) /\ Healthy(s)
      /\ Agent(s) # "waiting" /\ Server(s) \notin {"connecting", "joining"} /\ quits \in 0..MaxQuits
  BY InvOfSocket
<1>2. PICK m \in Messages \ {"Upgrade"} : Answer(e, s, m, <<>>)
  BY DEF ThrowAway
<1>3. at[e][s].stage = "closed" /\ at' = at
  BY DEF ThrowAway
<1>4. /\ at' \in [Ends -> [Sockets -> State]]
      /\ \A x \in Ends, t \in Sockets : at'[x][t] = at[x][t]
      /\ Agent(s)' = Agent(s) /\ Server(s)' = Server(s) /\ (Orphaned(s)' <=> Orphaned(s))
      /\ OneSeat(s)'
  BY <1>1, <1>3 DEF TypeOK, State, Agent, Server, Orphaned, OneSeat
<1>5. <<>> \in Seq(Messages) /\ \A x : ~Has(<<>>, x)
  BY HasFew
<1>6. BeatsInTime("agent", s)' /\ BeatsInTime("server", s)'
  BY <1>1, <1>3 DEF BeatsInTime
<1>7. CASE e = "agent"
  <2>1. Answer("agent", s, m, <<>>) /\ Agent(s) = "closed"
    BY <1>2, <1>3, <1>7 DEF Agent
  <2>2. /\ wire' \in [Ends -> [Sockets -> Seq(Messages)]]
        /\ \A x \in Ends, t \in Sockets : t # s => wire'[x][t] = wire[x][t]
        /\ \A x : Has(ToAgent(s)', x) => Has(ToAgent(s), x)
        /\ ToServer(s)' = ToServer(s)
        /\ UNCHANGED <<up, faults, rested, orphan, quits>> /\ UpgradeStarts(s)'
    BY <1>5, <2>1, AgentAnswers
  <2>3. ClosesAreMeant(s)' /\ SeatOfMember(s)'
    BY <1>1, <1>4, <2>1, <2>2 DEF ClosesAreMeant, SeatOfMember
  <2>4. OrphanIsYoung(s)'
    BY <1>1, <1>3, <1>4, <2>2 DEF OrphanIsYoung
  <2>5. ASSUME faults = 0
        PROVE  /\ AnswersCome("agent", s)' /\ AnswersCome("server", s)'
               /\ HandshakeGoesOn(s)' /\ EndsAreTold(s)'
    <3>1. AnswersCome("agent", s) /\ AnswersCome("server", s) /\ EndsAreTold(s)
      BY <1>1, <2>5 DEF Healthy
    <3>2. Server(s) # "closed" => Has(ToServer(s), "Close")
      BY <2>1, <3>1 DEF EndsAreTold
    <3>3. HandshakeGoesOn(s)' /\ EndsAreTold(s)'
      BY <1>4, <2>1, <2>2, <3>1, <3>2 DEF HandshakeGoesOn, EndsAreTold
    <3>4. AnswersCome("agent", s)'
      BY <1>3, <2>1, <3>1 DEF AnswersCome, Agent
    <3>5. AnswersCome("server", s)'
      BY <1>3, <2>2, <3>1, <3>2 DEF AnswersCome, Server, ToServer
    <3> QED
      BY <3>3, <3>4, <3>5
  <2> QED
    BY <1>1, <1>4, <1>6, <2>2, <2>3, <2>4, <2>5, StepOfSocket
<1>8. CASE e = "server"
  <2>1. Answer("server", s, m, <<>>) /\ Server(s) = "closed" /\ m # "Upgrade"
    BY <1>2, <1>3, <1>8 DEF Server
  <2>2. /\ wire' \in [Ends -> [Sockets -> Seq(Messages)]]
        /\ \A x \in Ends, t \in Sockets : t # s => wire'[x][t] = wire[x][t]
        /\ \A x : Has(ToServer(s)', x) => Has(ToServer(s), x)
        /\ \A x : Has(ToAgent(s)', x) <=> Has(ToAgent(s), x)
        /\ UNCHANGED <<up, faults, rested, orphan, quits>> /\ UpgradeStarts(s)'
        /\ ~Has(ToServer(s), "Upgrade")
    BY <1>5, <2>1, ServerAnswers
  <2>3. ClosesAreMeant(s)' /\ SeatOfMember(s)'
    BY <1>1, <1>4, <2>1, <2>2 DEF ClosesAreMeant, SeatOfMember
  <2>4. OrphanIsYoung(s)'
    <3>1. ~Orphaned(s)
      BY <2>1 DEF Orphaned, Server
    <3> QED
      BY <1>1, <1>3, <1>4, <2>2, <3>1 DEF OrphanIsYoung
  <2>5. ASSUME faults = 0
        PROVE  /\ AnswersCome("agent", s)' /\ AnswersCome("server", s)'
               /\ HandshakeGoesOn(s)' /\ EndsAreTold(s)'
    <3>1. AnswersCome("agent", s) /\ AnswersCome("server", s) /\ EndsAreTold(s)
      BY <1>1, <2>5 DEF Healthy
    <3>2. Agent(s) # "closed" => Has(ToAgent(s)', "Close")
      BY <2>1, <2>2, <3>1 DEF EndsAreTold
    <3>3. HandshakeGoesOn(s)' /\ EndsAreTold(s)'
      BY <1>4, <2>1, <2>2, <3>2 DEF HandshakeGoesOn, EndsAreTold
    <3>4. AnswersCome("agent", s)'
      BY <1>3, <3>1, <3>2 DEF AnswersCome, Agent, ToAgent
    <3>5. AnswersCome("server", s)'
      BY <1>3, <2>1, <3>1 DEF AnswersCome, Server, Waits
    <3> QED
      BY <3>3, <3>4, <3>5
  <2> QED
    BY <1>1, <1>4, <1>6, <2>2, <2>3, <2>4, <2>5, StepOfSocket
<1> QED
  BY <1>7, <1>8

LEMMA CutKeeps ==
  ASSUME ConnectionInv, NEW ends \in SUBSET Ends, Cut(ends)
  PROVE  ConnectionInv'
<1> USE TwoEnds
<1>1. /\ TypeOK /\ faults \in 0..MaxFaults /\ faults' = faults + 1 /\ faults < MaxFaults
      /\ up' = [x \in Ends |-> up[x] /\ x \notin ends]
      /\ at' = at /\ wire' = wire /\ rested' = rested /\ orphan' = orphan /\ quits' = quits
  BY DEF Cut, ConnectionInv, TypeOK
<1>2. faults' \in 0..MaxFaults /\ faults' # 0
  BY <1>1, Bounds
<1>3. up' \in [Ends -> BOOLEAN]
  BY <1>1 DEF TypeOK
<1>4. up'["server"] => up["server"]
  BY <1>1
<1>5. TypeOK'
  BY <1>1, <1>2, <1>3 DEF TypeOK
<1>6. ASSUME NEW s \in Sockets
      PROVE  SocketInv(s)'
  <2>1. /\ UpgradeStarts(s) /\ ClosesAreMeant(s) /\ SeatOfMember(s) /\ OneSeat(s)
        /\ OrphanIsYoung(s) /\ \A e \in Ends : BeatsInTime(e, s)
    BY DEF ConnectionInv, SocketInv
  <2>2. UpgradeStarts(s)' /\ ClosesAreMeant(s)' /\ SeatOfMember(s)' /\ OneSeat(s)'
    BY <1>1, <2>1 DEF UpgradeStarts, ClosesAreMeant, SeatOfMember, OneSeat, Agent, Server, ToAgent,
                      ToServer
  <2>3. OrphanIsYoung(s)'
    BY <1>1, <1>4, <2>1 DEF OrphanIsYoung, Orphaned, Agent, Server, ToServer
  <2>4. \A e \in Ends : BeatsInTime(e, s)'
    BY <1>1, <2>1 DEF BeatsInTime
  <2> QED
    BY <1>2, <2>2, <2>3, <2>4 DEF SocketInv, Healthy
<1> QED
  BY <1>5, <1>6 DEF ConnectionInv

LEMMA HealKeeps ==
  ASSUME ConnectionInv, NEW e \in Ends, Heal(e)
  PROVE  ConnectionInv'
<1> USE TwoEnds
<1>1. /\ TypeOK /\ ~up[e] /\ up' = [up EXCEPT ![e] = TRUE] /\ orphan' = [s \in Sockets |-> 0]
      /\ at' = at /\ wire' = wire /\ rested' = rested /\ faults' = faults /\ quits' = quits
  BY DEF Heal, ConnectionInv
<1>2. up' \in [Ends -> BOOLEAN] /\ orphan' \in [Sockets -> Nat] /\ \A s \in Sockets : orphan'[s] = 0
  BY <1>1 DEF TypeOK
<1>3. TypeOK'
  BY <1>1, <1>2 DEF TypeOK
<1>4. ASSUME NEW s \in Sockets
      PROVE  SocketInv(s)'
  <2>1. /\ UpgradeStarts(s) /\ ClosesAreMeant(s) /\ SeatOfMember(s) /\ OneSeat(s)
        /\ Healthy(s) /\ \A x \in Ends : BeatsInTime(x, s)
    BY DEF ConnectionInv, SocketInv
  <2>2. UpgradeStarts(s)' /\ ClosesAreMeant(s)' /\ SeatOfMember(s)' /\ OneSeat(s)'
    BY <1>1, <1>2, <2>1 DEF UpgradeStarts, ClosesAreMeant, SeatOfMember, OneSeat, Agent, Server,
                            ToAgent, ToServer
  <2>3. OrphanIsYoung(s)'
    <3>1. at["server"][s].age \in Nat
      BY <1>1, StateOf
    <3> QED
      BY <1>1, <1>2, <3>1, Bounds DEF OrphanIsYoung
  <2>4. \A x \in Ends : BeatsInTime(x, s)'
    BY <1>1, <2>1 DEF BeatsInTime
  <2>5. faults' # 0
    BY <1>1, <2>1 DEF Healthy
  <2> QED
    BY <2>2, <2>3, <2>4, <2>5 DEF SocketInv, Healthy
<1> QED
  BY <1>3, <1>4 DEF ConnectionInv

LEMMA LosePowerKeeps ==
  ASSUME ConnectionInv, LosePower
  PROVE  ConnectionInv'
<1> USE TwoEnds
<1>1. /\ TypeOK /\ faults \in 0..MaxFaults /\ faults' = faults + 1 /\ faults < MaxFaults
      /\ at' = [at EXCEPT !["agent"] = [s \in Sockets |-> Closed("power")]]
      /\ wire' = [e \in Ends |-> [s \in Sockets |-> <<>>]]
      /\ up' = up /\ rested' = rested /\ orphan' = orphan /\ quits' = quits
  BY DEF LosePower, ConnectionInv, TypeOK
<1>2. faults' \in 0..MaxFaults /\ faults' # 0
  BY <1>1, Bounds
<1>3. Closed("power") \in State /\ Closed("power").stage = "closed"
  BY ClosedFields DEF Causes
<1>4. /\ at' \in [Ends -> [Sockets -> State]]
      /\ \A s \in Sockets : at'["agent"][s] = Closed("power") /\ at'["server"][s] = at["server"][s]
  <2>1. at \in [Ends -> [Sockets -> State]]
    BY <1>1 DEF TypeOK, State
  <2> QED
    BY <1>1, <1>3, <2>1
<1>5. wire' \in [Ends -> [Sockets -> Seq(Messages)]]
  BY <1>1, HasFew
<1>6. ASSUME NEW s \in Sockets
      PROVE  Agent(s)' = "closed" /\ Server(s)' = Server(s) /\ ToAgent(s)' = <<>> /\ ToServer(s)' = <<>>
  BY <1>1, <1>3, <1>4 DEF Agent, Server, ToAgent, ToServer
<1>7. ASSUME NEW s \in Sockets
      PROVE  /\ SocketInv(s)' /\ \A e \in Ends : BeatsInTime(e, s)'
             /\ Agent(s)' # "waiting" /\ Server(s)' \notin {"connecting", "joining"}
  <2>1. /\ OneSeat(s) /\ OrphanIsYoung(s) /\ BeatsInTime("server", s) /\ orphan[s] \in Nat
        /\ Server(s) \notin {"connecting", "joining"}
    BY InvOfSocket
  <2>2. UpgradeStarts(s)' /\ ClosesAreMeant(s)' /\ SeatOfMember(s)'
    BY <1>6, HasFew DEF UpgradeStarts, ClosesAreMeant, SeatOfMember
  <2>3. OneSeat(s)'
    BY <1>6, <2>1 DEF OneSeat
  <2>4. OrphanIsYoung(s)'
    <3>1. at'["server"][s].age = at["server"][s].age /\ at["server"][s].age \in Nat
      BY <1>1, <1>4, StateOf
    <3>2. Agent(s) # "closed" => orphan[s] = 0
      BY <2>1 DEF OrphanIsYoung
    <3>3. Orphaned(s)' /\ Agent(s) = "closed" => Orphaned(s)
      BY <1>4 DEF Orphaned, Agent
    <3> QED
      BY <1>1, <1>6, <2>1, <3>1, <3>2, <3>3 DEF OrphanIsYoung
  <2>5. \A e \in Ends : BeatsInTime(e, s)'
    BY <1>3, <1>4, <2>1 DEF BeatsInTime
  <2> QED
    BY <1>1, <1>2, <1>6, <2>1, <2>2, <2>3, <2>4, <2>5 DEF SocketInv, Healthy
<1>8. up' \in [Ends -> BOOLEAN] /\ rested' \in BOOLEAN /\ orphan' \in [Sockets -> Nat]
      /\ quits' \in 0..MaxQuits
  BY <1>1 DEF TypeOK
<1>9. TypeOK'
  BY <1>2, <1>4, <1>5, <1>7, <1>8, TypeOfParts
<1> QED
  BY <1>7, <1>9 DEF ConnectionInv

(* What a unit of time does to an end. *)
LEMMA ElapsedFields ==
  ASSUME TypeOK, NEW e \in Ends, NEW s \in Sockets,
         at[e][s].stage = "member" => at[e][s].next > 0
  PROVE  /\ Elapsed(e, s) \in State /\ Elapsed(e, s).stage = at[e][s].stage
         /\ Elapsed(e, s).cause = at[e][s].cause
         /\ at[e][s].stage = "member" =>
              /\ Elapsed(e, s).next = at[e][s].next - 1
              /\ Elapsed(e, s).age = at[e][s].age + 1
<1> DEFINE state == at[e][s]
<1>1. /\ state \in State /\ state.age \in Nat /\ state.next \in Nat
      /\ state.stage = "member" => state.age < Limit[e] + Interval[e]
  BY StateOf DEF TypeOK
<1>2. Longest(e) \in Nat /\ Longest(e) >= Limit[e] + Interval[e]
  BY Bounds DEF Longest
<1>3. Elapsed(e, s) = IF state.stage = "closed" THEN state
        ELSE [state EXCEPT !.age = IF state.age < Longest(e) THEN state.age + 1 ELSE state.age,
                           !.next = IF state.stage = "member" THEN state.next - 1 ELSE state.next]
  BY DEF Elapsed
<1> HIDE DEF state
<1>4. CASE state.stage = "closed"
  BY <1>1, <1>3, <1>4 DEF state
<1>5. CASE state.stage = "member"
  <2>1. state.next > 0
    BY <1>5 DEF state
  <2>2. state.age + 1 \in Nat /\ state.next - 1 \in Nat
    BY <1>1, <2>1
  <2>3. state.age < Longest(e)
    BY <1>1, <1>2, <1>5, Bounds
  <2>4. Elapsed(e, s) = [state EXCEPT !.age = state.age + 1, !.next = state.next - 1]
    BY <1>3, <1>5, <2>3
  <2> QED
    BY <1>1, <2>2, <2>4 DEF State, state
<1>6. CASE state.stage \notin {"closed", "member"}
  <2> DEFINE age == IF state.age < Longest(e) THEN state.age + 1 ELSE state.age
  <2>1. age \in Nat
    BY <1>1
  <2>2. Elapsed(e, s) = [state EXCEPT !.age = age, !.next = state.next]
    BY <1>3, <1>6
  <2> HIDE DEF age
  <2> QED
    BY <1>1, <1>6, <2>1, <2>2 DEF State, state
<1> QED
  BY <1>4, <1>5, <1>6

LEMMA TickKeeps ==
  ASSUME ConnectionInv, Tick
  PROVE  ConnectionInv'
<1> USE TwoEnds
<1>1. TypeOK
  BY DEF ConnectionInv
<1>2. /\ at' = [e \in Ends |-> [s \in Sockets |-> Elapsed(e, s)]]
      /\ orphan' = [s \in Sockets |->
           IF ~Orphaned(s) THEN 0
           ELSE IF orphan[s] < Longest("server") THEN orphan[s] + 1 ELSE orphan[s]]
      /\ rested' = TRUE /\ wire' = wire /\ up' = up /\ faults' = faults /\ quits' = quits
  BY DEF Tick, networkVars
<1>3. \A e \in Ends, s \in Sockets :
        /\ up[e] => wire[e][s] = <<>>
        /\ at[e][s].stage = "member" => at[e][s].next > 0
  BY DEF Tick
<1>4. ASSUME NEW e \in Ends, NEW s \in Sockets
      PROVE  /\ at'[e][s] \in State /\ at'[e][s].stage = at[e][s].stage
             /\ at'[e][s].cause = at[e][s].cause
             /\ at[e][s].stage = "member" =>
                  at'[e][s].next = at[e][s].next - 1 /\ at'[e][s].age = at[e][s].age + 1
             /\ at[e][s].age \in Nat /\ at[e][s].next \in Nat
  BY <1>1, <1>2, <1>3, ElapsedFields, StateOf
<1>5. at' \in [Ends -> [Sockets -> State]]
  BY <1>2, <1>4
<1>6. ASSUME NEW s \in Sockets
      PROVE  /\ Agent(s)' = Agent(s) /\ Server(s)' = Server(s) /\ (Orphaned(s)' <=> Orphaned(s))
             /\ ToAgent(s)' = ToAgent(s) /\ ToServer(s)' = ToServer(s)
             /\ ~Orphaned(s) => orphan'[s] = 0
             /\ orphan'[s] \in Nat /\ orphan'[s] <= orphan[s] + 1 /\ orphan[s] \in Nat
  <2>1. orphan[s] \in Nat
    BY <1>1, StateOf
  <2>2. /\ Agent(s)' = Agent(s) /\ Server(s)' = Server(s) /\ (Orphaned(s)' <=> Orphaned(s))
        /\ ToAgent(s)' = ToAgent(s) /\ ToServer(s)' = ToServer(s)
    BY <1>2, <1>4 DEF Agent, Server, Orphaned, ToAgent, ToServer
  <2>3. /\ ~Orphaned(s) => orphan'[s] = 0
        /\ orphan'[s] \in Nat /\ orphan'[s] <= orphan[s] + 1
    BY <1>2, <2>1
  <2> QED
    BY <2>1, <2>2, <2>3
<1>7. ASSUME NEW e \in Ends, NEW s \in Sockets
      PROVE  BeatsInTime(e, s)'
  <2>1. BeatsInTime(e, s)
    BY InvOfSocket
  <2>2. /\ Interval[e] \in Nat /\ Limit[e] \in Nat
    BY Bounds
  <2>3. at[e][s].stage = "member" => at[e][s].next > 0
    BY <1>3
  <2>4. /\ at'[e][s].stage = at[e][s].stage
        /\ at[e][s].stage = "member" =>
             at'[e][s].next = at[e][s].next - 1 /\ at'[e][s].age = at[e][s].age + 1
        /\ at[e][s].age \in Nat /\ at[e][s].next \in Nat
    BY <1>4
  <2> QED
    BY <2>1, <2>2, <2>3, <2>4 DEF BeatsInTime
<1>8. ASSUME NEW s \in Sockets
      PROVE  SocketInv(s)'
  <2>1. /\ UpgradeStarts(s) /\ ClosesAreMeant(s) /\ SeatOfMember(s) /\ OneSeat(s)
        /\ OrphanIsYoung(s) /\ Healthy(s) /\ Server(s) \notin {"connecting", "joining"}
    BY InvOfSocket
  <2>2. UpgradeStarts(s)'
    <3>1. Server(s) = "closed" => ~Orphaned(s)
      BY DEF Server, Orphaned
    <3> QED
      BY <1>6, <2>1, <3>1 DEF UpgradeStarts
  <2>3. ClosesAreMeant(s)' /\ SeatOfMember(s)' /\ OneSeat(s)'
    BY <1>6, <2>1 DEF ClosesAreMeant, SeatOfMember, OneSeat
  <2>4. OrphanIsYoung(s)'
    <3>1. CASE ~Orphaned(s)
      BY <1>2, <1>6, <3>1, Bounds DEF OrphanIsYoung
    <3>2. CASE Orphaned(s)
      <4>1. /\ Server(s) = "member" /\ Agent(s) = "closed" /\ at["server"][s].stage = "member"
        BY <3>2 DEF Orphaned, Agent, Server
      <4>2. at'["server"][s].age = at["server"][s].age + 1 /\ at["server"][s].age \in Nat
            /\ at'["server"][s].stage = "member" /\ at'["server"][s].next \in Nat
        BY <1>4, <4>1 DEF State
      <4>3. orphan'[s] <= at'["server"][s].age
        BY <1>6, <2>1, <3>2, <4>2 DEF OrphanIsYoung
      <4>4. at'["server"][s].age + at'["server"][s].next < Limit["server"] + Interval["server"]
        BY <1>7, <4>2 DEF BeatsInTime
      <4>5. orphan'[s] < Limit["server"] + Interval["server"]
        BY <1>6, <4>2, <4>3, <4>4, Bounds
      <4>6. up'["server"] => ToServer(s)' = <<>>
        BY <1>2, <1>3 DEF ToServer
      <4> QED
        BY <1>6, <4>1, <4>3, <4>5, <4>6 DEF OrphanIsYoung
    <3> QED
      BY <3>1, <3>2
  <2>5. ASSUME faults = 0
        PROVE  /\ \A e \in Ends : up'[e] /\ AnswersCome(e, s)'
               /\ HandshakeGoesOn(s)' /\ EndsAreTold(s)'
    <3>1. /\ \A e \in Ends : up[e] /\ AnswersCome(e, s)
          /\ HandshakeGoesOn(s) /\ EndsAreTold(s)
      BY <2>1, <2>5 DEF Healthy
    <3>2. \A e \in Ends : \A x : ~Has(wire[e][s], x)
      BY <1>3, <3>1, HasFew
    <3>3. HandshakeGoesOn(s)' /\ EndsAreTold(s)'
      BY <1>6, <3>1 DEF HandshakeGoesOn, EndsAreTold
    <3>4. Agent(s) \notin {"connecting", "joining"} /\ Server(s) # "waiting" /\ Agent(s) # "waiting"
      BY <3>1, <3>2, InvOfSocket DEF HandshakeGoesOn, ToAgent, ToServer
    <3>5. ASSUME NEW e \in Ends
          PROVE  AnswersCome(e, s)'
      <4>1. at[e][s].stage \notin Waits
        BY <2>1, <3>4 DEF Waits, Agent, Server
      <4>2. at[e][s].stage = "member" =>
              at[e][s].age + at[e][s].next <= Interval[e] /\ at[e][s].next > 0
        BY <1>3, <3>1, <3>2 DEF AnswersCome
      <4>3. /\ at'[e][s].stage = at[e][s].stage /\ at'[e][s].cause = at[e][s].cause
            /\ at[e][s].stage = "member" =>
                 at'[e][s].next = at[e][s].next - 1 /\ at'[e][s].age = at[e][s].age + 1
            /\ at[e][s].age \in Nat /\ at[e][s].next \in Nat
        BY <1>4
      <4>4. at'[e][s].stage = "member" =>
              at'[e][s].age + at'[e][s].next <= Interval[e] /\ at'[e][s].age <= Interval[e]
        BY <4>2, <4>3, Bounds
      <4>5. at[e][s].cause \notin {"idle", "late"}
        BY <3>1 DEF AnswersCome
      <4> QED
        BY <4>1, <4>3, <4>4, <4>5 DEF AnswersCome
    <3> QED
      BY <1>2, <3>1, <3>3, <3>5
  <2>6. Healthy(s)'
    BY <1>2, <2>5 DEF Healthy
  <2> QED
    BY <1>7, <2>2, <2>3, <2>4, <2>6 DEF SocketInv
<1>9. ASSUME NEW s \in Sockets
      PROVE  Agent(s)' # "waiting" /\ Server(s)' \notin {"connecting", "joining"}
  BY <1>6, InvOfSocket
<1>10. /\ up' \in [Ends -> BOOLEAN] /\ rested' \in BOOLEAN /\ faults' \in 0..MaxFaults
       /\ quits' \in 0..MaxQuits /\ wire' \in [Ends -> [Sockets -> Seq(Messages)]]
  BY <1>1, <1>2 DEF TypeOK
<1>11. orphan' \in [Sockets -> Nat]
  BY <1>2, <1>6
<1>12. TypeOK'
  BY <1>5, <1>7, <1>9, <1>10, <1>11, TypeOfParts
<1> QED
  BY <1>8, <1>12 DEF ConnectionInv

LEMMA ConnectionInit ==
  ASSUME Init
  PROVE  ConnectionInv
<1> USE TwoEnds
<1>1. /\ at = [e \in Ends |-> [s \in Sockets |-> Closed("none")]]
      /\ wire = [e \in Ends |-> [s \in Sockets |-> <<>>]]
      /\ up = [e \in Ends |-> TRUE]
      /\ rested = TRUE /\ orphan = [s \in Sockets |-> 0]
      /\ faults = 0 /\ quits = 0
  BY DEF Init
<1>2. Closed("none") \in State /\ Closed("none").stage = "closed" /\ Closed("none").cause = "none"
  BY ClosedFields DEF Causes
<1>3. TypeOK
  <2>1. at \in [Ends -> [Sockets -> [stage: Stages, age: Nat, next: Nat, cause: Causes]]]
    BY <1>1, <1>2 DEF State
  <2>2. \A e \in Ends, s \in Sockets : at[e][s].stage = "closed"
    BY <1>1, <1>2
  <2>3. wire \in [Ends -> [Sockets -> Seq(Messages)]]
    BY <1>1, HasFew
  <2>4. /\ up \in [Ends -> BOOLEAN] /\ rested \in BOOLEAN
        /\ orphan \in [Sockets -> Nat] /\ faults \in 0..MaxFaults /\ quits \in 0..MaxQuits
    BY <1>1, Bounds
  <2> QED
    BY <2>1, <2>2, <2>3, <2>4 DEF TypeOK
<1>4. ASSUME NEW s \in Sockets
      PROVE  SocketInv(s)
  <2>1. /\ Agent(s) = "closed" /\ Server(s) = "closed" /\ ToAgent(s) = <<>> /\ ToServer(s) = <<>>
        /\ orphan[s] = 0 /\ ~Orphaned(s)
        /\ \A e \in Ends : at[e][s].stage = "closed" /\ at[e][s].cause = "none" /\ up[e]
    BY <1>1, <1>2 DEF Agent, Server, ToAgent, ToServer, Orphaned
  <2>2. UpgradeStarts(s) /\ ClosesAreMeant(s) /\ SeatOfMember(s) /\ OneSeat(s)
    BY <2>1, HasFew DEF UpgradeStarts, ClosesAreMeant, SeatOfMember, OneSeat
  <2>3. OrphanIsYoung(s)
    BY <2>1, Bounds DEF OrphanIsYoung
  <2>4. \A e \in Ends : BeatsInTime(e, s) /\ AnswersCome(e, s)
    BY <2>1 DEF BeatsInTime, AnswersCome, Waits
  <2>5. HandshakeGoesOn(s) /\ EndsAreTold(s)
    BY <2>1, HasFew DEF HandshakeGoesOn, EndsAreTold
  <2> QED
    BY <2>1, <2>2, <2>3, <2>4, <2>5 DEF SocketInv, Healthy
<1> QED
  BY <1>3, <1>4 DEF ConnectionInv

LEMMA StutterKeeps ==
  ASSUME ConnectionInv, UNCHANGED vars
  PROVE  ConnectionInv'
<1>1. /\ at' = at /\ wire' = wire /\ up' = up /\ faults' = faults /\ rested' = rested
      /\ orphan' = orphan /\ quits' = quits
  BY DEF vars, networkVars
<1>2. TypeOK'
  BY <1>1 DEF ConnectionInv, TypeOK
<1>3. \A s \in Sockets : SocketInv(s)'
  BY <1>1 DEF ConnectionInv, SocketInv, UpgradeStarts, ClosesAreMeant, SeatOfMember, OneSeat,
              OrphanIsYoung, BeatsInTime, Healthy, AnswersCome, HandshakeGoesOn, EndsAreTold,
              Agent, Server, ToAgent, ToServer, Orphaned, Has
<1> QED
  BY <1>2, <1>3 DEF ConnectionInv

LEMMA ConnectionStep ==
  ASSUME ConnectionInv, [Next]_vars
  PROVE  ConnectionInv'
<1>1. ASSUME NEW s \in Sockets, NEW e \in Ends, Runs(e, s)
      PROVE  ConnectionInv'
  BY <1>1, GiveUpKeeps, HearKeeps, BeatKeeps, HearCloseKeeps, ThrowAwayKeeps DEF Runs
<1>2. ASSUME NEW s \in Sockets, Handshake(s)
      PROVE  ConnectionInv'
  BY <1>2, AcceptKeeps, SendJoinKeeps, JoinRoomKeeps, JoinedKeeps DEF Handshake
<1>3. ASSUME NEW s \in Sockets, Connect(s) \/ Quit(s)
      PROVE  ConnectionInv'
  BY <1>3, ConnectKeeps, QuitKeeps
<1>4. ASSUME NEW ends \in SUBSET Ends, Cut(ends)
      PROVE  ConnectionInv'
  BY <1>4, CutKeeps
<1>5. ASSUME NEW e \in Ends, Heal(e)
      PROVE  ConnectionInv'
  BY <1>5, HealKeeps
<1>6. CASE LosePower
  BY <1>6, LosePowerKeeps
<1>7. CASE Tick
  BY <1>7, TickKeeps
<1>8. CASE UNCHANGED vars
  BY <1>8, StutterKeeps
<1> QED
  BY <1>1, <1>2, <1>3, <1>4, <1>5, <1>6, <1>7, <1>8 DEF Next

----------------------------------------------------------------------------
(* The invariant that the theorems rest on: what is on the wire of every   *)
(* socket explains what each end believes of the other, and every age      *)
(* stays below its limit and one interval.                                 *)
THEOREM ConnectionCorrect == Spec => []ConnectionInv
<1>1. Init => ConnectionInv
  BY ConnectionInit
<1>2. ConnectionInv /\ [Next]_vars => ConnectionInv'
  BY ConnectionStep
<1> QED
  BY <1>1, <1>2, PTL DEF Spec

(* As long as the network is whole, no watchdog (next_event,               *)
(* run_connected_lobby_socket) and no timeout of the handshake closes a    *)
(* session, when each end asks more often than it may be left unanswered.  *)
THEOREM HealthyStaysAlways == Spec => []HealthyStays
<1>1. ConnectionInv => HealthyStays
  BY DEF ConnectionInv, SocketInv, Healthy, AnswersCome, HealthyStays
<1> QED
  BY <1>1, ConnectionCorrect, PTL

(* A member of the lobby has a seat or is about to be told that it lost    *)
(* it, and one player never has two, whatever is cut, lost or delayed.     *)
THEOREM MembersHaveSeatsAlways == Spec => []MembersHaveSeats
<1>1. ConnectionInv => MembersHaveSeats
  <2> SUFFICES ASSUME ConnectionInv, NEW s \in Sockets
               PROVE  /\ at["agent"][s].stage = "member" =>
                           \/ at["server"][s].stage = "member"
                           \/ \E i \in 1..Len(wire["agent"][s]) : wire["agent"][s][i] = "Close"
                      /\ \A t \in Sockets :
                           at["server"][s].stage = "member" /\ at["server"][t].stage = "member" => s = t
    BY DEF MembersHaveSeats
  <2>1. SeatOfMember(s) /\ OneSeat(s) /\ TypeOK
    BY InvOfSocket
  <2>2. DOMAIN wire["agent"][s] = 1..Len(wire["agent"][s])
    BY <2>1, TwoEnds, StateOf
  <2> QED
    BY <2>1, <2>2 DEF SeatOfMember, OneSeat, Agent, Server, ToAgent, Has
<1> QED
  BY <1>1, ConnectionCorrect, PTL

(* The watchdog of the server frees a seat whose agent is gone no later    *)
(* than the idle limit and one interval after the network last came back.  *)
THEOREM SeatsAreFreedAlways == Spec => []SeatsAreFreed
<1>1. ConnectionInv => SeatsAreFreed
  BY DEF ConnectionInv, SocketInv, OrphanIsYoung, SeatsAreFreed
<1> QED
  BY <1>1, ConnectionCorrect, PTL
=============================================================================
