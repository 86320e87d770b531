---------------------------- MODULE FramesProofs ----------------------------
(* What is said in a room and done in its game, and what Warcraft is told  *)
(* of it, for all limits that fit each other: what is said reaches the     *)
(* others as it was said and nobody else pays for it (first part, about    *)
(* Relay), the search for a desync is just (second, ChecksumRounds), no    *)
(* frame misleads a Warcraft about the other players (third, AgentRoster), *)
(* and the frames of a tick are the fewest that hold its actions, from     *)
(* which an agent reads exactly these (fourth, ActionFrames).              *)
(*                                                                         *)
(* The first argument goes hop by hop: what an agent forwards, the room    *)
(* takes; what the room publishes, the socket tasks can send, the agents   *)
(* take and Warcraft's frames can hold.  A player who left says nothing    *)
(* any more, so the reason in an update that is still on its way stays     *)
(* true.                                                                   *)
(*                                                                         *)
(* In the third, the agent's roster, those on their way to it and those    *)
(* not yet sent are all rosters that the room had, one for each revision.  *)
(* Unless updates were lost, the latest is among them, a leave comes after *)
(* the roster that it leaves, and whoever is known when a frame of the     *)
(* game comes has loaded or was taken away in front of it; and an agent    *)
(* that lost updates follows nothing until it has the room's roster again. *)
(* Warcraft is kept at what the agent knows.                               *)
(*                                                                         *)
(* The fourth needs induction over sequences.  There is no citing of a     *)
(* principle of induction for predicates, since it takes an operator; but  *)
(* well-foundedness of < on the numbers is a fact about sets, so induction *)
(* over the numbers of a set (Induction) follows from it, and that what is *)
(* defined by recursion exists, where a step is a function (Recursion).    *)
(* Then a sum is proved equal to a difference of sums up to two ends, the  *)
(* decoder, a record at a time, to be at the ends of the records, and the  *)
(* ends of the groups to be at or after those of every other way to cut    *)
(* the queue.                                                              *)
EXTENDS ActionFrames, Relay, ChecksumRounds, AgentRoster, SequenceTheorems,
        WellFoundedInduction, FiniteSetTheorems, TLAPS

----------------------------------------------------------------------------
(* Induction, over the numbers in a set. *)

LEMMA LeastMissing ==
  ASSUME NEW S, Nat \ S # {}
  PROVE  \E n \in Nat \ S : \A m \in Nat : m < n => m \in S
<1> DEFINE Less == OpToRel(<, Nat)
<1>1. \A m, n \in Nat : m < n => <<m, n>> \in Less
  BY Zenon DEF OpToRel
<1>2. IsWellFoundedOn(Less, Nat)
  BY NatLessThanWellFounded
<1> HIDE DEF Less
<1>3. PICK n \in Nat \ S : \A m \in Nat \ S : ~(<<m, n>> \in Less)
  BY <1>2, WFMin
<1> QED
  BY <1>1, <1>3

LEMMA Induction ==
  ASSUME NEW S, 0 \in S, \A n \in Nat : n \in S => n + 1 \in S
  PROVE  Nat \subseteq S
<1> SUFFICES ASSUME Nat \ S # {} PROVE FALSE
  OBVIOUS
<1>1. PICK n \in Nat \ S : \A m \in Nat : m < n => m \in S
  BY LeastMissing
<1>2. n - 1 \in Nat /\ n - 1 < n /\ (n - 1) + 1 = n
  BY <1>1
<1> QED
  BY <1>1, <1>2

(* What a function that is defined by recursion on the numbers up to n     *)
(* does, if each of its values is got from the one before by `step'.       *)
Recurses(f, n, base, step) ==
  f[0] = base /\ \A i \in 1..n : f[i] = step[<<i, f[i - 1]>>]

LEMMA Recursion ==
  ASSUME NEW V, NEW base \in V, NEW n \in Nat, NEW step \in [(1..n) \X V -> V]
  PROVE  \E f \in [0..n -> V] : Recurses(f, n, base, step)
<1> DEFINE S == {m \in Nat : m <= n => \E f \in [0..m -> V] : Recurses(f, m, base, step)}
<1>1. 0 \in S
  <2>1. [i \in 0..0 |-> base] \in [0..0 -> V]
    OBVIOUS
  <2>2. Recurses([i \in 0..0 |-> base], 0, base, step)
    BY DEF Recurses
  <2> QED
    BY <2>1, <2>2
<1>2. ASSUME NEW m \in Nat, m \in S PROVE m + 1 \in S
  <2> SUFFICES ASSUME m + 1 <= n
               PROVE \E f \in [0..(m + 1) -> V] : Recurses(f, m + 1, base, step)
    OBVIOUS
  <2>1. m <= n /\ m + 1 \in 1..n
    OBVIOUS
  <2>2. PICK f \in [0..m -> V] : Recurses(f, m, base, step)
    BY <1>2, <2>1
  <2> DEFINE g == [i \in 0..(m + 1) |-> IF i = m + 1 THEN step[<<m + 1, f[m]>>] ELSE f[i]]
  <2>3. f[m] \in V /\ <<m + 1, f[m]>> \in (1..n) \X V
    BY <2>1
  <2>4. step[<<m + 1, f[m]>>] \in V
    BY <2>3
  <2>5. g \in [0..(m + 1) -> V]
    BY <2>4
  <2>6. g[m + 1] = step[<<m + 1, f[m]>>] /\ (\A i \in 0..m : g[i] = f[i])
    OBVIOUS
  <2>7. \A i \in 1..(m + 1) : i = m + 1 \/ (i \in 1..m /\ i \in 0..m /\ i - 1 \in 0..m)
    OBVIOUS
  <2>8. 0 \in 0..m /\ m \in 0..m /\ (m + 1) - 1 = m
    OBVIOUS
  <2> HIDE DEF g
  <2>9. Recurses(g, m + 1, base, step)
    BY <2>2, <2>6, <2>7, <2>8 DEF Recurses
  <2> QED
    BY <2>5, <2>9
<1> HIDE DEF S
<1>3. Nat \subseteq S
  BY <1>1, <1>2, Induction
<1>4. n \in S
  BY <1>3
<1> QED
  BY <1>4 DEF S

----------------------------------------------------------------------------
(* What is on its way between the Warcrafts: the inductive invariant. *)

Seats == {"away", "joining", "in", "gone"}

Message ==
  [type : {"Join"}, text : Texts, version : Versions]
    \cup [type : {"Chat"}, text : Texts] \cup [type : {"Action"}, bytes : Actions]
    \cup [type : {"Loaded", "KeepAlive"}] \cup [type : {"Leave"}, reason : Reasons, code : Codes]

Update ==
  [type : {"Joined"}, by : Players, names : Names, version : {Version}]
    \cup [type : {"Roster"}, by : Players, names : Names]
    \cup [type : {"Roster", "Left"}, by : Players, names : Names, reason : Reasons]
    \cup [type : {"Chat"}, by : Players, text : Texts]
    \cup [type : {"Notice"}, by : Players, bytes : {MaxNotice}]
    \cup [type : {"Action"}, by : Players, bytes : Actions]
    \cup [type : {"Rejected", "Loaded"}, by : Players] \cup [type : {"Start"}]

Left(p) == \E m \in forwarded[p] : m.type = "Leave"

(* What an agent lets pass. *)
Passed(m) ==
  /\ m.type = "Join" => ValidName(m.text)
  /\ m.type = "Chat" => ValidChat(m.text)
  /\ m.type = "Action" => ReadsAction(m.bytes)
  /\ m.type = "Leave" => m.code = W3gsCode(m.reason)

(* Names that their players gave. *)
Known(names) ==
  \A q \in Players : names[q] # NoText =>
    /\ ValidName(names[q])
    /\ \E m \in forwarded[q] : m.type = "Join" /\ m.text = names[q]

(* What the room has for p: true, and fit for all the hops on its way.     *)
Sound(p, u) ==
  /\ u.type = "Rejected" => u.by = p
  /\ u.type \in {"Joined", "Roster", "Left"} => Known(u.names) /\ u.names[p] # NoText
  /\ u.type = "Joined" =>
       [type |-> "Join", text |-> u.names[p], version |-> u.version] \in forwarded[p]
  /\ u.type = "Left" =>
       /\ u.by # p /\ u.names[u.by] = NoText /\ seat[u.by] = "gone"
       /\ IF Left(u.by)
            THEN \E m \in forwarded[u.by] : m.type = "Leave" /\ m.code = W3gsCode(u.reason)
            ELSE u.reason = "disconnect"
  /\ u.type = "Chat" =>
       ValidChat(u.text) /\ [type |-> "Chat", text |-> u.text] \in forwarded[u.by]
  /\ u.type = "Action" =>
       ReadsAction(u.bytes) /\ [type |-> "Action", bytes |-> u.bytes] \in forwarded[u.by]

(* What a Warcraft was told stays true. *)
Stays(w) ==
  /\ Said(w)
  /\ w.type \in {"Chat", "Action", "Left"} => w.by \in Players
  /\ w.type = "Left" => seat[w.by] = "gone"

Typed ==
  /\ seat \in [Players -> Seats] /\ room \in Names
  /\ inbox \in [Players -> Seq(Message)] /\ outbox \in [Players -> Seq(Update)]
  /\ forwarded \in [Players -> SUBSET Message] /\ DOMAIN told = Players
  /\ blamed \in [Players -> SUBSET Players]

ForwardedPassed ==
  \A p \in Players : \A m \in forwarded[p] :
    Passed(m) /\ (m.type = "Leave" => seat[p] = "gone")

InboxesForwarded ==
  \A p \in Players :
    /\ seat[p] = "away" => inbox[p] = <<>> /\ p \notin Members
    /\ \A i \in 1..Len(inbox[p]) :
         /\ inbox[p][i] \in forwarded[p]
         /\ inbox[p][i].type = "Join" => i = 1 /\ p \notin Members

(* Who gave a reason to leave is not cleaned away before it is read.       *)
ReasonsPending ==
  \A p \in Players :
    Left(p) /\ (p \in Members \/ \E i \in 1..Len(inbox[p]) : inbox[p][i].type = "Join") =>
      inbox[p] # <<>> /\ inbox[p][Len(inbox[p])].type = "Leave"

MembersGave ==
  \A p \in Members :
    /\ ValidName(room[p])
    /\ [type |-> "Join", text |-> room[p], version |-> Version] \in forwarded[p]

OutboxesSound == \A p \in Players : \A i \in 1..Len(outbox[p]) : Sound(p, outbox[p][i])

ToldStays == \A p \in Players : \A w \in told[p] : Stays(w)

Agents == ForwardedPassed /\ InboxesForwarded /\ ReasonsPending

Invariant ==
  Typed /\ Agents /\ MembersGave /\ OutboxesSound /\ ToldStays /\ OnlyTheSenderPays

----------------------------------------------------------------------------
(* The limits. *)

(* The names of all players of a room fit a roster. *)
LEMMA RosterFits ==
  ASSUME RelayAssumption, NEW names \in Names, ValidRoster(names)
  PROVE  ControlFits(JsonRoster(names))
<1> DEFINE c == Cardinality(Players)
           most == SeatBytes + 2 * MaxName
           cost == [n \in 1..c |->
                       IF names[n] # NoText THEN SeatBytes + JsonText(names[n]) ELSE 0]
           step == [q \in (1..c) \X Nat |-> q[2] + cost[q[1]]]
           Is(f) == f = [n \in 0..c |->
                           IF n = 0 THEN 0
                           ELSE f[n - 1] + (IF names[n] # NoText
                                              THEN SeatBytes + JsonText(names[n]) ELSE 0)]
<1>1. c \in Nat /\ Players = 1..c /\ most \in Nat
  <2>1. IsFiniteSet(Players) /\ Players = 1..c /\ MaxName \in Nat
    BY DEF RelayAssumption
  <2>2. c \in Nat
    BY <2>1, FS_CardinalityType
  <2> HIDE DEF c
  <2> QED
    BY <2>1, <2>2 DEF SeatBytes
<1>2. cost \in [1..c -> Nat] /\ \A n \in 1..c : cost[n] <= most
  <2>1. ASSUME NEW n \in 1..c, names[n] # NoText
        PROVE  /\ SeatBytes + JsonText(names[n]) \in Nat
               /\ SeatBytes + JsonText(names[n]) <= most
    <3>1. names[n] \in Texts /\ ValidName(names[n])
      BY <1>1, <2>1 DEF Names, ValidRoster
    <3>2. /\ names[n] \in Text /\ names[n].escaped <= names[n].bytes /\ MaxName \in Nat
      BY <3>1 DEF RelayAssumption
    <3>3. names[n].bytes \in Nat /\ names[n].escaped \in Nat
      BY <3>2 DEF Text
    <3>4. names[n].bytes <= MaxName
      BY <3>1, <3>2, <3>3 DEF ValidName
    <3> QED
      BY <3>2, <3>3, <3>4 DEF SeatBytes, JsonText
  <2> HIDE DEF most, c
  <2> QED
    BY <1>1, <2>1
<1>3. step \in [(1..c) \X Nat -> Nat] /\ \A i \in 1..c, v \in Nat : step[<<i, v>>] = v + cost[i]
  <2> HIDE DEF cost, c
  <2> QED
    BY <1>2
<1>4. JsonRoster(names) = (CHOOSE f : Is(f))[c]
  BY DEF JsonRoster
<1>c. c = Cardinality(Players) /\ most = SeatBytes + 2 * MaxName
  OBVIOUS
<1>b. \A n \in 1..c : cost[n] = IF names[n] # NoText THEN SeatBytes + JsonText(names[n]) ELSE 0
  OBVIOUS
<1> HIDE DEF c, most, cost, step
<1>5. PICK f \in [0..c -> Nat] : Recurses(f, c, 0, step)
  BY <1>1, <1>3, Recursion
<1>6. \A n \in 1..c : n \in 0..c /\ n # 0 /\ n - 1 \in 0..c
  BY <1>1
<1>7. f[0] = 0 /\ \A n \in 1..c : f[n] = f[n - 1] + cost[n]
  BY <1>3, <1>5, <1>6 DEF Recurses
<1>8. Is(f)
  <2>1. \A n \in 0..c :
          f[n] = IF n = 0 THEN 0
                 ELSE f[n - 1] + (IF names[n] # NoText
                                    THEN SeatBytes + JsonText(names[n]) ELSE 0)
    BY <1>1, <1>7, <1>b
  <2> QED
    BY <1>5, <2>1
<1> DEFINE g == CHOOSE h : Is(h)
<1>9. Is(g)
  BY <1>8
<1>10. 0 \in 0..c
  BY <1>1
<1>11. g[0] = 0 /\ \A n \in 1..c : g[n] = g[n - 1] + cost[n]
  <2> HIDE DEF g
  <2>1. \A n \in 0..c :
          g[n] = IF n = 0 THEN 0
                 ELSE g[n - 1] + (IF names[n] # NoText
                                    THEN SeatBytes + JsonText(names[n]) ELSE 0)
    BY <1>9
  <2>2. g[0] = 0
    BY <1>10, <2>1
  <2>3. ASSUME NEW n \in 1..c PROVE g[n] = g[n - 1] + cost[n]
    BY <1>6, <1>b, <2>1
  <2> QED
    BY <2>2, <2>3
<1> DEFINE S == {m \in Nat : m <= c => g[m] \in Nat /\ g[m] <= m * most}
<1> HIDE DEF g, Is
<1>12. 0 \in S
  BY <1>1, <1>11
<1>13. ASSUME NEW m \in Nat, m \in S PROVE m + 1 \in S
  <2> SUFFICES ASSUME m + 1 <= c PROVE g[m + 1] \in Nat /\ g[m + 1] <= (m + 1) * most
    OBVIOUS
  <2>1. m + 1 \in 1..c /\ (m + 1) - 1 = m /\ g[m] \in Nat /\ g[m] <= m * most
    BY <1>1, <1>13
  <2>2. g[m + 1] = g[m] + cost[m + 1] /\ cost[m + 1] \in Nat /\ cost[m + 1] <= most
    BY <1>2, <1>11, <2>1
  <2> DEFINE low == m * most
             high == (m + 1) * most
  <2>3. high = low + most /\ low \in Nat
    BY <1>1
  <2>4. g[m] <= low
    BY <2>1
  <2> HIDE DEF low, high
  <2>5. g[m + 1] \in Nat /\ g[m + 1] <= high
    BY <1>1, <2>1, <2>2, <2>3, <2>4
  <2> QED
    BY <2>5 DEF high
<1> HIDE DEF S
<1>14. Nat \subseteq S
  BY <1>12, <1>13, Induction
<1>15. g[c] \in Nat /\ g[c] <= c * most
  BY <1>1, <1>14 DEF S
<1>16. ControlFits(c * most) /\ MaxControl \in Nat
  BY <1>c DEF RelayAssumption
<1>17. c * most \in Nat
  BY <1>1
<1>18. ControlFits(g[c])
  BY <1>15, <1>16, <1>17 DEF ControlFits, Envelope
<1> QED
  BY <1>4, <1>18 DEF g

LEMMA NamesFit ==
  ASSUME RelayAssumption, NEW p \in Players, NEW names \in Names,
         ValidRoster(names), names[p] # NoText
  PROVE  RosterReaches(p, names)
<1>1. ControlFits(JsonRoster(names))
  BY RosterFits
<1>2. ASSUME NEW q \in Players, names[q] # NoText
      PROVE  ShowsName(names[q])
  <2>1. ValidName(names[q]) /\ names[q] \in Texts
    BY <1>2 DEF ValidRoster, Names
  <2>2. names[q].bytes \in Nat /\ MaxName \in Nat /\ MaxClassicName \in Nat /\ MaxTag \in Nat
    BY <2>1 DEF RelayAssumption, Text
  <2>3. MaxName <= MaxClassicName /\ MaxName <= MaxTag
    BY DEF RelayAssumption
  <2> QED
    BY <2>1, <2>2, <2>3 DEF ValidName, ShowsName
<1> QED
  BY <1>1, <1>2 DEF RosterReaches

LEMMA ChatFits ==
  ASSUME RelayAssumption, NEW t \in Texts, ValidChat(t)
  PROVE  ControlFits(JsonText(t)) /\ ShowsChat(t)
<1>1. /\ t.bytes \in Nat /\ t.escaped \in Nat /\ t.escaped <= t.bytes
      /\ MaxChat \in Nat /\ MaxHostChat \in Nat /\ MaxControl \in Nat
  BY DEF RelayAssumption, Text
<1>2. MaxChat <= MaxHostChat /\ ControlFits(2 * MaxChat)
  BY DEF RelayAssumption
<1> QED
  BY <1>1, <1>2 DEF ValidChat, ShowsChat, ControlFits, JsonText, Envelope

LEMMA ActionFits ==
  ASSUME RelayAssumption, NEW n \in Actions, ReadsAction(n)
  PROVE  /\ IncomingBytes(n) <= MaxIncoming
         /\ TunnelFits(IncomingBytes(n)) /\ TunnelFits(OutgoingBytes(n))
<1>1. n \in Nat /\ MaxData \in Nat /\ MaxIncoming \in Nat /\ MaxTunnel \in Nat
  BY DEF RelayAssumption
<1>2. MaxData + 11 <= MaxIncoming /\ MaxIncoming <= MaxTunnel
  BY DEF RelayAssumption
<1> QED
  BY <1>1, <1>2 DEF ReadsAction, IncomingBytes, OutgoingBytes, TunnelFits

LEMMA CodesRoundTrip ==
  ASSUME NEW code \in Nat, ReasonOf(code) \in Reasons
  PROVE  W3gsCode(ReasonOf(code)) = code
BY DEF ReasonOf, W3gsCode, Reasons

(* The room takes what an agent passes on. *)
LEMMA RoomTakes ==
  ASSUME RelayAssumption, NEW m \in Message, Passed(m), m.type # "Join"
  PROVE  ServerTakes(m)
<1>1. CASE m.type = "Chat"
  <2>1. m.text \in Texts
    BY <1>1 DEF Message
  <2> QED
    BY <1>1, <2>1, ChatFits DEF ServerTakes, Passed
<1>2. CASE m.type = "Action"
  <2>1. m.bytes \in Actions
    BY <1>2 DEF Message
  <2> QED
    BY <1>2, <2>1, ActionFits DEF ServerTakes, Passed
<1> QED
  BY <1>1, <1>2 DEF ServerTakes

(* What the room has for p reaches the Warcraft of p, and is true.         *)
LEMMA SoundReaches ==
  ASSUME RelayAssumption, Typed, NEW p \in Players, NEW u \in Update, Sound(p, u),
         NEW w, w = Frame(u)
  PROVE  (Reaches(p, u) \/ (u.type = "Rejected" /\ u.by = p)) /\ Stays(w)
<1>1. CASE u.type \in {"Joined", "Roster", "Left"}
  <2>1. u.names \in Names /\ u.by \in Players /\ Known(u.names) /\ u.names[p] # NoText
    BY <1>1 DEF Update, Sound
  <2>2. ValidRoster(u.names)
    BY <2>1 DEF Known, ValidRoster
  <2>3. RosterReaches(p, u.names)
    BY <2>1, <2>2, NamesFit
  <2>4. CASE u.type = "Left"
    <3>1. Reaches(p, u)
      BY <2>3, <2>4 DEF Reaches, Sound
    <3>2. w = [type |-> "Left", by |-> u.by, code |-> W3gsCode(u.reason)]
      BY <2>4 DEF Frame
    <3>3. w.type = "Left" /\ w.by = u.by /\ w.code = W3gsCode(u.reason)
      BY <3>2
    <3>4. Said(w)
      BY <3>3, <2>4 DEF Said, Sound, Left
    <3>5. seat[w.by] = "gone" /\ w.by \in Players
      BY <3>3, <2>1, <2>4 DEF Sound
    <3> QED
      BY <3>1, <3>4, <3>5 DEF Stays
  <2>5. CASE u.type # "Left"
    <3>1. Reaches(p, u)
      BY <1>1, <2>3, <2>5 DEF Reaches, Sound
    <3>2. w = u
      BY <2>5 DEF Frame
    <3>3. Said(w)
      BY <1>1, <2>1, <2>5, <3>2 DEF Said, Known
    <3> QED
      BY <3>1, <3>2, <3>3, <1>1, <2>5 DEF Stays
  <2> QED
    BY <2>4, <2>5
<1>2. CASE u.type = "Chat"
  <2>1. u.text \in Texts /\ u.by \in Players
    BY <1>2 DEF Update
  <2>2. Reaches(p, u)
    BY <1>2, <2>1, ChatFits DEF Reaches, Sound
  <2>3. w = u
    BY <1>2 DEF Frame
  <2>4. Stays(w)
    BY <1>2, <2>1, <2>3 DEF Sound, Stays, Said
  <2> QED
    BY <2>2, <2>4
<1>3. CASE u.type = "Action"
  <2>1. u.bytes \in Actions /\ u.by \in Players
    BY <1>3 DEF Update
  <2>2. Reaches(p, u)
    BY <1>3, <2>1, ActionFits DEF Reaches, Sound
  <2>3. w = u
    BY <1>3 DEF Frame
  <2>4. Stays(w)
    BY <1>3, <2>1, <2>3 DEF Sound, Stays, Said
  <2> QED
    BY <2>2, <2>4
<1>4. CASE u.type \in {"Notice", "Rejected", "Loaded", "Start"}
  <2>1. Reaches(p, u) \/ (u.type = "Rejected" /\ u.by = p)
    <3>1. CASE u.type = "Notice"
      <4>1. u.bytes = MaxNotice
        BY <3>1 DEF Update
      <4>2. /\ MaxNotice \in 1..MaxChat /\ MaxChat <= MaxHostChat
            /\ MaxChat \in Nat /\ MaxHostChat \in Nat
        BY DEF RelayAssumption
      <4> QED
        BY <3>1, <4>1, <4>2 DEF Reaches
    <3>2. CASE u.type # "Notice"
      BY <1>4, <3>2 DEF Reaches, Sound
    <3> QED
      BY <3>1, <3>2
  <2>2. w = u
    BY <1>4 DEF Frame
  <2>3. Stays(w)
    BY <1>4, <2>2 DEF Stays, Said
  <2> QED
    BY <2>1, <2>3
<1>5. u.type \in {"Joined", "Roster", "Left", "Chat", "Action",
                  "Notice", "Rejected", "Loaded", "Start"}
  BY DEF Update
<1> QED
  BY <1>1, <1>2, <1>3, <1>4, <1>5


----------------------------------------------------------------------------
(* What is true on its way stays true: agents only add to what they passed *)
(* on, and not after their session.                                        *)

Stable ==
  \A q \in Players :
    /\ forwarded[q] \subseteq forwarded'[q]
    /\ seat[q] = "gone" => seat'[q] = "gone" /\ forwarded'[q] = forwarded[q]

LEMMA SoundIsKept ==
  ASSUME Typed, Stable, NEW p \in Players, NEW u \in Update, Sound(p, u)
  PROVE  Sound(p, u)'
<1>1. CASE u.type \in {"Joined", "Roster", "Left"}
  <2>1. u.by \in Players /\ Known(u.names)'
    BY <1>1 DEF Update, Sound, Known, Stable
  <2>2. CASE u.type = "Left"
    BY <2>1, <2>2 DEF Sound, Stable, Left
  <2>3. CASE u.type # "Left"
    BY <1>1, <2>1, <2>3 DEF Sound, Stable
  <2> QED
    BY <2>2, <2>3
<1>2. CASE u.type \in {"Chat", "Action"}
  <2>1. u.by \in Players
    BY <1>2 DEF Update
  <2> QED
    BY <1>2, <2>1 DEF Sound, Stable
<1>3. CASE u.type \notin {"Joined", "Roster", "Left", "Chat", "Action"}
  BY <1>3 DEF Sound
<1> QED
  BY <1>1, <1>2, <1>3

LEMMA ToldIsKept ==
  ASSUME Stable, NEW w, Stays(w)
  PROVE  Stays(w)'
<1>1. CASE w.type \in {"Chat", "Action"}
  BY <1>1 DEF Stays, Said, Stable
<1>2. CASE w.type = "Left"
  <2>1. forwarded'[w.by] = forwarded[w.by] /\ seat'[w.by] = "gone" /\ w.by \in Players
    BY <1>2 DEF Stays, Stable
  <2> QED
    BY <1>2, <2>1 DEF Stays, Said
<1>3. CASE w.type \in {"Joined", "Roster"}
  <2>1. ASSUME NEW q \in Players, w.names[q] # NoText
        PROVE  \E m \in forwarded'[q] : m.type = "Join" /\ m.text = w.names[q]
    BY <1>3, <2>1 DEF Stays, Said, Stable
  <2> QED
    BY <1>3, <2>1 DEF Stays, Said
<1>4. CASE w.type \notin {"Joined", "Roster", "Left", "Chat", "Action"}
  BY <1>4 DEF Stays, Said
<1> QED
  BY <1>1, <1>2, <1>3, <1>4

(* Nothing but sound updates enters the outboxes. *)
LEMMA QueuesStaySound ==
  ASSUME Typed, OutboxesSound, Stable,
         \A p \in Players : \A i \in 1..Len(outbox'[p]) :
           \/ \E j \in 1..Len(outbox[p]) : outbox'[p][i] = outbox[p][j]
           \/ Sound(p, outbox[p][i])'
  PROVE  OutboxesSound'
<1>1. ASSUME NEW p \in Players, NEW i \in 1..Len(outbox'[p]),
             NEW j \in 1..Len(outbox[p]), outbox'[p][i] = outbox[p][j]
      PROVE  Sound(p, outbox[p][i])'
  <2>1. outbox[p][j] \in Update
    BY DEF Typed
  <2>2. Sound(p, outbox[p][j])
    BY DEF OutboxesSound
  <2>3. PICK u \in Update : u = outbox[p][j] /\ u = outbox'[p][i] /\ Sound(p, u)
    BY <2>1, <2>2, <1>1
  <2>4. Sound(p, u)'
    BY <2>3, SoundIsKept
  <2> DEFINE w == outbox[p][i]
  <2>5. w' = u
    BY <2>3
  <2> HIDE DEF w
  <2>6. Sound(p, w)'
    BY <2>4, <2>5 DEF Sound, Known, Left
  <2> QED
    BY <2>6 DEF w
<1> QED
  BY <1>1 DEF OutboxesSound

LEMMA PublishedTyped ==
  ASSUME NEW names, NEW outboxes \in [Players -> Seq(Update)], NEW u \in Update
  PROVE  Published(names, outboxes, u) \in [Players -> Seq(Update)]
BY DEF Published

LEMMA AppendedEntries ==
  ASSUME NEW s \in Seq(Update), NEW u \in Update, NEW i \in 1..Len(Append(s, u))
  PROVE  (i \in 1..Len(s) /\ Append(s, u)[i] = s[i]) \/ Append(s, u)[i] = u
OBVIOUS

----------------------------------------------------------------------------
(* The agents: what their sessions do to the invariant. *)

(* An agent passes m on. *)
LEMMA AgentForwards ==
  ASSUME Typed, Agents, NEW p \in Players, NEW m \in Message, Passed(m), Forward(p, m),
         seat' \in [Players -> Seats], room' = room,
         \A q \in Players \ {p} : seat'[q] = seat[q],
         seat[p] # "gone", seat'[p] # "away",
         m.type = "Join" => seat[p] = "away", m.type = "Leave" => seat'[p] = "gone"
  PROVE  Agents' /\ Stable
<1>1. /\ inbox'[p] = Append(inbox[p], m) /\ forwarded'[p] = forwarded[p] \cup {m}
      /\ \A q \in Players \ {p} : inbox'[q] = inbox[q] /\ forwarded'[q] = forwarded[q]
      /\ inbox[p] \in Seq(Message) /\ Members' = Members
  BY DEF Forward, Typed, Members
<1>2. /\ Len(inbox'[p]) = Len(inbox[p]) + 1 /\ inbox'[p][Len(inbox'[p])] = m
      /\ inbox'[p] # <<>>
      /\ \A i \in 1..Len(inbox[p]) : inbox'[p][i] = inbox[p][i]
      /\ \A i \in 1..Len(inbox'[p]) : i \in 1..Len(inbox[p]) \/ inbox'[p][i] = m
  BY <1>1
<1>3. Stable
  BY <1>1 DEF Stable
<1>4. ~Left(p)
  BY DEF Agents, ForwardedPassed, Left
<1>5. ForwardedPassed'
  <2>1. ASSUME NEW n \in forwarded'[p]
        PROVE  Passed(n)' /\ (n.type = "Leave" => seat'[p] = "gone")
    BY <2>1, <1>1, <1>4 DEF Agents, ForwardedPassed, Left, Passed
  <2>2. ASSUME NEW q \in Players \ {p}, NEW n \in forwarded'[q]
        PROVE  Passed(n)' /\ (n.type = "Leave" => seat'[q] = "gone")
    BY <2>2, <1>1 DEF Agents, ForwardedPassed, Passed
  <2> QED
    BY <2>1, <2>2 DEF ForwardedPassed
<1>6. InboxesForwarded'
  <2>1. ASSUME NEW i \in 1..Len(inbox'[p])
        PROVE  /\ inbox'[p][i] \in forwarded'[p]
               /\ inbox'[p][i].type = "Join" => i = 1 /\ p \notin Members'
    <3>1. CASE i \in 1..Len(inbox[p])
      BY <3>1, <1>1, <1>2 DEF Agents, InboxesForwarded
    <3>2. CASE i \notin 1..Len(inbox[p])
      <4>1. inbox'[p][i] = m /\ i = Len(inbox[p]) + 1
        BY <3>2, <2>1, <1>1, <1>2
      <4>2. m.type = "Join" => inbox[p] = <<>> /\ p \notin Members
        BY DEF Agents, InboxesForwarded
      <4> QED
        BY <4>1, <4>2, <1>1
    <3> QED
      BY <3>1, <3>2
  <2> QED
    BY <2>1, <1>1 DEF Agents, InboxesForwarded
<1>7. ReasonsPending'
  <2>1. Left(p)' => inbox'[p] # <<>> /\ inbox'[p][Len(inbox'[p])].type = "Leave"
    BY <1>1, <1>2, <1>4 DEF Left
  <2> QED
    BY <2>1, <1>1 DEF Agents, ReasonsPending, Left
<1> QED
  BY <1>3, <1>5, <1>6, <1>7 DEF Agents

(* No agent passes on anything, no room takes anything: sessions begin to  *)
(* listen or end.                                                          *)
LEMMA AgentsListen ==
  ASSUME Typed, Agents, UNCHANGED <<inbox, forwarded>>,
         seat' \in [Players -> Seats], room' \in Names,
         \A q \in Players :
           /\ seat[q] = "gone" => seat'[q] = "gone"
           /\ seat'[q] = "away" => seat[q] = "away"
           /\ room'[q] = room[q] \/ room'[q] = NoText
  PROVE  Agents' /\ Stable
<1>1. Stable
  BY DEF Stable
<1>2. Members' \subseteq Members
  BY DEF Members
<1>3. ForwardedPassed'
  BY DEF Agents, ForwardedPassed, Passed
<1>4. InboxesForwarded'
  BY <1>2 DEF Agents, InboxesForwarded
<1>5. ReasonsPending'
  BY <1>2 DEF Agents, ReasonsPending, Left
<1> QED
  BY <1>1, <1>3, <1>4, <1>5 DEF Agents

LEMMA OneLess ==
  ASSUME NEW n \in Nat, n > 0, n # 1, NEW k, k = n - 1
  PROVE  k \in 1..k /\ k + 1 = n
OBVIOUS

(* The room takes the first message of p: after a join p may be a member,  *)
(* after a reason to leave it is none.                                     *)
LEMMA RoomTakesOne ==
  ASSUME Typed, Agents, NEW p \in Players, Takes(p), UNCHANGED forwarded,
         seat' = seat, room' \in Names,
         \A q \in Players \ {p} : room'[q] = room[q],
         \/ Head(inbox[p]).type = "Join"
         \/ /\ p \in Members
            /\ Head(inbox[p]).type = "Leave" => room'[p] = NoText
  PROVE  Agents' /\ Stable
<1>1. /\ inbox'[p] = Tail(inbox[p]) /\ inbox[p] # <<>> /\ inbox[p] \in Seq(Message)
      /\ \A q \in Players \ {p} : inbox'[q] = inbox[q] /\ (q \in Members' <=> q \in Members)
      /\ seat[p] # "away"
  BY DEF Takes, Typed, Members
<1>2. /\ Len(inbox'[p]) = Len(inbox[p]) - 1 /\ Head(inbox[p]) = inbox[p][1]
      /\ Len(inbox[p]) \in Nat /\ Len(inbox[p]) > 0
  BY <1>1
<1>3. ASSUME NEW i \in 1..Len(inbox'[p])
      PROVE  inbox'[p][i] = inbox[p][i + 1] /\ i + 1 \in 1..Len(inbox[p]) /\ i + 1 # 1
  BY <1>1, <1>2, <1>3
<1>4. Stable
  BY DEF Stable
<1>5. ForwardedPassed'
  BY DEF Agents, ForwardedPassed, Passed
<1>6. ASSUME NEW i \in 1..Len(inbox'[p])
      PROVE  inbox'[p][i] \in forwarded[p] /\ inbox'[p][i].type # "Join"
  <2>1. \A j \in 1..Len(inbox[p]) :
          inbox[p][j] \in forwarded[p] /\ (inbox[p][j].type = "Join" => j = 1)
    BY DEF Agents, InboxesForwarded
  <2> QED
    BY <1>3, <2>1
<1>7. InboxesForwarded'
  <2>1. ASSUME NEW q \in Players \ {p}
        PROVE  /\ seat'[q] = "away" => inbox'[q] = <<>> /\ q \notin Members'
               /\ \A i \in 1..Len(inbox'[q]) :
                    /\ inbox'[q][i] \in forwarded'[q]
                    /\ inbox'[q][i].type = "Join" => i = 1 /\ q \notin Members'
    BY <2>1, <1>1 DEF Agents, InboxesForwarded
  <2>2. seat'[p] # "away"
    BY <1>1
  <2> QED
    BY <1>6, <2>1, <2>2 DEF InboxesForwarded
<1>8. ReasonsPending'
  <2>1. ASSUME Left(p), p \in Members'
        PROVE  inbox'[p] # <<>> /\ inbox'[p][Len(inbox'[p])].type = "Leave"
    <3>1. Head(inbox[p]).type # "Leave"
      BY <2>1 DEF Members
    <3>2. \/ p \in Members
          \/ \E i \in 1..Len(inbox[p]) : inbox[p][i].type = "Join"
      BY <1>2
    <3>3. inbox[p][Len(inbox[p])].type = "Leave"
      BY <2>1, <3>2 DEF Agents, ReasonsPending
    <3>4. Len(inbox[p]) # 1
      BY <3>1, <3>3, <1>2
    <3>5. Len(inbox'[p]) \in 1..Len(inbox'[p]) /\ Len(inbox'[p]) + 1 = Len(inbox[p])
      BY <3>4, <1>2, OneLess
    <3>6. inbox'[p][Len(inbox'[p])] = inbox[p][Len(inbox[p])]
      BY <3>5, <1>3
    <3>7. inbox'[p] # <<>>
      BY <3>5
    <3> QED
      BY <3>3, <3>6, <3>7
  <2>2. Left(p)' => Left(p)
    BY DEF Left
  <2>3. ASSUME NEW q \in Players \ {p}, Left(q)',
               q \in Members' \/ \E i \in 1..Len(inbox'[q]) : inbox'[q][i].type = "Join"
        PROVE  inbox'[q] # <<>> /\ inbox'[q][Len(inbox'[q])].type = "Leave"
    BY <2>3, <1>1 DEF Agents, ReasonsPending, Left
  <2> QED
    BY <2>1, <2>2, <2>3, <1>6 DEF ReasonsPending
<1> QED
  BY <1>4, <1>5, <1>7, <1>8 DEF Agents

----------------------------------------------------------------------------
(* The steps. *)

LEMMA StepKeeps ==
  ASSUME Invariant, Typed', Agents', Stable, OnlyTheSenderPays',
         \A p \in Players :
           \/ room'[p] \in {room[p], NoText}
           \/ /\ ValidName(room'[p])
              /\ [type |-> "Join", text |-> room'[p], version |-> Version] \in forwarded'[p],
         \A p \in Players : \A i \in 1..Len(outbox'[p]) :
           \/ \E j \in 1..Len(outbox[p]) : outbox'[p][i] = outbox[p][j]
           \/ Sound(p, outbox[p][i])',
         \A p \in Players : \A w \in told'[p] : w \in told[p] \/ Stays(w)'
  PROVE  Invariant'
<1>1. MembersGave'
  BY DEF Invariant, MembersGave, Members, Stable
<1>2. OutboxesSound'
  BY QueuesStaySound DEF Invariant
<1>3. ToldStays'
  BY ToldIsKept DEF Invariant, ToldStays
<1> QED
  BY <1>1, <1>2, <1>3 DEF Invariant

(* The actions of Warcraft, with what its agent does. *)
LEMMA WarcraftKeeps ==
  ASSUME Invariant, NEW p \in Players, UNCHANGED <<room, outbox, told>>,
         seat[p] # "gone",
         \/ Refuse(p)
         \/ /\ \E m \in Message :
                 /\ Passed(m) /\ Forward(p, m)
                 /\ m.type = "Join" => seat[p] = "away"
                 /\ m.type = "Leave" => seat'[p] = "gone"
            /\ seat' \in [Players -> Seats] /\ seat'[p] # "away"
            /\ \A q \in Players \ {p} : seat'[q] = seat[q]
            /\ UNCHANGED blamed
  PROVE  Invariant'
<1>1. CASE Refuse(p)
  <2>1. /\ seat' \in [Players -> Seats] /\ UNCHANGED <<inbox, forwarded>>
        /\ blamed' = [blamed EXCEPT ![p] = @ \cup {p}] /\ room' \in Names
        /\ seat' = [seat EXCEPT ![p] = "gone"]
    BY <1>1 DEF Refuse, Ends, Invariant, Typed, Seats
  <2>2. Agents' /\ Stable
    BY <2>1, AgentsListen DEF Invariant, Typed
  <2>3. Typed' /\ OnlyTheSenderPays'
    BY <2>1 DEF Invariant, Typed, OnlyTheSenderPays
  <2> QED
    BY <2>2, <2>3, StepKeeps DEF Invariant
<1>2. CASE ~Refuse(p)
  <2>1. PICK m \in Message :
          /\ Passed(m) /\ Forward(p, m)
          /\ m.type = "Join" => seat[p] = "away"
          /\ m.type = "Leave" => seat'[p] = "gone"
    BY <1>2
  <2>2. Agents' /\ Stable
    BY <1>2, <2>1, AgentForwards DEF Invariant
  <2>3. Typed' /\ OnlyTheSenderPays'
    BY <1>2, <2>1 DEF Invariant, Typed, OnlyTheSenderPays, Forward
  <2> QED
    BY <2>2, <2>3, StepKeeps DEF Invariant
<1> QED
  BY <1>1, <1>2

LEMMA ReqJoinKeeps ==
  ASSUME RelayAssumption, Invariant, NEW p \in Players, NEW t \in Texts, NEW v \in Versions,
         ReqJoin(p, t, v)
  PROVE  Invariant'
<1> DEFINE m == [type |-> "Join", text |-> t, version |-> v]
<1>1. m \in Message
  BY DEF Message
<1>2. UNCHANGED <<room, outbox, told>> /\ seat[p] = "away"
  BY DEF ReqJoin
<1>3. CASE Refuse(p)
  BY <1>2, <1>3, WarcraftKeeps
<1>4. CASE ~Refuse(p)
  <2>1. /\ Forward(p, m) /\ ValidName(t) /\ seat' = [seat EXCEPT ![p] = "joining"]
        /\ UNCHANGED blamed
    BY <1>4 DEF ReqJoin
  <2>2. Passed(m)
    BY <2>1 DEF Passed
  <2>3. /\ seat' \in [Players -> Seats] /\ seat'[p] = "joining"
        /\ \A q \in Players \ {p} : seat'[q] = seat[q]
    BY <2>1 DEF Invariant, Typed, Seats
  <2> QED
    BY <1>1, <1>2, <2>1, <2>2, <2>3, WarcraftKeeps
<1> QED
  BY <1>3, <1>4

(* A frame that the agent passes on as m or refuses. *)
LEMMA PassesKeeps ==
  ASSUME Invariant, NEW p \in Players, NEW fits \in BOOLEAN, NEW m \in Message,
         Says(p), Passes(p, fits, m), fits => Passed(m), m.type \notin {"Join", "Leave"}
  PROVE  Invariant'
<1>1. UNCHANGED <<room, outbox, told>> /\ seat[p] = "in"
  BY DEF Says
<1>2. CASE ~fits
  BY <1>1, <1>2, WarcraftKeeps DEF Passes
<1>3. CASE fits
  <2>1. Forward(p, m) /\ Passed(m) /\ UNCHANGED <<seat, blamed>>
    BY <1>3 DEF Passes
  <2>2. seat' \in [Players -> Seats] /\ seat'[p] = "in"
    BY <1>1, <2>1 DEF Invariant, Typed
  <2> QED
    BY <1>1, <2>1, <2>2, WarcraftKeeps
<1> QED
  BY <1>2, <1>3

LEMMA FramesKeep ==
  ASSUME Invariant, NEW p \in Players, NEW whole \in BOOLEAN,
         \/ \E t \in Texts, sender \in Players : ChatToHost(p, sender, t)
         \/ GameLoadedSelf(p, whole)
         \/ KeepAlive(p, whole)
         \/ \E n \in Actions : OutgoingAction(p, n, whole)
  PROVE  Invariant'
<1>1. ASSUME NEW t \in Texts, NEW sender \in Players, ChatToHost(p, sender, t)
      PROVE  Invariant'
  <2> DEFINE m == [type |-> "Chat", text |-> t]
             fits == sender = p /\ ReadsChat(t) /\ ValidChat(t) /\ ControlFits(JsonText(t))
  <2>1. m \in Message /\ m.type \notin {"Join", "Leave"} /\ (ValidChat(t) => Passed(m))
    BY DEF Message, Passed
  <2>2. Says(p) /\ Passes(p, fits, m)
    BY <1>1 DEF ChatToHost
  <2>3. fits \in BOOLEAN /\ (fits => Passed(m))
    BY <2>1
  <2> HIDE DEF m, fits
  <2> QED
    BY <2>1, <2>2, <2>3, PassesKeeps
<1>2. ASSUME GameLoadedSelf(p, whole)
      PROVE  Invariant'
  <2> DEFINE m == [type |-> "Loaded"]
  <2>1. m \in Message /\ m.type \notin {"Join", "Leave"} /\ Passed(m)
    BY DEF Message, Passed
  <2>2. Says(p) /\ Passes(p, whole, m)
    BY <1>2 DEF GameLoadedSelf
  <2> HIDE DEF m
  <2> QED
    BY <2>1, <2>2, PassesKeeps
<1>3. ASSUME KeepAlive(p, whole)
      PROVE  Invariant'
  <2> DEFINE m == [type |-> "KeepAlive"]
             fits == whole /\ TunnelFits(KeepAliveBytes)
  <2>1. m \in Message /\ m.type \notin {"Join", "Leave"} /\ Passed(m)
    BY DEF Message, Passed
  <2>2. Says(p) /\ Passes(p, fits, m) /\ fits \in BOOLEAN
    BY <1>3 DEF KeepAlive
  <2> HIDE DEF m, fits
  <2> QED
    BY <2>1, <2>2, PassesKeeps
<1>4. ASSUME NEW n \in Actions, OutgoingAction(p, n, whole)
      PROVE  Invariant'
  <2> DEFINE m == [type |-> "Action", bytes |-> n]
             fits == whole /\ ReadsAction(n) /\ TunnelFits(OutgoingBytes(n))
  <2>1. m \in Message /\ m.type \notin {"Join", "Leave"} /\ (ReadsAction(n) => Passed(m))
    BY DEF Message, Passed
  <2>2. Says(p) /\ Passes(p, fits, m)
    BY <1>4 DEF OutgoingAction
  <2>3. fits \in BOOLEAN /\ (fits => Passed(m))
    BY <2>1
  <2> HIDE DEF m, fits
  <2> QED
    BY <2>1, <2>2, <2>3, PassesKeeps
<1> QED
  BY <1>1, <1>2, <1>3, <1>4

LEMMA LeaveRequestKeeps ==
  ASSUME RelayAssumption, Invariant, NEW p \in Players, NEW code \in Codes, LeaveRequest(p, code)
  PROVE  Invariant'
<1> DEFINE m == [type |-> "Leave", reason |-> ReasonOf(code), code |-> code]
<1>1. UNCHANGED <<room, outbox, told>> /\ seat[p] = "in"
  BY DEF LeaveRequest, Says
<1>2. CASE Refuse(p)
  BY <1>1, <1>2, WarcraftKeeps
<1>3. CASE ~Refuse(p)
  <2>1. /\ ReasonOf(code) \in Reasons /\ Forward(p, m)
        /\ seat' = [seat EXCEPT ![p] = "gone"] /\ UNCHANGED blamed
    BY <1>3 DEF LeaveRequest
  <2>2. m \in Message
    BY <2>1 DEF Message
  <2>3. Passed(m)
    <3>1. code \in Nat
      BY DEF RelayAssumption
    <3> QED
      BY <2>1, <3>1, CodesRoundTrip DEF Passed
  <2>4. m.type = "Leave"
    OBVIOUS
  <2>5. /\ seat' \in [Players -> Seats] /\ seat'[p] = "gone"
        /\ \A q \in Players \ {p} : seat'[q] = seat[q]
    BY <2>1 DEF Invariant, Typed, Seats
  <2> HIDE DEF m
  <2> QED
    BY <1>1, <2>1, <2>2, <2>3, <2>4, <2>5, WarcraftKeeps
<1> QED
  BY <1>2, <1>3

LEMMA VanishKeeps ==
  ASSUME Invariant, NEW p \in Players, Vanish(p)
  PROVE  Invariant'
<1>1. /\ UNCHANGED <<room, inbox, outbox, forwarded, told, blamed>>
      /\ seat' = [seat EXCEPT ![p] = "gone"] /\ seat' \in [Players -> Seats] /\ room' \in Names
  BY DEF Vanish, Invariant, Typed, Seats
<1>2. Agents' /\ Stable
  BY <1>1, AgentsListen DEF Invariant, Typed
<1>3. Typed' /\ OnlyTheSenderPays'
  BY <1>1 DEF Invariant, Typed, OnlyTheSenderPays
<1> QED
  BY <1>1, <1>2, <1>3, StepKeeps DEF Invariant

----------------------------------------------------------------------------
(* The room. *)

(* The room answers p alone. *)
LEMMA AnswerKeeps ==
  ASSUME Invariant, NEW p \in Players, NEW u \in Update,
         outbox' = [outbox EXCEPT ![p] = Append(@, u)], Sound(p, u)',
         inbox' \in [Players -> Seq(Message)], Agents', Stable,
         UNCHANGED <<seat, room, forwarded, told, blamed>>
  PROVE  Invariant'
<1>1. /\ outbox'[p] = Append(outbox[p], u) /\ outbox[p] \in Seq(Update)
      /\ \A q \in Players \ {p} : outbox'[q] = outbox[q]
      /\ outbox' \in [Players -> Seq(Update)]
  BY DEF Invariant, Typed
<1>2. Typed' /\ OnlyTheSenderPays'
  BY <1>1 DEF Invariant, Typed, OnlyTheSenderPays
<1>3. ASSUME NEW q \in Players, NEW i \in 1..Len(outbox'[q])
      PROVE  \/ \E j \in 1..Len(outbox[q]) : outbox'[q][i] = outbox[q][j]
             \/ Sound(q, outbox[q][i])'
  <2>1. CASE q = p
    <3>1. (i \in 1..Len(outbox[p]) /\ outbox'[p][i] = outbox[p][i]) \/ outbox'[p][i] = u
      BY <1>1, <1>3, <2>1, AppendedEntries
    <3>2. CASE outbox'[p][i] = u
      BY <2>1, <3>2 DEF Sound, Known, Left
    <3> QED
      BY <2>1, <3>1, <3>2
  <2>2. CASE q # p
    BY <1>1, <2>2
  <2> QED
    BY <2>1, <2>2
<1> QED
  BY <1>2, <1>3, StepKeeps

LEMMA TakeJoinKeeps ==
  ASSUME RelayAssumption, Invariant, NEW p \in Players, TakeJoin(p)
  PROVE  Invariant'
<1> DEFINE m == Head(inbox[p])
<1>1. /\ Takes(p) /\ m.type = "Join" /\ seat' = seat
      /\ UNCHANGED <<forwarded, told, blamed>>
  BY DEF TakeJoin
<1>2. m \in forwarded[p] /\ m \in Message /\ inbox[p] \in Seq(Message) /\ inbox[p] # <<>>
  <2>1. inbox[p] \in Seq(Message) /\ inbox[p] # <<>>
    BY <1>1 DEF Takes, Invariant, Typed
  <2>2. m = inbox[p][1] /\ 1 \in 1..Len(inbox[p])
    BY <2>1
  <2>3. m \in forwarded[p]
    BY <2>2 DEF Invariant, Agents, InboxesForwarded
  <2> QED
    BY <2>1, <2>3 DEF Invariant, Typed
<1>3. m = [type |-> "Join", text |-> m.text, version |-> m.version] /\ m.text \in Texts
  BY <1>1, <1>2 DEF Message
<1>4. inbox' \in [Players -> Seq(Message)]
  BY <1>1, <1>2 DEF Takes, Invariant, Typed
<1>5. NoText \notin Texts
  BY DEF RelayAssumption
<1>6. CASE /\ outbox' = [outbox EXCEPT ![p] = Append(@, [type |-> "Rejected", by |-> p])]
           /\ UNCHANGED room
  <2> DEFINE u == [type |-> "Rejected", by |-> p]
  <2>1. u \in Update /\ Sound(p, u)'
    BY DEF Update, Sound
  <2>2. room' \in Names /\ \A q \in Players : room'[q] = room[q]
    BY <1>6 DEF Invariant, Typed
  <2>3. Agents' /\ Stable
    BY <1>1, <2>2, RoomTakesOne DEF Invariant
  <2> HIDE DEF u
  <2> QED
    BY <1>1, <1>4, <1>6, <2>1, <2>3, AnswerKeeps DEF u
<1>7. CASE ~(/\ outbox' = [outbox EXCEPT ![p] = Append(@, [type |-> "Rejected", by |-> p])]
             /\ UNCHANGED room)
  <2> DEFINE joined == [type |-> "Joined", by |-> p, names |-> room', version |-> Version]
             roster == [type |-> "Roster", by |-> p, names |-> room']
             outboxes == [outbox EXCEPT ![p] = Append(@, joined)]
  <2>1. /\ ServerTakes(m) /\ room' = [room EXCEPT ![p] = m.text]
        /\ outbox' = Published(room', outboxes, roster)
    BY <1>7 DEF TakeJoin
  <2>2. m.version = Version /\ ValidName(m.text)
    BY <1>1, <2>1 DEF ServerTakes
  <2>3. /\ room' \in Names /\ room'[p] = m.text /\ room'[p] # NoText
        /\ \A q \in Players \ {p} : room'[q] = room[q]
    BY <1>3, <1>5, <2>1 DEF Invariant, Typed, Names
  <2>4. Agents' /\ Stable
    BY <1>1, <2>3, RoomTakesOne DEF Invariant
  <2>5. [type |-> "Join", text |-> room'[p], version |-> Version] \in forwarded'[p]
    BY <1>1, <1>2, <1>3, <2>2, <2>3
  <2>6. Known(room)'
    <3>2. ValidName(room'[p]) /\ \E n \in forwarded'[p] : n.type = "Join" /\ n.text = room'[p]
      BY <1>1, <1>2, <2>2, <2>3
    <3>3. ASSUME NEW q \in Players \ {p}, room'[q] # NoText
          PROVE  ValidName(room'[q]) /\ \E n \in forwarded'[q] : n.type = "Join" /\ n.text = room'[q]
      <4>1. q \in Members /\ room'[q] = room[q]
        BY <2>3, <3>3 DEF Members
      <4>2. [type |-> "Join", text |-> room[q], version |-> Version] \in forwarded'[q]
        BY <1>1, <4>1 DEF Invariant, MembersGave
      <4> QED
        BY <4>1, <4>2 DEF Invariant, MembersGave
    <3> QED
      BY <3>2, <3>3 DEF Known
  <2>7. joined \in Update /\ roster \in Update
    BY <2>3 DEF Update
  <2>8. outboxes \in [Players -> Seq(Update)]
    BY <2>7 DEF Invariant, Typed
  <2>9. outbox' \in [Players -> Seq(Update)]
    BY <2>1, <2>7, <2>8, PublishedTyped
  <2>10. Typed' /\ OnlyTheSenderPays'
    BY <1>1, <1>4, <2>3, <2>9 DEF Invariant, Typed, OnlyTheSenderPays
  <2>11. ASSUME NEW q \in Players, NEW i \in 1..Len(outbox'[q])
         PROVE  \/ \E j \in 1..Len(outbox[q]) : outbox'[q][i] = outbox[q][j]
                \/ Sound(q, outbox[q][i])'
    <3>1. \/ i \in 1..Len(outboxes[q]) /\ outbox'[q][i] = outboxes[q][i]
          \/ room'[q] # NoText /\ outbox'[q][i] = roster
      <4> HIDE DEF outboxes, roster
      <4>1. /\ outbox'[q] = IF room'[q] # NoText THEN Append(outboxes[q], roster) ELSE outboxes[q]
            /\ outboxes[q] \in Seq(Update)
        BY <2>1, <2>8 DEF Published
      <4> QED
        BY <4>1, <2>7, <2>11, AppendedEntries
    <3>2. CASE room'[q] # NoText /\ outbox'[q][i] = roster
      <4>1. /\ outbox'[q][i].type = "Roster" /\ outbox'[q][i].names = room'
        BY <3>2
      <4> QED
        BY <3>2, <4>1, <2>6 DEF Sound, Known
    <3>3. CASE q = p /\ i \in 1..Len(outboxes[q]) /\ outbox'[q][i] = outboxes[q][i]
      <4>1. outboxes[p] = Append(outbox[p], joined) /\ outbox[p] \in Seq(Update)
        BY <2>7 DEF Invariant, Typed
      <4>2. (i \in 1..Len(outbox[p]) /\ outbox'[p][i] = outbox[p][i]) \/ outbox'[p][i] = joined
        BY <3>3, <4>1
      <4>3. CASE outbox'[p][i] = joined
        <5>1. /\ outbox'[p][i].type = "Joined" /\ outbox'[p][i].names = room'
              /\ outbox'[p][i].version = Version
          BY <4>3
        <5> QED
          BY <3>3, <5>1, <2>3, <2>5, <2>6 DEF Sound, Known
      <4> QED
        BY <3>3, <4>2, <4>3
    <3>4. CASE q # p /\ i \in 1..Len(outboxes[q]) /\ outbox'[q][i] = outboxes[q][i]
      <4>1. outboxes[q] = outbox[q]
        BY <3>4 DEF Invariant, Typed
      <4> QED
        BY <3>4, <4>1
    <3> QED
      BY <3>1, <3>2, <3>3, <3>4
  <2>12. \A q \in Players :
           \/ room'[q] \in {room[q], NoText}
           \/ /\ ValidName(room'[q])
              /\ [type |-> "Join", text |-> room'[q], version |-> Version] \in forwarded'[q]
    BY <2>2, <2>3, <2>5
  <2> QED
    BY <1>1, <2>4, <2>10, <2>11, <2>12, StepKeeps
<1> QED
  BY <1>6, <1>7

(* The session of p is over when p leaves the room, for the reason that p  *)
(* gave if p gave one.                                                     *)
LEMMA LeaveRoomKeeps ==
  ASSUME RelayAssumption, Invariant, NEW p \in Players, NEW r \in Reasons, LeaveRoom(p, r),
         UNCHANGED <<seat, forwarded, told, blamed>>, seat[p] = "gone",
         IF Left(p) THEN \E m \in forwarded[p] : m.type = "Leave" /\ m.code = W3gsCode(r)
                    ELSE r = "disconnect",
         inbox' \in [Players -> Seq(Message)], Agents', Stable
  PROVE  Invariant'
<1> DEFINE u == [type |-> IF began THEN "Left" ELSE "Roster",
                 by |-> p, names |-> room', reason |-> r]
           outboxes == [outbox EXCEPT ![p] = <<>>]
<1>1. outbox' = Published(room', outboxes, u) /\ room' = [room EXCEPT ![p] = NoText]
  BY DEF LeaveRoom
<1>2. /\ room' \in Names /\ room'[p] = NoText
      /\ \A q \in Players \ {p} : room'[q] = room[q]
  BY <1>1 DEF Invariant, Typed, Names
<1>3. u \in Update
  BY <1>2 DEF Update
<1>4. outboxes \in [Players -> Seq(Update)]
  BY DEF Invariant, Typed
<1>5. outbox' \in [Players -> Seq(Update)]
  BY <1>1, <1>3, <1>4, PublishedTyped
<1>6. Typed' /\ OnlyTheSenderPays'
  BY <1>2, <1>5 DEF Invariant, Typed, OnlyTheSenderPays
<1>7. Known(room)'
  <2>1. ASSUME NEW q \in Players, room'[q] # NoText
        PROVE  ValidName(room'[q]) /\ \E m \in forwarded'[q] : m.type = "Join" /\ m.text = room'[q]
    <3>1. q \in Members /\ room'[q] = room[q]
      BY <1>2, <2>1 DEF Members
    <3>2. [type |-> "Join", text |-> room[q], version |-> Version] \in forwarded'[q]
      BY <3>1 DEF Invariant, MembersGave
    <3> QED
      BY <3>1, <3>2 DEF Invariant, MembersGave
  <2> QED
    BY <2>1 DEF Known
<1>8. ASSUME NEW q \in Players, NEW i \in 1..Len(outbox'[q])
      PROVE  \/ \E j \in 1..Len(outbox[q]) : outbox'[q][i] = outbox[q][j]
             \/ Sound(q, outbox[q][i])'
  <2>1. \/ i \in 1..Len(outboxes[q]) /\ outbox'[q][i] = outboxes[q][i]
        \/ room'[q] # NoText /\ outbox'[q][i] = u
    <3> HIDE DEF outboxes, u
    <3>1. /\ outbox'[q] = IF room'[q] # NoText THEN Append(outboxes[q], u) ELSE outboxes[q]
          /\ outboxes[q] \in Seq(Update)
      BY <1>1, <1>4 DEF Published
    <3> QED
      BY <3>1, <1>3, <1>8, AppendedEntries
  <2>2. CASE room'[q] # NoText /\ outbox'[q][i] = u
    <3>1. /\ outbox'[q][i].type \in {"Left", "Roster"} /\ outbox'[q][i].names = room'
          /\ outbox'[q][i].by = p /\ outbox'[q][i].reason = r
      BY <2>2
    <3>2. p # q
      BY <2>2, <1>2
    <3> QED
      BY <2>2, <3>1, <3>2, <1>2, <1>7 DEF Sound, Known, Left
  <2>3. CASE i \in 1..Len(outboxes[q]) /\ outbox'[q][i] = outboxes[q][i]
    <3>1. outboxes[q] = IF q = p THEN <<>> ELSE outbox[q]
      BY DEF Invariant, Typed
    <3> QED
      BY <2>3, <3>1
  <2> QED
    BY <2>1, <2>2, <2>3
<1>9. \A q \in Players : room'[q] \in {room[q], NoText}
  BY <1>2
<1> QED
  BY <1>6, <1>8, <1>9, StepKeeps

(* The room tells all its players something sound. *)
LEMMA TellKeeps ==
  ASSUME Invariant, NEW u \in Update, Tell(u), UNCHANGED <<forwarded, told>>,
         inbox' \in [Players -> Seq(Message)], Agents', Stable,
         \A q \in Players : Sound(q, u)'
  PROVE  Invariant'
<1>1. outbox' = Published(room, outbox, u) /\ UNCHANGED <<seat, blamed, room>>
  BY DEF Tell
<1>2. room \in Names /\ outbox \in [Players -> Seq(Update)]
  BY DEF Invariant, Typed
<1>3. outbox' \in [Players -> Seq(Update)]
  BY <1>1, <1>2, PublishedTyped
<1>4. Typed' /\ OnlyTheSenderPays'
  BY <1>1, <1>3 DEF Invariant, Typed, OnlyTheSenderPays
<1>5. ASSUME NEW q \in Players, NEW i \in 1..Len(outbox'[q])
      PROVE  \/ \E j \in 1..Len(outbox[q]) : outbox'[q][i] = outbox[q][j]
             \/ Sound(q, outbox[q][i])'
  <2>1. (i \in 1..Len(outbox[q]) /\ outbox'[q][i] = outbox[q][i]) \/ outbox'[q][i] = u
    <3>1. /\ outbox'[q] = IF room[q] # NoText THEN Append(outbox[q], u) ELSE outbox[q]
          /\ outbox[q] \in Seq(Update)
      BY <1>1, <1>2 DEF Published
    <3> QED
      BY <3>1, <1>5, AppendedEntries
  <2>2. CASE outbox'[q][i] = u
    BY <2>2, ZenonT(20) DEF Sound, Known, Left
  <2> QED
    BY <2>1, <2>2
<1> QED
  BY <1>1, <1>4, <1>5, StepKeeps

LEMMA TakeMessageKeeps ==
  ASSUME RelayAssumption, Invariant, NEW p \in Players, TakeMessage(p)
  PROVE  Invariant'
<1> DEFINE m == Head(inbox[p])
<1>1. /\ p \in Members /\ Takes(p) /\ UNCHANGED <<forwarded, told>>
      /\ inbox[p] \in Seq(Message) /\ inbox[p] # <<>>
  BY DEF TakeMessage, Takes, Invariant, Typed
<1>2. /\ m \in Message /\ m \in forwarded[p] /\ Passed(m) /\ m.type # "Join"
      /\ m.type = "Leave" => seat[p] = "gone" /\ m.reason \in Reasons
  <2>1. m = inbox[p][1] /\ 1 \in 1..Len(inbox[p]) /\ m \in Message
    BY <1>1
  <2>2. m \in forwarded[p] /\ m.type # "Join"
    BY <1>1, <2>1 DEF Invariant, Agents, InboxesForwarded
  <2>3. m.type = "Leave" => m.reason \in Reasons
    BY <2>1 DEF Message
  <2> QED
    BY <2>1, <2>2, <2>3 DEF Invariant, Agents, ForwardedPassed
<1>3. inbox' \in [Players -> Seq(Message)]
  BY <1>1 DEF Takes, Invariant, Typed
<1>4. ServerTakes(m)
  BY <1>2, RoomTakes
<1>5. CASE m.type = "Leave" /\ LeaveRoom(p, m.reason) /\ UNCHANGED <<seat, blamed>>
  <2>1. /\ room' \in Names /\ room'[p] = NoText
        /\ \A q \in Players \ {p} : room'[q] = room[q]
    BY <1>5 DEF LeaveRoom, Invariant, Typed, Names
  <2>2. Agents' /\ Stable
    BY <1>1, <1>5, <2>1, RoomTakesOne DEF Invariant
  <2>3. Left(p) /\ m.code = W3gsCode(m.reason)
    BY <1>2, <1>5 DEF Left, Passed
  <2> HIDE DEF m
  <2>4. \E n \in forwarded[p] : n.type = "Leave" /\ n.code = W3gsCode(m.reason)
    BY <1>2, <1>5, <2>3
  <2> QED
    BY <1>1, <1>2, <1>3, <1>5, <2>2, <2>3, <2>4, LeaveRoomKeeps
<1>6. ASSUME m.type # "Leave", UNCHANGED <<seat, room>>
      PROVE  Agents' /\ Stable
  <2>1. room' \in Names
    BY <1>6 DEF Invariant, Typed
  <2> QED
    BY <1>1, <1>6, <2>1, RoomTakesOne DEF Invariant
<1>7. ASSUME m.type # "Leave", UNCHANGED <<seat, room, outbox, blamed>>
      PROVE  Invariant'
  <2>1. Agents' /\ Stable
    BY <1>6, <1>7
  <2>2. Typed' /\ OnlyTheSenderPays'
    BY <1>1, <1>3, <1>7 DEF Invariant, Typed, OnlyTheSenderPays
  <2> QED
    BY <1>1, <1>7, <2>1, <2>2, StepKeeps
<1>8. CASE m.type = "Chat" /\ TakeChat(p, m.text)
  <2>1. CASE Tell([type |-> "Chat", by |-> p, text |-> m.text])
    <3>1. m.text \in Texts /\ ValidChat(m.text) /\ m = [type |-> "Chat", text |-> m.text]
      BY <1>2, <1>8 DEF Message, Passed
    <3>2. PICK t \in Texts : t = m.text
      BY <3>1
    <3> DEFINE u == [type |-> "Chat", by |-> p, text |-> t]
    <3>3. u \in Update
      BY DEF Update
    <3>4. [type |-> "Chat", text |-> t] \in forwarded'[p] /\ ValidChat(t)
      BY <1>1, <1>2, <3>1, <3>2
    <3>5. \A q \in Players : Sound(q, u)'
      BY <3>4 DEF Sound
    <3>6. Agents' /\ Stable
      BY <1>6, <1>8, <2>1 DEF Tell
    <3>7. Tell(u)
      BY <2>1, <3>2
    <3> HIDE DEF u
    <3> QED
      BY <1>1, <1>3, <3>3, <3>5, <3>6, <3>7, TellKeeps
  <2>2. CASE outbox' = [outbox EXCEPT ![p] = Append(@, [type |-> "Notice", by |-> p,
                                                       bytes |-> MaxNotice])]
             /\ UNCHANGED <<seat, blamed, room>>
    <3> DEFINE u == [type |-> "Notice", by |-> p, bytes |-> MaxNotice]
    <3>1. u \in Update /\ Sound(p, u)'
      BY DEF Update, Sound
    <3>2. Agents' /\ Stable
      BY <1>6, <1>8, <2>2
    <3> HIDE DEF u
    <3> QED
      BY <1>1, <1>3, <2>2, <3>1, <3>2, AnswerKeeps DEF u
  <2>3. CASE UNCHANGED <<seat, blamed, room, outbox>>
    BY <1>7, <1>8, <2>3
  <2> QED
    BY <1>8, <2>1, <2>2, <2>3 DEF TakeChat
<1>9. CASE m.type = "Loaded" /\ Tell([type |-> "Loaded", by |-> p])
  <2> DEFINE u == [type |-> "Loaded", by |-> p]
  <2>1. u \in Update /\ \A q \in Players : Sound(q, u)'
    BY DEF Update, Sound
  <2>2. Agents' /\ Stable
    BY <1>6, <1>9 DEF Tell
  <2> HIDE DEF u
  <2> QED
    BY <1>1, <1>3, <1>9, <2>1, <2>2, TellKeeps DEF u
<1>10. CASE m.type = "Action" /\ Tell([type |-> "Action", by |-> p, bytes |-> m.bytes])
  <2>1. m.bytes \in Actions /\ ReadsAction(m.bytes) /\ m = [type |-> "Action", bytes |-> m.bytes]
    BY <1>2, <1>10 DEF Message, Passed
  <2>2. PICK n \in Actions : n = m.bytes
    BY <2>1
  <2> DEFINE u == [type |-> "Action", by |-> p, bytes |-> n]
  <2>3. u \in Update
    BY DEF Update
  <2>4. [type |-> "Action", bytes |-> n] \in forwarded'[p] /\ ReadsAction(n)
    BY <1>1, <1>2, <2>1, <2>2
  <2>5. \A q \in Players : Sound(q, u)'
    BY <2>4 DEF Sound
  <2>6. Agents' /\ Stable
    BY <1>6, <1>10 DEF Tell
  <2>7. Tell(u)
    BY <1>10, <2>2
  <2> HIDE DEF u
  <2> QED
    BY <1>1, <1>3, <2>3, <2>5, <2>6, <2>7, TellKeeps
<1>11. CASE m.type = "KeepAlive" /\ UNCHANGED <<seat, blamed, room, outbox>>
  BY <1>7, <1>11
<1> QED
  BY <1>4, <1>5, <1>8, <1>9, <1>10, <1>11 DEF TakeMessage

LEMMA CleanKeeps ==
  ASSUME RelayAssumption, Invariant, NEW p \in Players, Clean(p)
  PROVE  Invariant'
<1>1. /\ p \in Members /\ seat[p] = "gone" /\ inbox[p] = <<>> /\ LeaveRoom(p, "disconnect")
      /\ UNCHANGED <<seat, inbox, forwarded, told, blamed>>
  BY DEF Clean
<1>2. ~Left(p)
  BY <1>1 DEF Invariant, Agents, ReasonsPending
<1>3. room' \in Names /\ \A q \in Players : room'[q] \in {room[q], NoText}
  BY <1>1 DEF LeaveRoom, Invariant, Typed, Names
<1>4. seat' \in [Players -> Seats] /\ inbox' \in [Players -> Seq(Message)]
  BY <1>1 DEF Invariant, Typed
<1>5. Agents' /\ Stable
  BY <1>1, <1>3, <1>4, AgentsListen DEF Invariant
<1>6. "disconnect" \in Reasons
  BY DEF Reasons
<1> QED
  BY <1>1, <1>2, <1>4, <1>5, <1>6, LeaveRoomKeeps

LEMMA StartGameKeeps ==
  ASSUME Invariant, StartGame
  PROVE  Invariant'
<1> DEFINE u == [type |-> "Start"]
<1>1. Tell(u) /\ UNCHANGED <<inbox, forwarded, told, seat, room>>
  BY DEF StartGame, Tell
<1>2. u \in Update /\ \A q \in Players : Sound(q, u)'
  BY DEF Update, Sound
<1>3. /\ seat' \in [Players -> Seats] /\ room' \in Names
      /\ inbox' \in [Players -> Seq(Message)]
  BY <1>1 DEF Invariant, Typed
<1>4. Agents' /\ Stable
  BY <1>1, <1>3, AgentsListen DEF Invariant
<1> HIDE DEF u
<1> QED
  BY <1>1, <1>2, <1>3, <1>4, TellKeeps

----------------------------------------------------------------------------
(* The agents of the others. *)

LEMMA HearKeeps ==
  ASSUME RelayAssumption, Invariant, NEW p \in Players, Hear(p)
  PROVE  Invariant'
<1> DEFINE u == Head(outbox[p])
<1>1. /\ seat[p] \in {"joining", "in"} /\ outbox' = [outbox EXCEPT ![p] = Tail(@)]
      /\ outbox[p] # <<>> /\ outbox[p] \in Seq(Update)
      /\ UNCHANGED <<room, inbox, forwarded>>
  BY DEF Hear, Invariant, Typed
<1>2. u \in Update /\ Sound(p, u)
  <2>1. u = outbox[p][1] /\ 1 \in 1..Len(outbox[p]) /\ u \in Update
    BY <1>1
  <2> QED
    BY <2>1 DEF Invariant, OutboxesSound
<1>3. PICK w : w = Frame(u)
  OBVIOUS
<1>4. (Reaches(p, u) \/ (u.type = "Rejected" /\ u.by = p)) /\ Stays(w)
  <2> HIDE DEF u
  <2> QED
    BY <1>2, <1>3, SoundReaches DEF Invariant
<1>5. /\ outbox'[p] = Tail(outbox[p]) /\ outbox' \in [Players -> Seq(Update)]
      /\ \A q \in Players \ {p} : outbox'[q] = outbox[q]
  BY <1>1 DEF Invariant, Typed
<1>6. ASSUME NEW q \in Players, NEW i \in 1..Len(outbox'[q])
      PROVE  \E j \in 1..Len(outbox[q]) : outbox'[q][i] = outbox[q][j]
  <2>1. CASE q = p
    <3>1. outbox'[p][i] = outbox[p][i + 1] /\ i + 1 \in 1..Len(outbox[p])
      BY <1>1, <1>5, <1>6, <2>1
    <3> QED
      BY <2>1, <3>1
  <2>2. CASE q # p
    BY <1>5, <2>2
  <2> QED
    BY <2>1, <2>2
<1>7. /\ seat' \in [Players -> Seats] /\ room' \in Names
      /\ \A q \in Players : /\ seat[q] = "gone" => seat'[q] = "gone"
                            /\ seat'[q] = "away" => seat[q] = "away"
      /\ blamed' \in [Players -> SUBSET Players] /\ OnlyTheSenderPays'
      /\ DOMAIN told' = Players
      /\ \A q \in Players : told'[q] \subseteq told[q] \cup {w}
  <2>1. CASE Reaches(p, u)
    <3>1. /\ seat' = [seat EXCEPT ![p] = "in"] /\ blamed' = blamed
          /\ told' = [told EXCEPT ![p] = @ \cup {w}]
      BY <1>3, <2>1 DEF Hear
    <3> QED
      BY <1>1, <3>1 DEF Invariant, Typed, Seats, OnlyTheSenderPays
  <2>2. CASE ~Reaches(p, u)
    <3>1. u.by = p
      BY <1>4, <2>2
    <3>2. /\ seat' = [seat EXCEPT ![p] = "gone"] /\ told' = told
          /\ blamed' = [blamed EXCEPT ![p] = @ \cup {p}]
      BY <2>2, <3>1 DEF Hear, Ends
    <3> QED
      BY <1>1, <3>2 DEF Invariant, Typed, Seats, OnlyTheSenderPays
  <2> QED
    BY <2>1, <2>2
<1>8. Agents' /\ Stable
  BY <1>1, <1>7, AgentsListen DEF Invariant
<1>9. Typed'
  BY <1>1, <1>5, <1>7 DEF Invariant, Typed
<1>10. ASSUME NEW q \in Players, NEW v \in told'[q]
       PROVE  v \in told[q] \/ Stays(v)'
  <2>1. CASE v = w
    BY <1>4, <1>8, <2>1, ToldIsKept
  <2> QED
    BY <1>7, <2>1
<1> QED
  BY <1>1, <1>6, <1>7, <1>8, <1>9, <1>10, StepKeeps

----------------------------------------------------------------------------
LEMMA InitInvariant ==
  ASSUME Init
  PROVE  Invariant
<1>1. Typed
  BY DEF Init, Typed, Names, Seats
<1>2. Members = {}
  BY DEF Init, Members
<1> QED
  BY <1>1, <1>2 DEF Init, Invariant, Agents, ForwardedPassed, InboxesForwarded, ReasonsPending,
                    MembersGave, OutboxesSound, ToldStays, OnlyTheSenderPays, Left

LEMMA StutterKeeps ==
  ASSUME Invariant, UNCHANGED vars
  PROVE  Invariant'
<1>1. /\ UNCHANGED <<seat, room, inbox, outbox, forwarded, told, blamed>>
      /\ seat \in [Players -> Seats] /\ room \in Names
  BY DEF vars, Invariant, Typed
<1>2. Agents' /\ Stable
  BY <1>1, AgentsListen DEF Invariant
<1>3. Typed' /\ OnlyTheSenderPays'
  BY <1>1 DEF Invariant, Typed, OnlyTheSenderPays
<1> QED
  BY <1>1, <1>2, <1>3, StepKeeps

(* Every player is told what the others said, their names, their chat,     *)
(* their actions and why they left, and no message that one player's agent *)
(* passes on and the room takes ends the session of another, whatever the  *)
(* texts and for all limits that fit each other.                           *)
THEOREM RelayHolds == RelayAssumption => (Spec => []RelaysFaithfully)
<1> SUFFICES ASSUME RelayAssumption
             PROVE  Spec => []RelaysFaithfully
  OBVIOUS
<1>1. Init => Invariant
  BY InitInvariant
<1>2. Invariant /\ [Next]_vars => Invariant'
  <2> SUFFICES ASSUME Invariant, [Next]_vars
               PROVE  Invariant'
    OBVIOUS
  <2>1. CASE UNCHANGED vars
    BY <2>1, StutterKeeps
  <2>2. CASE StartGame
    BY <2>2, StartGameKeeps
  <2>3. ASSUME NEW p \in Players, NEW whole \in BOOLEAN,
               \/ \E t \in Texts, sender \in Players : ChatToHost(p, sender, t)
               \/ GameLoadedSelf(p, whole)
               \/ KeepAlive(p, whole)
               \/ \E n \in Actions : OutgoingAction(p, n, whole)
        PROVE  Invariant'
    BY <2>3, FramesKeep
  <2>4. ASSUME NEW p \in Players,
               \/ \E t \in Texts, v \in Versions : ReqJoin(p, t, v)
               \/ \E code \in Codes : LeaveRequest(p, code)
               \/ Vanish(p) \/ TakeJoin(p) \/ TakeMessage(p) \/ Clean(p) \/ Hear(p)
        PROVE  Invariant'
    BY <2>4, ReqJoinKeeps, LeaveRequestKeeps, VanishKeeps, TakeJoinKeeps, TakeMessageKeeps,
       CleanKeeps, HearKeeps
  <2> QED
    BY <2>1, <2>2, <2>3, <2>4 DEF Next
<1>3. Invariant => RelaysFaithfully
  BY DEF Invariant, ToldStays, Stays, RelaysFaithfully, HeardAsSaid
<1> QED
  BY <1>1, <1>2, <1>3, PTL DEF Spec

----------------------------------------------------------------------------
(* The search for a desync. *)

(* What is left of a sequence without its first n elements is what came    *)
(* after the n-th.                                                         *)
LEMMA RestOfSequence ==
  ASSUME NEW S, NEW s \in Seq(S), NEW n \in Nat
  PROVE  /\ SubSeq(s, n + 1, Len(s)) \in Seq(S)
         /\ Len(SubSeq(s, n + 1, Len(s))) <= Len(s)
         /\ n <= Len(s) => /\ Len(SubSeq(s, n + 1, Len(s))) = Len(s) - n
                           /\ \A i \in 1..(Len(s) - n) :
                                SubSeq(s, n + 1, Len(s))[i] = s[n + i]
  OBVIOUS

(* A sequence that grew by one keeps its elements. *)
LEMMA AppendedSequence ==
  ASSUME NEW S, NEW s \in Seq(S), NEW c \in S
  PROVE  /\ Append(s, c) \in Seq(S)
         /\ Len(Append(s, c)) = Len(s) + 1
         /\ \A i \in 1..Len(s) : Append(s, c)[i] = s[i]
         /\ Append(s, c)[Len(s) + 1] = c
  OBVIOUS

(* Rounds move from those that wait to those that were compared. *)
LEMMA RoundsMove ==
  ASSUME NEW a \in Nat, NEW b \in Nat, NEW n \in Nat, n <= b
  PROVE  a + b = (a + n) + (b - n)
  OBVIOUS

(* The initial room is just. *)
LEMMA InitJust == RoundsAssumption /\ RoundsInit => VerdictsAreJust
  <1> SUFFICES ASSUME RoundsAssumption, RoundsInit PROVE VerdictsAreJust
    OBVIOUS
  <1> USE DEF RoundsAssumption, RoundsInit
  <1>1. RoundsTypeOK
    BY DEF RoundsTypeOK, Verdicts
  <1>2. RoundsAligned
    <2> SUFFICES ASSUME NEW p \in PlayerIds
                 PROVE  /\ Len(reported[p]) = consumed + Len(queues[p])
                        /\ \A i \in 1..Len(queues[p]) : queues[p][i] = reported[p][consumed + i]
      BY DEF RoundsAligned
    <2>1. reported[p] = <<>> /\ queues[p] = <<>> /\ consumed = 0
      OBVIOUS
    <2>. QED
      BY <2>1
  <1>3. InStepSoFar /\ DesyncIsReal
    BY DEF InStepSoFar, DesyncIsReal
  <1>4. FullMeansLag
    BY DEF FullMeansLag
  <1>. QED
    BY <1>1, <1>2, <1>3, <1>4 DEF VerdictsAreJust

(* A player who goes takes its queue away and leaves its reports.          *)
LEMMA GoesJust ==
  ASSUME VerdictsAreJust, NEW p \in PlayerIds, Goes(p), RoundsAssumption,
         UNCHANGED <<verdict, consumed, reported>>
  PROVE  VerdictsAreJust'
  <1> USE DEF VerdictsAreJust, Goes
  <1>0. RoundsTypeOK /\ RoundsAssumption
    OBVIOUS
  <1>1. RoundsTypeOK'
    BY <1>0 DEF RoundsTypeOK, RoundsAssumption
  <1>2. RoundsAligned'
    BY <1>0 DEF RoundsTypeOK, RoundsAligned
  <1>3. InStepSoFar' /\ DesyncIsReal' /\ FullMeansLag'
    BY <1>0 DEF RoundsTypeOK, InStepSoFar, DesyncIsReal, FullMeansLag
  <1>. QED
    BY <1>1, <1>2, <1>3

(* A report, and the rounds it completes.                                  *)
LEMMA ReportJust ==
  ASSUME VerdictsAreJust, RoundsAssumption,
         NEW p \in PlayerIds, NEW c \in Checksums, Report(p, c)
  PROVE  VerdictsAreJust'
  <1> DEFINE qs == [queues EXCEPT ![p] = Append(@, c)]
  <1>0. RoundsTypeOK /\ RoundsAligned /\ InStepSoFar /\ DesyncIsReal /\ FullMeansLag
    BY DEF VerdictsAreJust
  <1>1. /\ p \in present /\ present \subseteq PlayerIds
        /\ queues \in [PlayerIds -> Seq(Checksums)] /\ reported \in [PlayerIds -> Seq(Checksums)]
        /\ consumed \in Nat /\ MaxPending \in Nat
        /\ reported' = [reported EXCEPT ![p] = Append(@, c)]
        /\ Len(queues[p]) < MaxPending /\ verdict \in {"playing", "desync"}
        /\ present' = present
    BY <1>0 DEF RoundsTypeOK, Report, RoundsAssumption, Verdicts
  <1>2. PICK n \in 0..MaxPending :
          /\ Consumes(present, qs, n)
          /\ queues' = Rest(qs, n)
          /\ consumed' = consumed + n
          /\ verdict' = IF n > 0 /\ ~Agree(present, qs, n) THEN "desync" ELSE verdict
    BY DEF Report
  <1>3. /\ qs \in [PlayerIds -> Seq(Checksums)]
        /\ \A q \in PlayerIds : Len(qs[q]) <= MaxPending
    <2>1. Append(queues[p], c) \in Seq(Checksums) /\ Len(Append(queues[p], c)) = Len(queues[p]) + 1
      BY <1>1, AppendedSequence
    <2>2. \A q \in PlayerIds : Len(queues[q]) <= MaxPending
      BY <1>0 DEF RoundsTypeOK
    <2>. QED
      BY <1>1, <2>1, <2>2
  <1>4. /\ reported' \in [PlayerIds -> Seq(Checksums)]
        /\ \A q \in PlayerIds : Len(reported'[q]) >= Len(reported[q])
        /\ \A q \in PlayerIds, i \in Nat \ {0} : i <= Len(reported[q]) => reported'[q][i] = reported[q][i]
    <2>1. /\ Append(reported[p], c) \in Seq(Checksums)
          /\ Len(Append(reported[p], c)) = Len(reported[p]) + 1
          /\ \A i \in 1..Len(reported[p]) : Append(reported[p], c)[i] = reported[p][i]
      BY <1>1, AppendedSequence
    <2>2. \A q \in PlayerIds : Len(reported[q]) \in Nat
      BY <1>1
    <2>. QED
      BY <1>1, <2>1, <2>2
  <1>5. \A q \in present :
          /\ Len(reported'[q]) = consumed + Len(qs[q])
          /\ \A i \in 1..Len(qs[q]) : qs[q][i] = reported'[q][consumed + i]
    <2> SUFFICES ASSUME NEW q \in present
                 PROVE  /\ Len(reported'[q]) = consumed + Len(qs[q])
                        /\ \A i \in 1..Len(qs[q]) : qs[q][i] = reported'[q][consumed + i]
      OBVIOUS
    <2>1. /\ Len(reported[q]) = consumed + Len(queues[q])
          /\ \A i \in 1..Len(queues[q]) : queues[q][i] = reported[q][consumed + i]
      BY <1>0 DEF RoundsAligned
    <2>2. CASE q # p
      BY <1>1, <2>1, <2>2
    <2>3. CASE q = p
      <3>1. /\ qs[q] = Append(queues[q], c) /\ reported'[q] = Append(reported[q], c)
            /\ queues[q] \in Seq(Checksums) /\ reported[q] \in Seq(Checksums)
        BY <1>1, <2>3
      <3>2. /\ Len(qs[q]) = Len(queues[q]) + 1 /\ Len(reported'[q]) = Len(reported[q]) + 1
            /\ \A i \in 1..Len(queues[q]) : qs[q][i] = queues[q][i]
            /\ \A i \in 1..Len(reported[q]) : reported'[q][i] = reported[q][i]
            /\ qs[q][Len(queues[q]) + 1] = c /\ reported'[q][Len(reported[q]) + 1] = c
            /\ Len(queues[q]) \in Nat /\ Len(reported[q]) \in Nat
        BY <3>1, AppendedSequence
      <3>3. ASSUME NEW i \in 1..Len(qs[q]) PROVE qs[q][i] = reported'[q][consumed + i]
        <4>1. CASE i = Len(queues[q]) + 1
          BY <4>1, <3>2, <2>1, <1>1
        <4>2. CASE i \in 1..Len(queues[q])
          <5>1. consumed + i \in 1..Len(reported[q])
            BY <4>2, <2>1, <3>2, <1>1
          <5>. QED
            BY <5>1, <4>2, <3>2, <2>1
        <4>. QED
          BY <4>1, <4>2, <3>2
      <3>. QED
        BY <3>2, <3>3, <2>1, <1>1
    <2>. QED
      BY <2>2, <2>3
  <1> HIDE DEF qs
  <1>6. \A q \in present : n <= Len(qs[q])
    <2>1. \A q \in present : qs[q] \in Seq(Checksums)
      BY <1>1, <1>3
    <2>. QED
      BY <2>1, <1>2 DEF Consumes, Complete
  <1>7. /\ queues' \in [PlayerIds -> Seq(Checksums)]
        /\ \A q \in PlayerIds : Len(queues'[q]) <= MaxPending
        /\ \A q \in present : /\ Len(queues'[q]) = Len(qs[q]) - n
                              /\ \A i \in 1..(Len(qs[q]) - n) : queues'[q][i] = qs[q][n + i]
    <2>1. ASSUME NEW q \in PlayerIds
          PROVE  /\ queues'[q] \in Seq(Checksums) /\ Len(queues'[q]) <= MaxPending
                 /\ n <= Len(qs[q]) =>
                      /\ Len(queues'[q]) = Len(qs[q]) - n
                      /\ \A i \in 1..(Len(qs[q]) - n) : queues'[q][i] = qs[q][n + i]
      <3>1. queues'[q] = SubSeq(qs[q], n + 1, Len(qs[q])) /\ n \in Nat
        BY <1>2, <1>1 DEF Rest
      <3>2. qs[q] \in Seq(Checksums) /\ Len(qs[q]) <= MaxPending
        BY <1>3
      <3> DEFINE s == qs[q]
      <3>3. s \in Seq(Checksums)
        BY <3>2
      <3> HIDE DEF s
      <3>4. /\ SubSeq(s, n + 1, Len(s)) \in Seq(Checksums)
            /\ Len(SubSeq(s, n + 1, Len(s))) <= Len(s)
            /\ n <= Len(s) => /\ Len(SubSeq(s, n + 1, Len(s))) = Len(s) - n
                              /\ \A i \in 1..(Len(s) - n) :
                                   SubSeq(s, n + 1, Len(s))[i] = s[n + i]
        BY <3>1, <3>3, RestOfSequence
      <3>5. Len(SubSeq(s, n + 1, Len(s))) \in Nat /\ Len(s) \in Nat
        BY <3>3, <3>4
      <3>6. Len(SubSeq(s, n + 1, Len(s))) <= MaxPending
        BY <3>4, <3>5, <3>2, <1>1 DEF s
      <3>. QED
        BY <3>1, <3>4, <3>6 DEF s
    <2>2. queues' = [q \in PlayerIds |-> SubSeq(qs[q], n + 1, Len(qs[q]))]
      BY <1>2 DEF Rest
    <2>3. queues' \in [PlayerIds -> Seq(Checksums)]
      BY <2>1, <2>2
    <2>. QED
      BY <2>1, <2>3, <1>6, <1>1
  <1>8. RoundsTypeOK'
    <2>1. verdict' \in Verdicts /\ consumed' \in Nat
      BY <1>1, <1>2 DEF Verdicts
    <2>. QED
      BY <1>1, <1>4, <1>7, <2>1 DEF RoundsTypeOK
  <1>9. RoundsAligned'
    <2> SUFFICES ASSUME NEW q \in present
                 PROVE  /\ Len(reported'[q]) = consumed' + Len(queues'[q])
                        /\ \A i \in 1..Len(queues'[q]) :
                             queues'[q][i] = reported'[q][consumed' + i]
      BY <1>1 DEF RoundsAligned
    <2>1. Len(qs[q]) \in Nat
      BY <1>1, <1>3
    <2>2. n <= Len(qs[q]) /\ n \in Nat /\ consumed' = consumed + n /\ consumed \in Nat
      BY <1>2, <1>6, <1>1
    <2>3. /\ Len(reported'[q]) = consumed + Len(qs[q])
          /\ \A i \in 1..Len(qs[q]) : qs[q][i] = reported'[q][consumed + i]
          /\ Len(queues'[q]) = Len(qs[q]) - n
          /\ \A i \in 1..(Len(qs[q]) - n) : queues'[q][i] = qs[q][n + i]
      BY <1>5, <1>7
    <2>4. ASSUME NEW i \in 1..Len(queues'[q])
          PROVE  queues'[q][i] = reported'[q][consumed' + i]
      <3> DEFINE l == Len(qs[q])
      <3>a. i \in 1..(l - n) /\ l \in Nat /\ n <= l
        BY <2>1, <2>2, <2>3
      <3> HIDE DEF l
      <3>b. n + i \in 1..l /\ consumed + (n + i) = consumed' + i
        BY <2>2, <3>a
      <3>1. /\ i \in 1..(Len(qs[q]) - n) /\ n + i \in 1..Len(qs[q])
            /\ consumed + (n + i) = consumed' + i
        BY <3>a, <3>b DEF l
      <3>2. queues'[q][i] = qs[q][n + i] /\ qs[q][n + i] = reported'[q][consumed + (n + i)]
        BY <3>1, <2>3
      <3>. QED
        BY <3>1, <3>2
    <2>5. Len(reported'[q]) = consumed' + Len(queues'[q])
      <3>1. Len(reported'[q]) = consumed + Len(qs[q]) /\ Len(queues'[q]) = Len(qs[q]) - n
        BY <2>3
      <3>2. consumed + Len(qs[q]) = (consumed + n) + (Len(qs[q]) - n)
        BY <2>1, <2>2, RoundsMove
      <3>. QED
        BY <3>1, <3>2, <2>2
    <2>. QED
      BY <2>4, <2>5
  <1>10. \A i \in 1..n : Agree(present, qs, i) =>
           \A q, r \in present : reported'[q][consumed + i] = reported'[r][consumed + i]
    <2> SUFFICES ASSUME NEW i \in 1..n, Agree(present, qs, i),
                        NEW q \in present, NEW r \in present
                 PROVE  reported'[q][consumed + i] = reported'[r][consumed + i]
      OBVIOUS
    <2>1. /\ Len(qs[q]) \in Nat /\ Len(qs[r]) \in Nat
          /\ n <= Len(qs[q]) /\ n <= Len(qs[r])
      BY <1>1, <1>3, <1>6
    <2>2. i \in 1..Len(qs[q]) /\ i \in 1..Len(qs[r])
      BY <2>1, <1>2
    <2>3. qs[q][i] = reported'[q][consumed + i] /\ qs[r][i] = reported'[r][consumed + i]
      BY <2>2, <1>5
    <2>. QED
      BY <2>3 DEF Agree
  <1>11. InStepSoFar'
    <2> SUFFICES ASSUME verdict' = "playing", NEW q \in present, NEW r \in present,
                        NEW i \in 1..consumed'
                 PROVE  reported'[q][i] = reported'[r][i]
      BY <1>1 DEF InStepSoFar
    <2>1. verdict = "playing" /\ (n > 0 => Agree(present, qs, n))
      BY <1>2
    <2>2. \A j \in 1..n : Agree(present, qs, j)
      <3>1. \A j \in 1..(n - 1) : Agree(present, qs, j)
        BY <1>2 DEF Consumes, Stops
      <3>2. \A j \in 1..n : j \in 1..(n - 1) \/ (j = n /\ n > 0)
        BY <1>2
      <3>. QED
        BY <3>1, <3>2, <2>1
    <2>3. CASE i <= consumed
      <3>1. i \in 1..consumed
        BY <2>3, <1>1, <1>2
      <3>2. /\ reported[q][i] = reported[r][i] /\ i \in Nat \ {0}
            /\ i <= Len(reported[q]) /\ i <= Len(reported[r])
        <4>1. reported[q][i] = reported[r][i]
          BY <3>1, <2>1, <1>0 DEF InStepSoFar
        <4>2. /\ Len(reported[q]) = consumed + Len(queues[q])
              /\ Len(reported[r]) = consumed + Len(queues[r])
              /\ Len(queues[q]) \in Nat /\ Len(queues[r]) \in Nat
          BY <1>0, <1>1 DEF RoundsAligned
        <4>. QED
          BY <3>1, <4>1, <4>2, <1>1
      <3>3. q \in PlayerIds /\ r \in PlayerIds
        BY <1>1
      <3>4. reported'[q][i] = reported[q][i] /\ reported'[r][i] = reported[r][i]
        BY <3>2, <3>3, <1>4
      <3>. QED
        BY <3>2, <3>4
    <2>4. CASE i > consumed
      <3>1. PICK j \in 1..n : i = consumed + j
        <4>1. i - consumed \in 1..n /\ i = consumed + (i - consumed)
          BY <2>4, <1>1, <1>2
        <4>. QED
          BY <4>1
      <3>. QED
        BY <3>1, <2>2, <1>10
    <2>5. i <= consumed \/ i > consumed
      <3>1. consumed \in Nat /\ n \in Nat /\ consumed' = consumed + n
        BY <1>1, <1>2
      <3>. QED
        BY <3>1
    <2>. QED
      BY <2>3, <2>4, <2>5
  <1>12. DesyncIsReal'
    <2> SUFFICES ASSUME verdict' # "playing"
                 PROVE  \E q, r \in PlayerIds, i \in 1..consumed' :
                          /\ i <= Len(reported'[q]) /\ i <= Len(reported'[r])
                          /\ reported'[q][i] # reported'[r][i]
      BY DEF DesyncIsReal
    <2>1. CASE n > 0 /\ ~Agree(present, qs, n)
      <3>1. PICK q \in present, r \in present : qs[q][n] # qs[r][n]
        BY <2>1 DEF Agree
      <3>2. n \in 1..Len(qs[q]) /\ n \in 1..Len(qs[r])
        BY <2>1, <1>1, <1>3, <1>6
      <3>3. reported'[q][consumed + n] # reported'[r][consumed + n]
        BY <3>1, <3>2, <1>5
      <3>4. consumed + n <= Len(reported'[q]) /\ consumed + n <= Len(reported'[r])
        <4>1. /\ Len(reported'[q]) = consumed + Len(qs[q])
              /\ Len(reported'[r]) = consumed + Len(qs[r])
          BY <1>5
        <4>2. /\ n <= Len(qs[q]) /\ n <= Len(qs[r])
              /\ Len(qs[q]) \in Nat /\ Len(qs[r]) \in Nat
          BY <1>1, <1>3, <1>6
        <4>. QED
          BY <4>1, <4>2, <1>1, <1>2
      <3>5. consumed + n \in 1..consumed' /\ q \in PlayerIds /\ r \in PlayerIds
        BY <2>1, <1>1, <1>2
      <3>. QED
        BY <3>3, <3>4, <3>5
    <2>2. CASE ~(n > 0 /\ ~Agree(present, qs, n))
      <3>1. verdict # "playing"
        BY <2>2, <1>2
      <3>2. PICK q \in PlayerIds, r \in PlayerIds, i \in 1..consumed :
              /\ i <= Len(reported[q]) /\ i <= Len(reported[r])
              /\ reported[q][i] # reported[r][i]
        BY <3>1, <1>0 DEF DesyncIsReal
      <3>3. i \in 1..consumed' /\ i \in Nat \ {0}
        BY <1>1, <1>2
      <3>4. /\ i <= Len(reported'[q]) /\ i <= Len(reported'[r])
        <4>1. /\ Len(reported[q]) \in Nat /\ Len(reported'[q]) \in Nat
              /\ Len(reported[r]) \in Nat /\ Len(reported'[r]) \in Nat
          BY <1>1, <1>4
        <4>. QED
          BY <4>1, <3>2, <3>3, <1>4
      <3>5. reported'[q][i] # reported'[r][i]
        BY <3>2, <3>3, <1>4
      <3>. QED
        BY <3>3, <3>4, <3>5
    <2>. QED
      BY <2>1, <2>2
  <1>13. FullMeansLag'
    <2> SUFFICES ASSUME verdict' = "playing"
                 PROVE  \E q \in PlayerIds : Len(reported'[q]) = consumed'
      BY DEF FullMeansLag
    <2>1. ~(n > 0 /\ ~Agree(present, qs, n))
      BY <1>2
    <2>2. PICK q \in present : n = Len(qs[q])
      BY <2>1, <1>2 DEF Consumes, Stops
    <2>. QED
      BY <2>2, <1>1, <1>2, <1>5
  <1>. QED
    BY <1>8, <1>9, <1>11, <1>12, <1>13 DEF VerdictsAreJust

(* For every number of players, checksums and places in a queue: a desync  *)
(* that ends the game is one, rounds are never shifted against each other, *)
(* and a session is refused only when a player is a whole queue behind.    *)
THEOREM VerdictsHold == RoundsAssumption => (RoundsSpec => []VerdictsAreJust)
  <1> SUFFICES ASSUME RoundsAssumption PROVE RoundsSpec => []VerdictsAreJust
    OBVIOUS
  <1>1. RoundsInit => VerdictsAreJust
    BY InitJust
  <1>2. VerdictsAreJust /\ [RoundsNext]_roundsVars => VerdictsAreJust'
    <2> SUFFICES ASSUME VerdictsAreJust, [RoundsNext]_roundsVars PROVE VerdictsAreJust'
      OBVIOUS
    <2>1. ASSUME NEW p \in PlayerIds, NEW c \in Checksums, Report(p, c) PROVE VerdictsAreJust'
      BY <2>1, ReportJust
    <2>2. ASSUME NEW p \in PlayerIds, Leave(p) \/ RefuseKeepalive(p) PROVE VerdictsAreJust'
      BY <2>2, GoesJust DEF Leave, RefuseKeepalive
    <2>3. CASE EndGame
      BY <2>3 DEF EndGame, VerdictsAreJust, RoundsTypeOK, Verdicts, RoundsAligned, InStepSoFar,
                  DesyncIsReal, FullMeansLag
    <2>4. CASE UNCHANGED roundsVars
      BY <2>4 DEF roundsVars, VerdictsAreJust, RoundsTypeOK, RoundsAligned, InStepSoFar, DesyncIsReal,
                  FullMeansLag
    <2>. QED
      BY <2>1, <2>2, <2>3, <2>4 DEF RoundsNext
  <1>. QED
    BY <1>1, <1>2, PTL DEF RoundsSpec

----------------------------------------------------------------------------
(* What Warcraft is told of the others: the inductive invariant. *)

HasRoster(u) == u.type \in {"Roster", "PlayerLeft"}

OnePerId(them) == \A p, q \in them : p.id = q.id => p = q

OnTheWay == {queue[k] : k \in DOMAIN queue}

(* The rosters that the agent has or may come to have. *)
Rosters ==
  {agent.roster} \cup {w.roster : w \in {v \in OnTheWay : HasRoster(v)}}
  \cup {u.update.roster : u \in {t \in unsent : t.update.type = "Roster"}}

RoomInv ==
  /\ \A p, q \in players : p.id = q.id \/ p.name = q.name => p = q
  /\ loaded \subseteq IdsOf(players)
  /\ ~started => loaded = {} /\ ~playing
  /\ playing => IdsOf(players) \subseteq loaded
  /\ \A u \in unsent : /\ u.update.type \in {"Roster", "Chat"}
                       /\ u.update.type = "Roster" => ~started

(* Each is one that the room had, the latest that of now. *)
OfRoom(r, now, them) ==
  OnePerId(r.players) /\ r.revision <= now /\ (r.revision = now => r.players = them)

RostersInv ==
  /\ \A r \in Rosters : OfRoom(r, revision, players)
  /\ \A r, s \in Rosters : r.revision = s.revision => r.players = s.players

QueueInv ==
  \A w \in OnTheWay : /\ w.type \in {"Start", "PlayerLoaded", "PlayerLeft"} => started
                      /\ w.type = "GameFrame" => playing

(* Who has left is in no later roster, but the agent is. *)
GoneFrom(w, r) == r.revision >= w.roster.revision => w.player \notin IdsOf(r.players)

LeftInv ==
  \A w \in OnTheWay : w.type = "PlayerLeft" =>
    /\ w.player \notin IdsOf(players)
    /\ stage = "member" => agent.id \in IdsOf(w.roster.players)
    /\ \A r \in Rosters : GoneFrom(w, r)

MemberInv ==
  stage = "member" =>
    /\ [id |-> agent.id, name |-> Me] \in players
    /\ agent.id \in IdsOf(agent.roster.players)
    /\ agent.started => started
    /\ view.known = Remote(agent.roster, agent.id)
    /\ ~agent.started => view.slots = SlotsOf(agent.roster)
    /\ view.started = agent.started /\ view.loaded = agent.loaded

(* What is on its way brings the agent up to date. *)
ComesInv ==
  stage = "member" /\ ~lagged =>
    /\ \E r \in Rosters : r.revision = revision
    /\ started => agent.started \/ \E w \in OnTheWay : w.type = "Start"
    /\ \A i \in loaded : i \in agent.loaded
         \/ \E w \in OnTheWay : w.type = "PlayerLoaded" /\ w.player = i

(* The roster before a leave is there when the leave comes. *)
Precedes(r, w) ==
  r.revision + 1 = w.roster.revision /\ w.roster.players = {p \in r.players : p.id # w.player}

IsNews(u) == HasRoster(u) /\ u.roster.revision > agent.roster.revision

ChainInv ==
  stage = "member" /\ ~lagged =>
    \A k \in DOMAIN queue : queue[k].type = "PlayerLeft" /\ IsNews(queue[k]) =>
      \/ Precedes(agent.roster, queue[k])
      \/ \E j \in 1..(k - 1) : IsNews(queue[j]) /\ Precedes(queue[j].roster, queue[k])

(* Whom Warcraft knows when a frame of the game comes has loaded by then,  *)
(* or was taken away.                                                      *)
LoadsBy(i, r, k, updates, already) ==
  \/ i \in already
  \/ \E j \in 1..(k - 1) : updates[j].type = "PlayerLoaded" /\ updates[j].player = i
  \/ \E j \in 1..(k - 1) : /\ HasRoster(updates[j]) /\ updates[j].roster.revision > r.revision
                           /\ i \notin IdsOf(updates[j].roster.players)

AllLoadBy(r, k, updates, already) == \A i \in IdsOf(r.players) : LoadsBy(i, r, k, updates, already)

FrameInv ==
  stage = "member" /\ ~lagged =>
    \A k \in DOMAIN queue : queue[k].type = "GameFrame" =>
      /\ AllLoadBy(agent.roster, k, queue, agent.loaded)
      /\ \A m \in 1..(k - 1) :
           IsNews(queue[m]) => AllLoadBy(queue[m].roster, k, queue, agent.loaded)

Views == [known: SUBSET Player, slots: SUBSET Ids, started: BOOLEAN, loaded: SUBSET Ids,
          misled: BOOLEAN]

ViewTyped == view \in Views

RosterInv ==
  /\ RosterTypeOK /\ ViewTyped /\ view.misled = FALSE
  /\ RoomInv /\ RostersInv /\ QueueInv /\ LeftInv /\ MemberInv
  /\ ComesInv /\ ChainInv /\ FrameInv


----------------------------------------------------------------------------
(* Updates, and what sending one changes. *)

LEMMA UpdateTyped ==
  ASSUME NEW u \in Updates
  PROVE  /\ u.type \in {"Roster", "Chat", "PlayerLoaded", "PlayerLeft", "Start", "GameFrame"}
         /\ HasRoster(u) => u.roster \in Roster
         /\ u.type \in {"Chat", "PlayerLoaded", "PlayerLeft"} => u.player \in Ids
<1>1. CASE u \in [type: {"Roster"}, roster: Roster]
  BY <1>1 DEF HasRoster
<1>2. CASE u \in [type: {"Chat", "PlayerLoaded"}, player: Ids]
  BY <1>2 DEF HasRoster
<1>3. CASE u \in [type: {"PlayerLeft"}, player: Ids, roster: Roster]
  BY <1>3 DEF HasRoster
<1>4. CASE u \in [type: {"Start", "GameFrame"}]
  BY <1>4 DEF HasRoster
<1> QED
  BY <1>1, <1>2, <1>3, <1>4 DEF Updates

LEMMA UpdatesMade ==
  /\ \A r \in Roster : [type |-> "Roster", roster |-> r] \in Updates
  /\ \A i \in Ids : [type |-> "Chat", player |-> i] \in Updates
  /\ \A i \in Ids : [type |-> "PlayerLoaded", player |-> i] \in Updates
  /\ \A i \in Ids, r \in Roster : [type |-> "PlayerLeft", player |-> i, roster |-> r] \in Updates
  /\ [type |-> "Start"] \in Updates /\ [type |-> "GameFrame"] \in Updates
  BY DEF Updates

(* The channel keeps the newest updates; a receiver that has not lagged    *)
(* has every one.                                                          *)
Sent(u) ==
  /\ queue' \in Seq(Updates) /\ Len(queue') <= Capacity /\ lagged' \in BOOLEAN
  /\ \A k \in DOMAIN queue' : queue'[k] = u \/ \E j \in DOMAIN queue : queue'[k] = queue[j]
  /\ ~lagged' => ~lagged
  /\ ~lagged' /\ stage = "member" => queue' = Append(queue, u)

LEMMA Publishes ==
  ASSUME RosterTypeOK, NEW u \in Updates, Publish(<<u>>)
  PROVE  Sent(u)
<1>1. /\ queue \in Seq(Updates) /\ Len(queue) <= Capacity /\ lagged \in BOOLEAN
      /\ Len(queue) \in Nat /\ Capacity \in Nat /\ Capacity >= 1
  BY RosterAssumption DEF RosterAssumption, RosterTypeOK
<1>2. CASE stage \in {"asking", "member"}
  <2> DEFINE q == queue \o <<u>>
             l == Len(queue) + 1
  <2>1. q = Append(queue, u) /\ q \in Seq(Updates) /\ Len(q) = l /\ l \in Nat
    BY <1>1, AppendIsConcat, AppendProperties
  <2>2. /\ \A k \in 1..Len(queue) : q[k] = queue[k]
        /\ q[l] = u
    BY <1>1, <2>1, AppendProperties
  <2>3. queue' = Newest(q) /\ lagged' = (lagged \/ Len(q) > Capacity)
    BY <1>2 DEF Publish
  <2> HIDE DEF q, l
  <2>4. \A k \in 1..l : q[k] = u \/ \E j \in DOMAIN queue : q[k] = queue[j]
    BY <1>1, <2>2 DEF l
  <2>5. CASE l <= Capacity
    <3>1. queue' = q
      <4>1. queue' = SubSeq(q, 1, Len(q))
        BY <1>1, <2>1, <2>3, <2>5 DEF Newest
      <4> QED
        BY <2>1, <4>1, SubSeqFull
    <3> QED
      BY <1>1, <2>1, <2>3, <2>4, <2>5, <3>1 DEF Sent
  <2>6. CASE ~(l <= Capacity)
    <3> DEFINE m == l - Capacity + 1
    <3>0. Len(q) > Capacity /\ l \in Int
      BY <1>1, <2>1, <2>6 DEF l
    <3>1. m \in 1..l /\ m \in Int /\ l \in Int /\ m <= l /\ l - m + 1 = Capacity
      BY <1>1, <2>1, <2>6 DEF l
    <3>2. queue' = SubSeq(q, m, l)
      <4>1. queue' = SubSeq(q, Len(q) - Capacity + 1, Len(q))
        BY <2>3, <3>0 DEF Newest
      <4> QED
        BY <2>1, <4>1
    <3> HIDE DEF m
    <3>3. \A k \in m..l : q[k] \in Updates
      BY <2>1, <3>1
    <3>4. /\ SubSeq(q, m, l) \in Seq(Updates)
          /\ Len(SubSeq(q, m, l)) = (IF m <= l THEN l - m + 1 ELSE 0)
          /\ \A k \in 1..(l - m + 1) : SubSeq(q, m, l)[k] = q[m + k - 1]
      BY <3>1, <3>3, SubSeqProperties
    <3>5. queue' \in Seq(Updates) /\ Len(queue') = Capacity
          /\ \A k \in 1..Capacity : queue'[k] = q[m + k - 1]
      BY <3>1, <3>2, <3>4
    <3>6. ASSUME NEW k \in DOMAIN queue'
          PROVE  queue'[k] = u \/ \E j \in DOMAIN queue : queue'[k] = queue[j]
      <4>1. k \in 1..Capacity
        BY <3>5
      <4>2. m + k - 1 \in 1..l
        BY <1>1, <3>1, <4>1
      <4>3. queue'[k] = q[m + k - 1]
        BY <3>5, <4>1
      <4> QED
        BY <2>4, <4>2, <4>3
    <3>7. lagged' = TRUE
      BY <2>3, <3>0
    <3> QED
      BY <1>1, <3>5, <3>6, <3>7 DEF Sent
  <2> QED
    BY <2>5, <2>6
<1>3. CASE stage \notin {"asking", "member"}
  <2>1. queue' = queue /\ lagged' = lagged
    BY <1>3 DEF Publish
  <2> QED
    BY <1>1, <1>3, <2>1 DEF Sent
<1> QED
  BY <1>2, <1>3

(* A receiver that has not lagged has one more update, the last. *)
Grown(u) ==
  /\ ~lagged /\ DOMAIN queue = 1..Len(queue) /\ Len(queue) \in Nat
  /\ DOMAIN queue' = 1..(Len(queue) + 1)
  /\ queue'[Len(queue) + 1] = u
  /\ \A k \in 1..Len(queue) : queue'[k] = queue[k]

LEMMA QueueGrows ==
  ASSUME RosterTypeOK, NEW u \in Updates, Sent(u), stage = "member", ~lagged'
  PROVE  Grown(u)
<1>1. queue \in Seq(Updates) /\ ~lagged /\ queue' = Append(queue, u)
  BY DEF Sent, RosterTypeOK
<1>2. Len(queue) \in Nat /\ DOMAIN queue = 1..Len(queue)
  BY <1>1
<1> QED
  BY <1>1, <1>2, AppendProperties DEF Grown

LEMMA OnTheWayThen ==
  ASSUME RosterTypeOK, NEW u \in Updates, Sent(u)
  PROVE  /\ OnTheWay' \subseteq OnTheWay \cup {u}
         /\ ~lagged' /\ stage = "member" => ~lagged /\ OnTheWay' = OnTheWay \cup {u}
<1>1. OnTheWay' \subseteq OnTheWay \cup {u}
  BY DEF Sent, OnTheWay
<1>2. ASSUME ~lagged', stage = "member"
      PROVE  ~lagged /\ OnTheWay \cup {u} \subseteq OnTheWay'
  <2>1. Grown(u)
    BY <1>2, QueueGrows
  <2>2. u \in OnTheWay'
    BY <2>1 DEF Grown, OnTheWay
  <2>3. OnTheWay \subseteq OnTheWay'
    BY <2>1 DEF Grown, OnTheWay
  <2> QED
    BY <2>1, <2>2, <2>3 DEF Grown
<1> QED
  BY <1>1, <1>2

LEMMA LoadsKept ==
  ASSUME NEW r, NEW k \in Nat, NEW already, NEW before, NEW after,
         \A j \in 1..(k - 1) : after[j] = before[j], AllLoadBy(r, k, before, already)
  PROVE  AllLoadBy(r, k, after, already)
<1> SUFFICES ASSUME NEW i \in IdsOf(r.players) PROVE LoadsBy(i, r, k, after, already)
  BY DEF AllLoadBy
<1>1. LoadsBy(i, r, k, before, already)
  BY DEF AllLoadBy
<1> QED
  BY <1>1 DEF LoadsBy

LEMMA FramesKept ==
  ASSUME RosterTypeOK, FrameInv, NEW u \in Updates, Sent(u), u.type # "GameFrame",
         stage' = stage, agent' = agent
  PROVE  FrameInv'
<1> SUFFICES ASSUME stage = "member", ~lagged', NEW k \in DOMAIN queue', queue'[k].type = "GameFrame"
             PROVE  /\ AllLoadBy(agent.roster, k, queue', agent.loaded)
                    /\ \A m \in 1..(k - 1) :
                         IsNews(queue'[m]) => AllLoadBy(queue'[m].roster, k, queue', agent.loaded)
  BY DEF FrameInv, IsNews
<1>1. Grown(u)
  BY QueueGrows
<1>2. k \in 1..Len(queue) /\ k \in DOMAIN queue /\ queue[k].type = "GameFrame" /\ k \in Nat
  BY <1>1 DEF Grown
<1>3. \A j \in 1..(k - 1) : queue'[j] = queue[j]
  BY <1>1, <1>2 DEF Grown
<1>4. /\ AllLoadBy(agent.roster, k, queue, agent.loaded)
      /\ \A m \in 1..(k - 1) :
           IsNews(queue[m]) => AllLoadBy(queue[m].roster, k, queue, agent.loaded)
  BY <1>1, <1>2 DEF FrameInv, Grown
<1>5. AllLoadBy(agent.roster, k, queue', agent.loaded)
  BY <1>2, <1>3, <1>4, LoadsKept
<1>6. ASSUME NEW m \in 1..(k - 1), IsNews(queue'[m])
      PROVE  AllLoadBy(queue'[m].roster, k, queue', agent.loaded)
  <2>1. queue'[m] = queue[m]
    BY <1>3
  <2>2. AllLoadBy(queue'[m].roster, k, queue, agent.loaded)
    BY <1>4, <1>6, <2>1
  <2> QED
    BY <1>2, <1>3, <2>2, LoadsKept
<1> QED
  BY <1>5, <1>6

(* The roster before the leave of queue'[k], if u itself is one. *)
LeaveFollows(u) ==
  u.type = "PlayerLeft" /\ IsNews(u) =>
    \/ Precedes(agent.roster, u)
    \/ \E w \in OnTheWay : IsNews(w) /\ Precedes(w.roster, u)

LEMMA ChainKept ==
  ASSUME RosterTypeOK, ChainInv, NEW u \in Updates, Sent(u), stage' = stage, agent' = agent,
         stage = "member" /\ ~lagged => LeaveFollows(u)
  PROVE  ChainInv'
<1> SUFFICES ASSUME stage = "member", ~lagged', NEW k \in DOMAIN queue',
                    queue'[k].type = "PlayerLeft", IsNews(queue'[k])
             PROVE  \/ Precedes(agent.roster, queue'[k])
                    \/ \E j \in 1..(k - 1) : IsNews(queue'[j]) /\ Precedes(queue'[j].roster, queue'[k])
  BY DEF ChainInv, IsNews
<1>1. Grown(u)
  BY QueueGrows
<1>2. CASE k \in 1..Len(queue)
  <2>1. queue'[k] = queue[k] /\ k \in DOMAIN queue /\ \A j \in 1..(k - 1) : queue'[j] = queue[j]
    BY <1>1, <1>2 DEF Grown
  <2>2. \/ Precedes(agent.roster, queue[k])
        \/ \E j \in 1..(k - 1) : IsNews(queue[j]) /\ Precedes(queue[j].roster, queue[k])
    BY <1>1, <2>1 DEF ChainInv, Grown
  <2> QED
    BY <2>1, <2>2
<1>3. CASE k = Len(queue) + 1
  <2>1. queue'[k] = u /\ LeaveFollows(u)
    BY <1>1, <1>3 DEF Grown
  <2>2. CASE Precedes(agent.roster, u)
    BY <2>1, <2>2
  <2>3. ASSUME NEW w \in OnTheWay, IsNews(w), Precedes(w.roster, u)
        PROVE  \E j \in 1..(k - 1) : IsNews(queue'[j]) /\ Precedes(queue'[j].roster, queue'[k])
    <3>1. PICK j \in 1..Len(queue) : w = queue[j]
      BY <1>1 DEF OnTheWay, Grown
    <3>2. j \in 1..(k - 1) /\ queue'[j] = w
      BY <1>1, <1>3, <3>1 DEF Grown
    <3> QED
      BY <2>1, <2>3, <3>2
  <2> QED
    BY <2>1, <2>2, <2>3 DEF LeaveFollows
<1> QED
  BY <1>1, <1>2, <1>3 DEF Grown

LEMMA RosterTyped ==
  ASSUME RosterTypeOK
  PROVE  /\ \A w \in OnTheWay : w \in Updates
         /\ \A r \in Rosters : r \in Roster /\ r.revision \in Nat
         /\ agent.roster \in Rosters /\ revision \in Nat
         /\ \A w \in OnTheWay : HasRoster(w) => w.roster \in Rosters
         /\ \A t \in unsent : t.update \in Updates
<1>1. \A w \in OnTheWay : w \in Updates
  BY DEF RosterTypeOK, OnTheWay
<1>2. \A t \in unsent : t.update \in Updates
  BY DEF RosterTypeOK
<1>3. agent.roster \in Roster /\ revision \in Nat
  BY RosterAssumption DEF RosterTypeOK, RosterAssumption
<1>4. \A w \in OnTheWay : HasRoster(w) => w.roster \in Roster
  BY <1>1, UpdateTyped
<1>5. \A t \in unsent : t.update.type = "Roster" => t.update.roster \in Roster
  BY <1>2, UpdateTyped DEF HasRoster
<1>6. \A r \in Rosters : r \in Roster
  BY <1>3, <1>4, <1>5 DEF Rosters
<1>7. \A r \in Roster : r.revision \in Nat
  BY RosterAssumption DEF Roster, RosterAssumption
<1> QED
  BY <1>1, <1>2, <1>3, <1>6, <1>7 DEF Rosters

(* An update is sent: the rosters there are then. *)
LEMMA RostersSent ==
  ASSUME RosterTypeOK, NEW u \in Updates, Sent(u), unsent' \subseteq unsent, agent' = agent
  PROVE  \A r \in Rosters' : r \in Rosters \/ (HasRoster(u) /\ r = u.roster)
<1>1. OnTheWay' \subseteq OnTheWay \cup {u}
  BY OnTheWayThen
<1> QED
  BY <1>1 DEF Rosters

LEMMA RostersGrow ==
  ASSUME RosterTypeOK, RostersInv, OnePerId(players'),
         \A r \in Rosters' : r \in Rosters \/ r = CurrentRoster(revision', players'),
         (revision' = revision /\ players' = players) \/ revision' = revision + 1
  PROVE  RostersInv'
<1> DEFINE now == CurrentRoster(revision', players')
<1>1. now.revision = revision' /\ now.players = players'
  BY DEF CurrentRoster
<1>2. revision \in Nat /\ \A r \in Rosters : r.revision \in Nat
  BY RosterTyped
<1>3. \A r \in Rosters : OfRoom(r, revision, players)
  BY DEF RostersInv
<1>4. \A r \in Rosters : OfRoom(r, revision', players')
  BY <1>2, <1>3 DEF OfRoom
<1>5. OfRoom(now, revision', players')
  BY <1>1, <1>2 DEF OfRoom
<1> HIDE DEF now
<1>6. \A r \in Rosters' : r \in Rosters \/ r = now
  BY DEF now
<1>7. \A r \in Rosters' : OfRoom(r, revision', players')
  BY <1>4, <1>5, <1>6
<1>8. ASSUME NEW r \in Rosters', NEW s \in Rosters', r.revision = s.revision
      PROVE  r.players = s.players
  <2>1. CASE r \in Rosters /\ s \in Rosters
    BY <1>8, <2>1 DEF RostersInv
  <2>2. CASE r = now
    BY <1>1, <1>7, <1>8, <2>2 DEF OfRoom
  <2>3. CASE s = now
    BY <1>1, <1>7, <1>8, <2>3 DEF OfRoom
  <2> QED
    BY <1>6, <2>1, <2>2, <2>3
<1> QED
  BY <1>7, <1>8 DEF RostersInv

(* The room changes only what tasks have to send: the session is as it was. *)
LEMMA SessionKept ==
  ASSUME RosterInv, queue' = queue, lagged' = lagged, stage' = stage, agent' = agent, view' = view
  PROVE  /\ OnTheWay' = OnTheWay /\ ViewTyped' /\ view'.misled = FALSE
         /\ ChainInv' /\ FrameInv'
<1>1. OnTheWay' = OnTheWay
  BY DEF OnTheWay
<1>2. ViewTyped' /\ view'.misled = FALSE
  BY DEF RosterInv, ViewTyped
<1>3. ChainInv'
  BY DEF RosterInv, ChainInv, IsNews
<1>4. FrameInv'
  BY DEF RosterInv, FrameInv, IsNews
<1> QED
  BY <1>1, <1>2, <1>3, <1>4

LEMMA ChatKeeps ==
  ASSUME RosterInv, NEW p \in players, OtherChats(p)
  PROVE  RosterInv'
<1> DEFINE t == [by |-> p.name, update |-> [type |-> "Chat", player |-> p.id]]
<1>1. /\ unsent' = unsent \cup {t} /\ t.update.type = "Chat"
      /\ t \in [by: Everybody, update: Updates]
  <2>1. p.id \in Ids /\ p.name \in Everybody
    BY DEF RosterInv, RosterTypeOK, Player
  <2>2. [type |-> "Chat", player |-> p.id] \in Updates
    BY <2>1, UpdatesMade
  <2> QED
    BY <2>1, <2>2 DEF OtherChats
<1> HIDE DEF t
<1>2. /\ revision' = revision /\ players' = players /\ started' = started /\ loaded' = loaded
      /\ playing' = playing /\ ticks' = ticks /\ queue' = queue /\ lagged' = lagged
      /\ stage' = stage /\ agent' = agent /\ view' = view
      /\ chats < MaxChats /\ chats' = chats + 1
  BY DEF OtherChats, receiverVars
<1>3. /\ OnTheWay' = OnTheWay /\ ViewTyped' /\ view'.misled = FALSE
      /\ ChainInv' /\ FrameInv'
  BY <1>2, SessionKept
<1>4. Rosters' = Rosters
  BY <1>1, <1>2, <1>3 DEF Rosters
<1>5. RosterTypeOK'
  BY <1>1, <1>2, RosterAssumption DEF RosterInv, RosterTypeOK, RosterAssumption
<1>6. RoomInv'
  BY <1>1, <1>2 DEF RosterInv, RoomInv
<1>7. RostersInv' /\ QueueInv' /\ LeftInv' /\ MemberInv' /\ ComesInv'
  BY <1>2, <1>3, <1>4 DEF RosterInv, RostersInv, QueueInv, LeftInv, MemberInv, ComesInv
<1> QED
  BY <1>3, <1>5, <1>6, <1>7 DEF RosterInv

(* Somebody takes the lowest free seat. *)
Seated(i, n, t) ==
  /\ ~started /\ revision < MaxRevision /\ i \in Ids \ IdsOf(players)
  /\ revision' = revision + 1
  /\ players' = players \cup {[id |-> i, name |-> n]}
  /\ unsent' = unsent \cup {t} /\ t \in [by: Everybody, update: Updates]
  /\ t.update.type = "Roster" /\ t.update.roster = CurrentRoster(revision', players')
  /\ players' \subseteq Player
  /\ \A p, q \in players' : p.id = q.id \/ p.name = q.name => p = q

LEMMA SeatTaken ==
  ASSUME RosterInv, NEW i \in Ids, NEW n \in Everybody, TakeSeat(i, n)
  PROVE  \E t : Seated(i, n, t)
<1> DEFINE new == [id |-> i, name |-> n]
           roster == CurrentRoster(revision', players')
           u == [type |-> "Roster", roster |-> roster]
           t == [by |-> n, update |-> u]
<1>1. /\ ~started /\ revision < MaxRevision /\ i \in Ids \ IdsOf(players)
      /\ \A p \in players : p.name # n
      /\ revision' = revision + 1 /\ players' = players \cup {new} /\ unsent' = unsent \cup {t}
  BY DEF TakeSeat, LowestFree
<1>2. players \subseteq Player /\ revision \in 0..MaxRevision /\ new \in Player
      /\ new.id = i /\ new.name = n
  BY DEF RosterInv, RosterTypeOK, Player
<1>3. players' \subseteq Player
  BY <1>1, <1>2
<1>4. roster \in Roster
  <2>1. revision' \in 0..MaxRevision
    BY <1>1, <1>2, RosterAssumption DEF RosterAssumption
  <2> QED
    BY <1>3, <2>1 DEF Roster, CurrentRoster
<1>5. u \in Updates /\ u.type = "Roster" /\ u.roster = roster
  BY <1>4, UpdatesMade
<1>6. t \in [by: Everybody, update: Updates] /\ t.update = u
  BY <1>5
<1> HIDE DEF new, u, t
<1>7. ASSUME NEW p \in players', NEW q \in players', p.id = q.id \/ p.name = q.name
      PROVE  p = q
  <2>1. CASE p \in players /\ q \in players
    BY <1>7, <2>1 DEF RosterInv, RoomInv
  <2>2. \A x \in players : x.id # i /\ x.name # n
    BY <1>1 DEF IdsOf
  <2> QED
    BY <1>1, <1>2, <1>7, <2>1, <2>2
<1>8. players' = players \cup {[id |-> i, name |-> n]}
  BY <1>1 DEF new
<1> QED
  BY <1>1, <1>3, <1>5, <1>6, <1>7, <1>8 DEF Seated

(* Before the start, a new roster takes nobody's place. *)
LEMMA SeatKeeps ==
  ASSUME RosterInv, NEW i \in Ids, NEW n \in Everybody, NEW t, Seated(i, n, t),
         started' = started, loaded' = loaded, playing' = playing, queue' = queue,
         agent'.roster = agent.roster \/ agent'.roster = CurrentRoster(revision', players')
  PROVE  RoomInv' /\ RostersInv' /\ QueueInv' /\ LeftInv' /\ OnTheWay' = OnTheWay
<1>1. ~started /\ revision \in Nat /\ revision' = revision + 1 /\ revision' \in Nat
  BY RosterTyped DEF RosterInv, Seated
<1>2. OnTheWay' = OnTheWay
  BY DEF OnTheWay
<1>3. RoomInv'
  <2>1. IdsOf(players) \subseteq IdsOf(players')
    BY DEF Seated, IdsOf
  <2>2. loaded' = {} /\ ~playing'
    BY <1>1 DEF RosterInv, RoomInv
  <2>3. \A v \in unsent' : /\ v.update.type \in {"Roster", "Chat"}
                           /\ v.update.type = "Roster" => ~started'
    BY <1>1 DEF RosterInv, RoomInv, Seated
  <2>4. \A p, q \in players' : p.id = q.id \/ p.name = q.name => p = q
    BY DEF Seated
  <2> QED
    BY <2>2, <2>3, <2>4 DEF RoomInv
<1>4. RostersInv'
  <2>1. \A r \in Rosters' : r \in Rosters \/ r = CurrentRoster(revision', players')
    BY <1>2 DEF Rosters, Seated
  <2>2. OnePerId(players')
    BY DEF Seated, OnePerId
  <2> QED
    BY <1>1, <2>1, <2>2, RostersGrow DEF RosterInv
<1>5. QueueInv' /\ LeftInv'
  BY <1>1, <1>2 DEF RosterInv, QueueInv, LeftInv
<1> QED
  BY <1>2, <1>3, <1>4, <1>5

LEMMA JoinKeeps ==
  ASSUME RosterInv, NEW n \in Others, OtherJoins(n)
  PROVE  RosterInv'
<1>1. PICK i \in Ids : TakeSeat(i, n)
  BY DEF OtherJoins
<1>2. n \in Everybody
  BY DEF Everybody
<1>3. PICK t : Seated(i, n, t)
  BY <1>1, <1>2, SeatTaken
<1>4. /\ started' = started /\ loaded' = loaded /\ playing' = playing /\ chats' = chats
      /\ ticks' = ticks /\ queue' = queue /\ lagged' = lagged /\ stage' = stage
      /\ agent' = agent /\ view' = view
  BY <1>1 DEF OtherJoins, TakeSeat, receiverVars
<1>5. /\ OnTheWay' = OnTheWay /\ ViewTyped' /\ view'.misled = FALSE
      /\ ChainInv' /\ FrameInv'
  BY <1>4, SessionKept
<1>6. RoomInv' /\ RostersInv' /\ QueueInv' /\ LeftInv'
  BY <1>2, <1>3, <1>4, SeatKeeps
<1>7. RosterTypeOK'
  BY <1>3, <1>4, RosterAssumption DEF RosterInv, RosterTypeOK, RosterAssumption, Seated
<1>8. MemberInv'
  BY <1>3, <1>4 DEF RosterInv, MemberInv, Seated
<1>9. ComesInv'
  <2>1. t.update.roster.revision = revision' /\ t.update.roster \in Rosters'
    <3>1. /\ t \in unsent' /\ t.update.type = "Roster"
          /\ t.update.roster = CurrentRoster(revision', players')
      BY <1>3 DEF Seated
    <3>2. t.update.roster.revision = revision'
      BY <3>1 DEF CurrentRoster
    <3>3. t.update.roster \in Rosters'
      BY <3>1 DEF Rosters
    <3> QED
      BY <3>2, <3>3
  <2>2. ~started'
    BY <1>3, <1>4 DEF Seated
  <2>3. loaded' = {}
    BY <1>3, <1>4 DEF RosterInv, RoomInv, Seated
  <2> QED
    BY <2>1, <2>2, <2>3 DEF ComesInv
<1> QED
  BY <1>5, <1>6, <1>7, <1>8, <1>9 DEF RosterInv

LEMMA SubscribeKeeps ==
  ASSUME RosterInv, Subscribe
  PROVE  RosterInv'
<1>1. /\ stage' = "asking"
      /\ revision' = revision /\ players' = players /\ started' = started /\ loaded' = loaded
      /\ playing' = playing /\ ticks' = ticks /\ chats' = chats /\ unsent' = unsent
      /\ queue' = queue /\ lagged' = lagged /\ agent' = agent /\ view' = view
  BY DEF Subscribe, roomVars
<1>2. OnTheWay' = OnTheWay
  BY <1>1 DEF OnTheWay
<1>3. Rosters' = Rosters
  BY <1>1, <1>2 DEF Rosters
<1>4. RosterTypeOK' /\ ViewTyped' /\ view'.misled = FALSE
  BY <1>1 DEF RosterInv, RosterTypeOK, ViewTyped
<1>5. RoomInv' /\ RostersInv' /\ QueueInv' /\ LeftInv'
  BY <1>1, <1>2, <1>3 DEF RosterInv, RoomInv, RostersInv, QueueInv, LeftInv
<1>6. MemberInv' /\ ComesInv' /\ ChainInv' /\ FrameInv'
  BY <1>1 DEF MemberInv, ComesInv, ChainInv, FrameInv
<1> QED
  BY <1>4, <1>5, <1>6 DEF RosterInv

LEMMA EnterKeeps ==
  ASSUME RosterInv, Enter
  PROVE  RosterInv'
<1> DEFINE roster == CurrentRoster(revision', players')
<1>1. PICK i \in Ids : /\ TakeSeat(i, Me)
                       /\ agent' = [NoAgent EXCEPT !.id = i, !.roster = roster]
                       /\ view' = InitialFrames(i, roster)
  BY DEF Enter
<1>2. Me \in Everybody
  BY DEF Everybody
<1>3. PICK t : Seated(i, Me, t)
  BY <1>1, <1>2, SeatTaken
<1>4. /\ started' = started /\ loaded' = loaded /\ playing' = playing /\ chats' = chats
      /\ ticks' = ticks /\ queue' = queue /\ lagged' = lagged /\ stage' = "member"
  BY <1>1 DEF Enter, TakeSeat
<1>5. /\ agent'.id = i /\ agent'.roster = roster /\ agent'.started = FALSE /\ agent'.loaded = {}
      /\ agent' = [id |-> i, roster |-> roster, started |-> FALSE, loaded |-> {}]
  BY <1>1 DEF NoAgent
<1>6. view' = [known |-> Remote(roster, i), slots |-> SlotsOf(roster), started |-> FALSE,
               loaded |-> {}, misled |-> FALSE]
  BY <1>1 DEF InitialFrames, NoView
<1>7. roster.players = players' /\ roster.revision = revision'
  BY DEF CurrentRoster
<1>8. roster \in Roster
  BY <1>3, RosterAssumption DEF Seated, Roster, RosterInv, RosterTypeOK, CurrentRoster, RosterAssumption
<1> HIDE DEF roster
<1>9. RoomInv' /\ RostersInv' /\ QueueInv' /\ LeftInv' /\ OnTheWay' = OnTheWay
  BY <1>2, <1>3, <1>4, <1>5, SeatKeeps DEF roster
<1>10. ViewTyped' /\ view'.misled = FALSE
  <2>1. Remote(roster, i) \subseteq Player
    BY <1>3, <1>7 DEF Remote, Seated
  <2>2. SlotsOf(roster) \subseteq Ids
    BY <1>3, <1>7 DEF SlotsOf, IdsOf, Seated, Player
  <2> QED
    BY <1>6, <2>1, <2>2 DEF ViewTyped, Views
<1>11. RosterTypeOK'
  <2>1. agent' \in [id: 0..MaxPlayers, roster: Roster, started: BOOLEAN, loaded: SUBSET Ids]
    BY <1>5, <1>8, RosterAssumption DEF Ids, RosterAssumption
  <2>2. revision' \in 0..MaxRevision /\ players' \subseteq Player
        /\ unsent' \subseteq [by: Everybody, update: Updates]
    BY <1>3, RosterAssumption DEF Seated, RosterInv, RosterTypeOK, RosterAssumption
  <2>3. view'.known \subseteq Player /\ view'.slots \subseteq Ids
    BY <1>10 DEF ViewTyped, Views
  <2> QED
    BY <1>4, <2>1, <2>2, <2>3 DEF RosterInv, RosterTypeOK
<1>12. [id |-> i, name |-> Me] \in players'
  BY <1>3 DEF Seated
<1>13. MemberInv'
  <2>1. i \in IdsOf(players')
    BY <1>12 DEF IdsOf
  <2> QED
    BY <1>5, <1>6, <1>7, <1>12, <2>1 DEF MemberInv
<1>14. ~started' /\ loaded' = {} /\ ~playing'
  BY <1>3, <1>4 DEF Seated, RosterInv, RoomInv
<1>15. ComesInv'
  <2>1. agent'.roster \in Rosters' /\ agent'.roster.revision = revision'
    BY <1>5, <1>7 DEF Rosters
  <2> QED
    BY <1>14, <2>1 DEF ComesInv
<1>16. \A k \in DOMAIN queue' : queue'[k].type # "PlayerLeft" /\ queue'[k].type # "GameFrame"
  BY <1>9, <1>14 DEF QueueInv, OnTheWay
<1>17. ChainInv' /\ FrameInv'
  BY <1>16 DEF ChainInv, FrameInv
<1> QED
  BY <1>9, <1>10, <1>11, <1>13, <1>15, <1>17 DEF RosterInv

----------------------------------------------------------------------------
(* The steps of the room that send an update. *)

LEMMA Posted ==
  ASSUME RosterInv, NEW u \in Updates, Publish(<<u>>), stage' = stage, agent' = agent, view' = view
  PROVE  /\ Sent(u) /\ ViewTyped' /\ view'.misled = FALSE
         /\ OnTheWay' \subseteq OnTheWay \cup {u}
         /\ ~lagged' /\ stage = "member" => ~lagged /\ OnTheWay' = OnTheWay \cup {u}
<1>1. Sent(u)
  BY Publishes DEF RosterInv
<1>2. ViewTyped' /\ view'.misled = FALSE
  BY DEF RosterInv, ViewTyped
<1> QED
  BY <1>1, <1>2, OnTheWayThen DEF RosterInv

LEMMA TypesSent ==
  ASSUME RosterTypeOK, NEW u \in Updates, Sent(u), stage' = stage, agent' = agent, view' = view,
         revision' \in 0..MaxRevision, players' \subseteq players, started' \in BOOLEAN,
         playing' \in BOOLEAN, loaded' \subseteq Ids, chats' = chats, ticks' \in 0..MaxTicks,
         unsent' \subseteq unsent
  PROVE  RosterTypeOK'
  BY DEF RosterTypeOK, Sent

(* The latest roster is still there when nothing was lost. *)
LEMMA RostersStay ==
  ASSUME RosterTypeOK, NEW u \in Updates, Sent(u), unsent' = unsent, agent' = agent,
         stage = "member", ~lagged'
  PROVE  Rosters \subseteq Rosters' /\ (HasRoster(u) => u.roster \in Rosters')
<1>1. OnTheWay' = OnTheWay \cup {u}
  BY OnTheWayThen
<1> QED
  BY <1>1 DEF Rosters

(* How the room looks when somebody has left it. *)
Vacated(p, u) ==
  /\ p \in players /\ p.name # Me /\ revision < MaxRevision
  /\ revision' = revision + 1 /\ players' = players \ {p} /\ loaded' = loaded \ {p.id}
  /\ u \in Updates /\ HasRoster(u) /\ u.roster = CurrentRoster(revision', players')
  /\ u.type = "PlayerLeft" <=> started
  /\ started => u.player = p.id
  /\ Publish(<<u>>)
  /\ playing' \in BOOLEAN /\ (playing => playing') /\ (playing' => started)
  /\ playing' => playing \/ IdsOf(players') \subseteq loaded'
  /\ started' = started /\ chats' = chats /\ ticks' = ticks /\ unsent' = unsent
  /\ stage' = stage /\ agent' = agent /\ view' = view

LEMMA LeaveVacates ==
  ASSUME RosterInv, NEW p \in players, OtherLeaves(p)
  PROVE  \E u : Vacated(p, u)
<1> DEFINE roster == CurrentRoster(revision', players')
           left == [type |-> "PlayerLeft", player |-> p.id, roster |-> roster]
           news == [type |-> "Roster", roster |-> roster]
<1>1. /\ p.name # Me /\ revision < MaxRevision
      /\ revision' = revision + 1 /\ players' = players \ {p} /\ loaded' = loaded \ {p.id}
      /\ Publish(IF started THEN <<left>> ELSE <<news>>)
      /\ started' = started /\ chats' = chats /\ ticks' = ticks /\ unsent' = unsent
      /\ stage' = stage /\ agent' = agent /\ view' = view
  BY DEF OtherLeaves
<1>2. playing \in BOOLEAN /\ started \in BOOLEAN /\ (playing => started)
  BY DEF RosterInv, RosterTypeOK, RoomInv
<1>3. playing' = \/ playing
                 \/ started /\ Cardinality(players') > 1 /\ IdsOf(players') \subseteq loaded'
  BY DEF OtherLeaves, BeginsGameplay
<1>4. roster \in Roster
  <2>1. revision' \in 0..MaxRevision
    BY <1>1, RosterAssumption DEF RosterInv, RosterTypeOK, RosterAssumption
  <2>2. players' \subseteq Player
    BY <1>1 DEF RosterInv, RosterTypeOK
  <2> QED
    BY <2>1, <2>2 DEF Roster, CurrentRoster
<1>5. p.id \in Ids
  BY DEF RosterInv, RosterTypeOK, Player
<1>6. /\ left \in Updates /\ left.type = "PlayerLeft" /\ left.player = p.id /\ left.roster = roster
      /\ news \in Updates /\ news.type = "Roster" /\ news.roster = roster
  BY <1>4, <1>5, UpdatesMade
<1> HIDE DEF left, news
<1>7. CASE started
  <2>1. Vacated(p, left)
    BY <1>1, <1>2, <1>3, <1>6, <1>7 DEF Vacated, HasRoster
  <2> QED
    BY <2>1
<1>8. CASE ~started
  <2>1. Vacated(p, news)
    BY <1>1, <1>2, <1>3, <1>6, <1>8 DEF Vacated, HasRoster
  <2> QED
    BY <2>1
<1> QED
  BY <1>7, <1>8

(* The leave of p follows the latest roster. *)
LEMMA LeaveFollowsLatest ==
  ASSUME RosterInv, NEW p, NEW u, Vacated(p, u), stage = "member", ~lagged
  PROVE  LeaveFollows(u)
<1> SUFFICES ASSUME u.type = "PlayerLeft", IsNews(u)
             PROVE  \/ Precedes(agent.roster, u)
                    \/ \E w \in OnTheWay : IsNews(w) /\ Precedes(w.roster, u)
  BY DEF LeaveFollows
<1>1. started /\ u.player = p.id /\ u.roster.revision = revision + 1
      /\ u.roster.players = players \ {p} /\ p \in players
  BY DEF Vacated, CurrentRoster
<1>2. players \ {p} = {q \in players : q.id # p.id}
  BY <1>1 DEF RosterInv, RoomInv
<1>3. \A r \in Rosters : r.revision = revision => Precedes(r, u)
  <2> SUFFICES ASSUME NEW r \in Rosters, r.revision = revision PROVE Precedes(r, u)
    OBVIOUS
  <2>1. r.players = players
    BY DEF RosterInv, RostersInv, OfRoom
  <2> QED
    BY <1>1, <1>2, <2>1 DEF Precedes
<1>4. PICK r \in Rosters : r.revision = revision
  BY DEF RosterInv, ComesInv
<1>5. agent.roster \in Rosters /\ agent.roster.revision \in Nat /\ revision \in Nat
      /\ agent.roster.revision <= revision
  BY RosterTyped DEF RosterInv, RostersInv, OfRoom
<1>6. CASE agent.roster.revision = revision
  BY <1>3, <1>5, <1>6
<1>7. CASE agent.roster.revision # revision
  <2>1. PICK w \in OnTheWay : HasRoster(w) /\ r = w.roster
    BY <1>1, <1>4, <1>7 DEF Rosters, RosterInv, RoomInv
  <2>2. IsNews(w)
    BY <1>4, <1>5, <1>7, <2>1 DEF IsNews
  <2> QED
    BY <1>3, <1>4, <2>1, <2>2
<1> QED
  BY <1>6, <1>7

LEMMA LeaveKeeps ==
  ASSUME RosterInv, NEW p \in players, OtherLeaves(p)
  PROVE  RosterInv'
<1>1. PICK u : Vacated(p, u)
  BY LeaveVacates
<1>2. /\ Sent(u) /\ ViewTyped' /\ view'.misled = FALSE
      /\ OnTheWay' \subseteq OnTheWay \cup {u}
      /\ ~lagged' /\ stage = "member" => ~lagged /\ OnTheWay' = OnTheWay \cup {u}
  BY <1>1, Posted DEF Vacated
<1>3. u \in Updates /\ u.type # "GameFrame" /\ u.type \in {"Roster", "PlayerLeft"}
  BY <1>1 DEF Vacated, HasRoster
<1>4. \A q \in players : q.id = p.id => q = p
  BY DEF RosterInv, RoomInv
<1>5. \A i \in IdsOf(players) : i # p.id => i \in IdsOf(players')
  BY <1>1 DEF Vacated, IdsOf
<1>6. p.id \notin IdsOf(players') /\ IdsOf(players') \subseteq IdsOf(players)
  BY <1>1, <1>4 DEF Vacated, IdsOf
<1>7. revision \in Nat /\ revision' = revision + 1 /\ u.roster.revision = revision'
      /\ u.roster.players = players' /\ u.roster = CurrentRoster(revision', players')
  BY <1>1, RosterTyped DEF RosterInv, Vacated, CurrentRoster
<1>8. RosterTypeOK'
  <2>1. revision' \in 0..MaxRevision
    BY <1>1, RosterAssumption DEF RosterInv, RosterTypeOK, RosterAssumption, Vacated
  <2> QED
    BY <1>1, <1>2, <1>3, <2>1, TypesSent DEF RosterInv, RosterTypeOK, Vacated
<1>9. RoomInv'
  <2>1. loaded' \subseteq IdsOf(players')
    BY <1>1, <1>5 DEF RosterInv, RoomInv, Vacated
  <2>2. playing' => IdsOf(players') \subseteq loaded'
    BY <1>1, <1>6 DEF RosterInv, RoomInv, Vacated
  <2>3. ~started' => loaded' = {} /\ ~playing'
    BY <1>1 DEF RosterInv, RoomInv, Vacated
  <2>4. \A q, r \in players' : q.id = r.id \/ q.name = r.name => q = r
    BY <1>1 DEF RosterInv, RoomInv, Vacated
  <2>5. \A v \in unsent' : /\ v.update.type \in {"Roster", "Chat"}
                           /\ v.update.type = "Roster" => ~started'
    BY <1>1 DEF RosterInv, RoomInv, Vacated
  <2> QED
    BY <2>1, <2>2, <2>3, <2>4, <2>5 DEF RoomInv
<1>10. \A r \in Rosters' : r \in Rosters \/ r = u.roster
  BY <1>1, <1>2, <1>3, RostersSent DEF RosterInv, Vacated
<1>11. RostersInv'
  <2>1. OnePerId(players')
    BY <1>9 DEF RoomInv, OnePerId
  <2> QED
    BY <1>7, <1>10, <2>1, RostersGrow DEF RosterInv
<1>12. QueueInv'
  BY <1>1, <1>2, <1>3 DEF RosterInv, QueueInv, Vacated
<1>13. LeftInv'
  <2> SUFFICES ASSUME NEW w \in OnTheWay', w.type = "PlayerLeft"
               PROVE  /\ w.player \notin IdsOf(players')
                      /\ stage = "member" => agent.id \in IdsOf(w.roster.players)
                      /\ \A r \in Rosters' : GoneFrom(w, r)
    BY <1>1 DEF LeftInv, Vacated
  <2>1. CASE w = u
    <3>1. u.player = p.id
      BY <1>1, <2>1 DEF Vacated
    <3>2. ASSUME stage = "member" PROVE agent.id \in IdsOf(players')
      <4>1. [id |-> agent.id, name |-> Me] \in players'
        BY <1>1, <3>2 DEF RosterInv, MemberInv, Vacated
      <4> QED
        BY <4>1 DEF IdsOf
    <3>3. \A r \in Rosters : GoneFrom(w, r)
      <4>1. \A r \in Rosters : r.revision \in Nat /\ r.revision <= revision
        BY RosterTyped DEF RosterInv, RostersInv, OfRoom
      <4> QED
        BY <1>7, <2>1, <4>1 DEF GoneFrom
    <3>4. GoneFrom(w, u.roster)
      BY <1>6, <1>7, <2>1, <3>1 DEF GoneFrom
    <3> QED
      BY <1>6, <1>7, <1>10, <2>1, <3>1, <3>2, <3>3, <3>4
  <2>2. CASE w \in OnTheWay
    <3>1. /\ w.player \notin IdsOf(players)
          /\ stage = "member" => agent.id \in IdsOf(w.roster.players)
          /\ \A r \in Rosters : GoneFrom(w, r)
      BY <2>2 DEF RosterInv, LeftInv
    <3>2. w.player \notin IdsOf(players')
      BY <1>6, <3>1
    <3>3. GoneFrom(w, u.roster)
      BY <1>7, <3>2 DEF GoneFrom
    <3> QED
      BY <1>10, <3>1, <3>2, <3>3
  <2> QED
    BY <1>2, <2>1, <2>2
<1>14. MemberInv'
  BY <1>1 DEF RosterInv, MemberInv, Vacated
<1>15. ComesInv'
  <2> SUFFICES ASSUME stage = "member", ~lagged'
               PROVE  /\ \E r \in Rosters' : r.revision = revision'
                      /\ started => agent.started \/ \E w \in OnTheWay' : w.type = "Start"
                      /\ \A i \in loaded' : i \in agent.loaded
                           \/ \E w \in OnTheWay' : w.type = "PlayerLoaded" /\ w.player = i
    BY <1>1 DEF ComesInv, Vacated
  <2>1. u.roster \in Rosters'
    BY <1>1, <1>2, <1>3, RostersStay DEF RosterInv, Vacated
  <2>2. ~lagged /\ OnTheWay \subseteq OnTheWay' /\ loaded' \subseteq loaded
    BY <1>1, <1>2 DEF Vacated
  <2> QED
    BY <1>7, <2>1, <2>2 DEF RosterInv, ComesInv
<1>16. ChainInv'
  BY <1>1, <1>2, <1>3, LeaveFollowsLatest, ChainKept DEF RosterInv, Vacated
<1>17. FrameInv'
  BY <1>1, <1>2, <1>3, FramesKept DEF RosterInv, Vacated
<1> QED
  BY <1>2, <1>8, <1>9, <1>11, <1>12, <1>13, <1>14, <1>15, <1>16, <1>17 DEF RosterInv

(* The rosters are those of before: what holds of them is kept. *)
LEMMA RostersSame ==
  ASSUME RosterInv, NEW u \in Updates, Sent(u), agent' = agent, stage' = stage,
         \A r \in Rosters' : r \in Rosters,
         revision' = revision, players' = players,
         u.type # "PlayerLeft"
  PROVE  RostersInv' /\ LeftInv' /\ ChainInv'
<1>1. RostersInv'
  BY DEF RosterInv, RostersInv
<1>2. OnTheWay' \subseteq OnTheWay \cup {u}
  BY OnTheWayThen DEF RosterInv
<1>3. LeftInv'
  BY <1>2 DEF RosterInv, LeftInv
<1>4. ChainInv'
  BY ChainKept DEF RosterInv, LeaveFollows
<1> QED
  BY <1>1, <1>3, <1>4

LEMMA StartKeeps ==
  ASSUME RosterInv, BeginMatch
  PROVE  RosterInv'
<1> DEFINE u == [type |-> "Start"]
<1>1. /\ ~started /\ started' = TRUE /\ Publish(<<u>>)
      /\ \A t \in unsent : t.update.type # "Roster"
      /\ revision' = revision /\ players' = players /\ loaded' = loaded /\ playing' = playing
      /\ chats' = chats /\ ticks' = ticks /\ unsent' = unsent
      /\ stage' = stage /\ agent' = agent /\ view' = view
  BY DEF BeginMatch
<1>2. u \in Updates /\ u.type = "Start" /\ ~HasRoster(u)
  BY UpdatesMade DEF HasRoster
<1> HIDE DEF u
<1>3. /\ Sent(u) /\ ViewTyped' /\ view'.misled = FALSE
      /\ OnTheWay' \subseteq OnTheWay \cup {u}
      /\ ~lagged' /\ stage = "member" => ~lagged /\ OnTheWay' = OnTheWay \cup {u}
  BY <1>1, <1>2, Posted
<1>4. \A r \in Rosters' : r \in Rosters
  BY <1>1, <1>2, <1>3, RostersSent DEF RosterInv
<1>5. RosterTypeOK'
  BY <1>1, <1>2, <1>3, TypesSent DEF RosterInv, RosterTypeOK
<1>6. loaded = {} /\ ~playing
  BY <1>1 DEF RosterInv, RoomInv
<1>7. RoomInv'
  BY <1>1, <1>6 DEF RosterInv, RoomInv
<1>8. RostersInv' /\ LeftInv' /\ ChainInv'
  BY <1>1, <1>2, <1>3, <1>4, RostersSame
<1>9. QueueInv' /\ MemberInv'
  BY <1>1, <1>2, <1>3 DEF RosterInv, QueueInv, MemberInv
<1>10. ComesInv'
  <2> SUFFICES ASSUME stage = "member", ~lagged'
               PROVE  /\ \E r \in Rosters' : r.revision = revision
                      /\ \E w \in OnTheWay' : w.type = "Start"
    BY <1>1, <1>6 DEF ComesInv
  <2>1. Rosters \subseteq Rosters'
    BY <1>1, <1>2, <1>3, RostersStay DEF RosterInv
  <2> QED
    BY <1>2, <1>3, <2>1 DEF RosterInv, ComesInv
<1>11. FrameInv'
  BY <1>1, <1>2, <1>3, FramesKept DEF RosterInv
<1> QED
  BY <1>3, <1>5, <1>7, <1>8, <1>9, <1>10, <1>11 DEF RosterInv

LEMMA LoadKeeps ==
  ASSUME RosterInv, NEW p \in players, MarkLoaded(p)
  PROVE  RosterInv'
<1> DEFINE u == [type |-> "PlayerLoaded", player |-> p.id]
<1>1. /\ started /\ loaded' = loaded \cup {p.id} /\ Publish(<<u>>)
      /\ revision' = revision /\ players' = players /\ started' = started
      /\ chats' = chats /\ ticks' = ticks /\ unsent' = unsent
      /\ stage' = stage /\ agent' = agent /\ view' = view
  BY DEF MarkLoaded, LoadedUpdate
<1>2. p.id \in Ids /\ p.id \in IdsOf(players)
  BY DEF RosterInv, RosterTypeOK, Player, IdsOf
<1>3. u \in Updates /\ u.type = "PlayerLoaded" /\ u.player = p.id /\ ~HasRoster(u)
  BY <1>2, UpdatesMade DEF HasRoster
<1>4. /\ playing' \in BOOLEAN /\ (playing => playing')
      /\ playing' => playing \/ IdsOf(players) \subseteq loaded'
  BY <1>1 DEF MarkLoaded, BeginsGameplay, RosterInv, RosterTypeOK
<1> HIDE DEF u
<1>5. /\ Sent(u) /\ ViewTyped' /\ view'.misled = FALSE
      /\ OnTheWay' \subseteq OnTheWay \cup {u}
      /\ ~lagged' /\ stage = "member" => ~lagged /\ OnTheWay' = OnTheWay \cup {u}
  BY <1>1, <1>3, Posted
<1>6. \A r \in Rosters' : r \in Rosters
  BY <1>1, <1>3, <1>5, RostersSent DEF RosterInv
<1>7. RosterTypeOK'
  BY <1>1, <1>2, <1>3, <1>4, <1>5, TypesSent DEF RosterInv, RosterTypeOK
<1>8. RoomInv'
  BY <1>1, <1>2, <1>4 DEF RosterInv, RoomInv
<1>9. RostersInv' /\ LeftInv' /\ ChainInv'
  BY <1>1, <1>3, <1>5, <1>6, RostersSame
<1>10. QueueInv' /\ MemberInv'
  BY <1>1, <1>3, <1>4, <1>5 DEF RosterInv, QueueInv, MemberInv
<1>11. ComesInv'
  <2> SUFFICES ASSUME stage = "member", ~lagged'
               PROVE  /\ \E r \in Rosters' : r.revision = revision
                      /\ agent.started \/ \E w \in OnTheWay' : w.type = "Start"
                      /\ \A i \in loaded' : i \in agent.loaded
                           \/ \E w \in OnTheWay' : w.type = "PlayerLoaded" /\ w.player = i
    BY <1>1 DEF ComesInv
  <2>1. Rosters \subseteq Rosters'
    BY <1>1, <1>3, <1>5, RostersStay DEF RosterInv
  <2>2. /\ \E r \in Rosters : r.revision = revision
        /\ agent.started \/ \E w \in OnTheWay : w.type = "Start"
        /\ \A i \in loaded : i \in agent.loaded
             \/ \E w \in OnTheWay : w.type = "PlayerLoaded" /\ w.player = i
    BY <1>1, <1>5 DEF RosterInv, ComesInv
  <2>3. OnTheWay' = OnTheWay \cup {u}
    BY <1>5
  <2> QED
    BY <1>1, <1>3, <2>1, <2>2, <2>3
<1>12. FrameInv'
  BY <1>1, <1>3, <1>5, FramesKept DEF RosterInv
<1> QED
  BY <1>5, <1>7, <1>8, <1>9, <1>10, <1>11, <1>12 DEF RosterInv

LEMMA SendKeeps ==
  ASSUME RosterInv, SendUnlocked
  PROVE  RosterInv'
<1>1. PICK t \in unsent : Publish(<<t.update>>) /\ unsent' = unsent \ {t}
  BY DEF SendUnlocked
<1> DEFINE u == t.update
<1>2. /\ revision' = revision /\ players' = players /\ started' = started /\ loaded' = loaded
      /\ playing' = playing /\ chats' = chats /\ ticks' = ticks
      /\ stage' = stage /\ agent' = agent /\ view' = view
      /\ Publish(<<u>>) /\ unsent' \subseteq unsent /\ \A v \in unsent : v \in unsent' \/ v = t
  BY <1>1 DEF SendUnlocked, roomVars
<1>3. u \in Updates /\ u.type \in {"Roster", "Chat"} /\ t \in unsent
  BY DEF RosterInv, RosterTypeOK, RoomInv
<1>4. HasRoster(u) => u.roster \in Rosters
  BY <1>3 DEF Rosters, HasRoster
<1>5. \A v \in unsent : v \in unsent' \/ v.update = u
  BY <1>2
<1> HIDE DEF u
<1>6. /\ Sent(u) /\ ViewTyped' /\ view'.misled = FALSE
      /\ OnTheWay' \subseteq OnTheWay \cup {u}
      /\ ~lagged' /\ stage = "member" => ~lagged /\ OnTheWay' = OnTheWay \cup {u}
  BY <1>2, <1>3, Posted
<1>7. \A r \in Rosters' : r \in Rosters
  BY <1>2, <1>3, <1>4, <1>6, RostersSent DEF RosterInv
<1>8. RosterTypeOK'
  BY <1>2, <1>3, <1>6, TypesSent DEF RosterInv, RosterTypeOK
<1>9. RoomInv'
  BY <1>2 DEF RosterInv, RoomInv
<1>10. RostersInv' /\ LeftInv' /\ ChainInv'
  BY <1>2, <1>3, <1>6, <1>7, RostersSame
<1>11. QueueInv' /\ MemberInv'
  BY <1>2, <1>3, <1>6 DEF RosterInv, QueueInv, MemberInv
<1>12. ComesInv'
  <2> SUFFICES ASSUME stage = "member", ~lagged'
               PROVE  /\ \E r \in Rosters' : r.revision = revision
                      /\ started => agent.started \/ \E w \in OnTheWay' : w.type = "Start"
                      /\ \A i \in loaded : i \in agent.loaded
                           \/ \E w \in OnTheWay' : w.type = "PlayerLoaded" /\ w.player = i
    BY <1>2 DEF ComesInv
  <2>1. OnTheWay' = OnTheWay \cup {u} /\ ~lagged
    BY <1>6
  <2>2. Rosters \subseteq Rosters'
    <3> SUFFICES ASSUME NEW v \in unsent, v.update.type = "Roster" PROVE v.update.roster \in Rosters'
      BY <1>2, <2>1 DEF Rosters
    <3>1. CASE v \in unsent'
      BY <3>1 DEF Rosters
    <3>2. CASE v.update = u
      <4>1. HasRoster(u) /\ u \in OnTheWay'
        BY <2>1, <3>2 DEF HasRoster
      <4> QED
        BY <3>2, <4>1 DEF Rosters
    <3> QED
      BY <1>5, <3>1, <3>2
  <2> QED
    BY <2>1, <2>2 DEF RosterInv, ComesInv
<1>13. FrameInv'
  BY <1>2, <1>3, <1>6, FramesKept DEF RosterInv
<1> QED
  BY <1>6, <1>8, <1>9, <1>10, <1>11, <1>12, <1>13 DEF RosterInv

(* When the game is played, whoever a roster names has loaded, or is gone *)
(* from the latest.                                                        *)
LEMMA AllHaveLoaded ==
  ASSUME RosterInv, playing, stage = "member", ~lagged, NEW L \in Nat, DOMAIN queue = 1..L,
         NEW updates, \A j \in 1..L : updates[j] = queue[j],
         NEW r \in Rosters, r.revision >= agent.roster.revision
  PROVE  AllLoadBy(r, L + 1, updates, agent.loaded)
<1> SUFFICES ASSUME NEW i \in IdsOf(r.players) PROVE LoadsBy(i, r, L + 1, updates, agent.loaded)
  BY DEF AllLoadBy
<1>1. started /\ IdsOf(players) \subseteq loaded
  BY DEF RosterInv, RoomInv, RosterTypeOK
<1>2. (L + 1) - 1 = L
  OBVIOUS
<1>3. \A w \in OnTheWay : \E j \in 1..((L + 1) - 1) : updates[j] = w
  BY <1>2 DEF OnTheWay
<1>4. CASE i \in loaded
  BY <1>3, <1>4 DEF RosterInv, ComesInv, LoadsBy
<1>5. CASE i \notin loaded
  <2>1. i \notin IdsOf(players)
    BY <1>1, <1>5
  <2>2. PICK latest \in Rosters : latest.revision = revision
    BY DEF RosterInv, ComesInv
  <2>3. latest.players = players
    BY <2>2 DEF RosterInv, RostersInv, OfRoom
  <2>4. r.revision \in Nat /\ agent.roster.revision \in Nat /\ r.revision <= revision /\ revision \in Nat
    BY RosterTyped DEF RosterInv, RostersInv, OfRoom
  <2>5. r.revision # revision
    <3> SUFFICES ASSUME r.revision = revision PROVE FALSE
      OBVIOUS
    <3>1. r.players = players
      BY DEF RosterInv, RostersInv, OfRoom
    <3> QED
      BY <2>1, <3>1
  <2>6. PICK w \in OnTheWay : HasRoster(w) /\ w.roster = latest
    BY <1>1, <2>2, <2>4, <2>5 DEF Rosters, RosterInv, RoomInv
  <2>7. w.roster.revision > r.revision /\ i \notin IdsOf(w.roster.players)
    BY <2>1, <2>2, <2>3, <2>4, <2>5, <2>6
  <2> QED
    BY <1>3, <2>6, <2>7 DEF LoadsBy
<1> QED
  BY <1>4, <1>5

LEMMA TickKeeps ==
  ASSUME RosterInv, GameplayTick
  PROVE  RosterInv'
<1> DEFINE u == [type |-> "GameFrame"]
<1>1. /\ playing /\ ticks < MaxTicks /\ ticks' = ticks + 1 /\ Publish(<<u>>)
      /\ revision' = revision /\ players' = players /\ started' = started /\ loaded' = loaded
      /\ playing' = playing /\ chats' = chats /\ unsent' = unsent
      /\ stage' = stage /\ agent' = agent /\ view' = view
  BY DEF GameplayTick
<1>2. u \in Updates /\ u.type = "GameFrame" /\ ~HasRoster(u)
  BY UpdatesMade DEF HasRoster
<1> HIDE DEF u
<1>3. /\ Sent(u) /\ ViewTyped' /\ view'.misled = FALSE
      /\ OnTheWay' \subseteq OnTheWay \cup {u}
      /\ ~lagged' /\ stage = "member" => ~lagged /\ OnTheWay' = OnTheWay \cup {u}
  BY <1>1, <1>2, Posted
<1>4. \A r \in Rosters' : r \in Rosters
  BY <1>1, <1>2, <1>3, RostersSent DEF RosterInv
<1>5. RosterTypeOK'
  <2>1. ticks' \in 0..MaxTicks
    BY <1>1, RosterAssumption DEF RosterInv, RosterTypeOK, RosterAssumption
  <2> QED
    BY <1>1, <1>2, <1>3, <2>1, TypesSent DEF RosterInv, RosterTypeOK
<1>6. RoomInv'
  BY <1>1 DEF RosterInv, RoomInv
<1>7. RostersInv' /\ LeftInv' /\ ChainInv'
  BY <1>1, <1>2, <1>3, <1>4, RostersSame
<1>8. QueueInv' /\ MemberInv'
  BY <1>1, <1>2, <1>3 DEF RosterInv, QueueInv, MemberInv
<1>9. ComesInv'
  <2> SUFFICES ASSUME stage = "member", ~lagged'
               PROVE  /\ \E r \in Rosters' : r.revision = revision
                      /\ started => agent.started \/ \E w \in OnTheWay' : w.type = "Start"
                      /\ \A i \in loaded : i \in agent.loaded
                           \/ \E w \in OnTheWay' : w.type = "PlayerLoaded" /\ w.player = i
    BY <1>1 DEF ComesInv
  <2>1. Rosters \subseteq Rosters'
    BY <1>1, <1>2, <1>3, RostersStay DEF RosterInv
  <2> QED
    BY <1>3, <2>1 DEF RosterInv, ComesInv
<1>10. FrameInv'
  <2> SUFFICES ASSUME stage = "member", ~lagged', NEW k \in DOMAIN queue', queue'[k].type = "GameFrame"
               PROVE  /\ AllLoadBy(agent.roster, k, queue', agent.loaded)
                      /\ \A m \in 1..(k - 1) :
                           IsNews(queue'[m]) => AllLoadBy(queue'[m].roster, k, queue', agent.loaded)
    BY <1>1 DEF FrameInv, IsNews
  <2>1. Grown(u)
    BY <1>2, <1>3, QueueGrows DEF RosterInv
  <2>2. CASE k \in 1..Len(queue)
    <3>1. k \in DOMAIN queue /\ queue[k].type = "GameFrame" /\ k \in Nat
          /\ \A j \in 1..(k - 1) : queue'[j] = queue[j]
      BY <2>1, <2>2 DEF Grown
    <3>2. /\ AllLoadBy(agent.roster, k, queue, agent.loaded)
          /\ \A m \in 1..(k - 1) :
               IsNews(queue[m]) => AllLoadBy(queue[m].roster, k, queue, agent.loaded)
      BY <2>1, <3>1 DEF RosterInv, FrameInv, Grown
    <3>3. AllLoadBy(agent.roster, k, queue', agent.loaded)
      BY <3>1, <3>2, LoadsKept
    <3>4. ASSUME NEW m \in 1..(k - 1), IsNews(queue'[m])
          PROVE  AllLoadBy(queue'[m].roster, k, queue', agent.loaded)
      <4>1. queue'[m] = queue[m]
        BY <3>1
      <4>2. AllLoadBy(queue'[m].roster, k, queue, agent.loaded)
        BY <3>2, <3>4, <4>1
      <4> QED
        BY <3>1, <4>2, LoadsKept
    <3> QED
      BY <3>3, <3>4
  <2>3. CASE k = Len(queue) + 1
    <3> DEFINE L == Len(queue)
    <3>1. L \in Nat /\ DOMAIN queue = 1..L /\ \A j \in 1..L : queue'[j] = queue[j]
      BY <2>1 DEF Grown
    <3>2. ~lagged
      BY <2>1 DEF Grown
    <3>3. agent.roster \in Rosters /\ agent.roster.revision \in Nat
          /\ \A r \in Rosters : r.revision \in Nat
          /\ \A w \in OnTheWay : HasRoster(w) => w.roster \in Rosters
      BY RosterTyped DEF RosterInv
    <3> HIDE DEF L
    <3>4. \A r \in Rosters : r.revision >= agent.roster.revision =>
            AllLoadBy(r, L + 1, queue', agent.loaded)
      BY <1>1, <3>1, <3>2, AllHaveLoaded
    <3>5. k = L + 1 /\ (L + 1) - 1 = L
      BY <2>3, <3>1 DEF L
    <3>6. AllLoadBy(agent.roster, k, queue', agent.loaded)
      <4>1. agent.roster.revision >= agent.roster.revision
        BY <3>3
      <4> QED
        BY <3>3, <3>4, <3>5, <4>1
    <3>7. ASSUME NEW m \in 1..(k - 1), IsNews(queue'[m])
          PROVE  AllLoadBy(queue'[m].roster, k, queue', agent.loaded)
      <4>1. m \in 1..L
        BY <3>5
      <4>2. queue'[m] = queue[m] /\ queue[m] \in OnTheWay
        BY <3>1, <4>1 DEF OnTheWay
      <4>3. queue'[m].roster \in Rosters /\ queue'[m].roster.revision >= agent.roster.revision
        BY <3>3, <3>7, <4>2 DEF IsNews
      <4> QED
        BY <3>4, <3>5, <4>3
    <3> QED
      BY <3>6, <3>7
  <2> QED
    BY <2>1, <2>2, <2>3 DEF Grown
<1> QED
  BY <1>3, <1>5, <1>6, <1>7, <1>8, <1>9, <1>10 DEF RosterInv

----------------------------------------------------------------------------
(* The agent follows an update and shows it to Warcraft. *)

AgentRecords == [id: 0..MaxPlayers, roster: Roster, started: BOOLEAN, loaded: SUBSET Ids]

(* Warcraft knows what the agent knows. *)
Sees(v, a) ==
  /\ v \in Views /\ a \in AgentRecords /\ v.misled = FALSE
  /\ v.known = Remote(a.roster, a.id)
  /\ a.started = FALSE => v.slots = SlotsOf(a.roster)
  /\ v.started = a.started /\ v.loaded = a.loaded

LEMMA AgentFields ==
  ASSUME NEW a \in AgentRecords
  PROVE  /\ a.id \in 0..MaxPlayers /\ a.roster \in Roster /\ a.started \in BOOLEAN
         /\ a.loaded \in SUBSET Ids
         /\ a = [id |-> a.id, roster |-> a.roster, started |-> a.started, loaded |-> a.loaded]
  BY DEF AgentRecords

LEMMA ViewFields ==
  ASSUME NEW v \in Views
  PROVE  /\ v.known \in SUBSET Player /\ v.slots \in SUBSET Ids /\ v.started \in BOOLEAN
         /\ v.loaded \in SUBSET Ids /\ v.misled \in BOOLEAN
         /\ v = [known |-> v.known, slots |-> v.slots, started |-> v.started,
                 loaded |-> v.loaded, misled |-> v.misled]
  BY DEF Views

(* A roster takes those away who are not in it, and introduces the new. *)
LEMMA RosterShown ==
  ASSUME NEW v, NEW a, Sees(v, a), NEW r \in Roster,
         OnePerId(a.roster.players), OnePerId(r.players)
  PROVE  Sees(ApplyRoster(v, a.id, a.roster, r), [a EXCEPT !.roster = r])
<1> DEFINE gone == Leaving(a.id, a.roster, r)
           new == Arriving(a.id, a.roster, r)
           left == {p \in v.known : p.id \notin IdsOf(gone)}
           w == ApplyRoster(v, a.id, a.roster, r)
           b == [a EXCEPT !.roster = r]
<1>1. v \in Views /\ a \in AgentRecords /\ v.misled = FALSE /\ v.known = Remote(a.roster, a.id)
      /\ v.started = a.started /\ v.loaded = a.loaded
  BY DEF Sees
<1>2. r.players \subseteq Player /\ a.roster.players \subseteq Player
  BY <1>1, AgentFields DEF Roster
<1>3. IdsOf(gone) \subseteq IdsOf(v.known)
  BY <1>1 DEF Leaving, IdsOf
<1>4. IdsOf(left) \cap IdsOf(new) = {}
  <2> SUFFICES ASSUME NEW p \in left, NEW q \in new, p.id = q.id PROVE FALSE
    BY DEF IdsOf
  <2>1. p \in Remote(a.roster, a.id) /\ p.id \notin IdsOf(gone)
    BY <1>1
  <2>2. p \in a.roster.players /\ p \notin gone
    BY <2>1 DEF Remote, IdsOf
  <2>3. p \in r.players
    BY <2>1, <2>2 DEF Leaving
  <2>4. q \in r.players /\ q \notin a.roster.players
    BY DEF Arriving, Remote
  <2> QED
    BY <2>2, <2>3, <2>4 DEF OnePerId
<1>5. left \cup new = Remote(r, a.id)
  <2>1. ASSUME NEW p \in left PROVE p \in Remote(r, a.id)
    <3>1. p \in Remote(a.roster, a.id) /\ p \notin gone
      BY <1>1 DEF IdsOf
    <3> QED
      BY <3>1 DEF Leaving, Remote
  <2>2. ASSUME NEW p \in new PROVE p \in Remote(r, a.id)
    BY DEF Arriving
  <2>3. ASSUME NEW p \in Remote(r, a.id), p \notin new PROVE p \in left
    <3>1. p \in a.roster.players /\ p \in r.players /\ p.id # a.id
      BY <2>3 DEF Arriving, Remote
    <3>2. p \in v.known
      BY <1>1, <3>1 DEF Remote
    <3>3. \A g \in gone : g \in a.roster.players /\ g \notin r.players
      BY DEF Leaving, Remote
    <3>4. p.id \notin IdsOf(gone)
      BY <3>1, <3>3 DEF IdsOf, OnePerId
    <3> QED
      BY <3>2, <3>4
  <2> QED
    BY <2>1, <2>2, <2>3
<1>6. w = [v EXCEPT !.known = left \cup new, !.slots = SlotsOf(r),
             !.misled = @ \/ ~(IdsOf(gone) \subseteq IdsOf(v.known))
                          \/ IdsOf(left) \cap IdsOf(new) # {}]
  BY DEF ApplyRoster
<1> HIDE DEF gone, new, left, w
<1>7. w = [known |-> Remote(r, a.id), slots |-> SlotsOf(r), started |-> v.started,
           loaded |-> v.loaded, misled |-> FALSE]
  <2> DEFINE bad == v.misled \/ ~(IdsOf(gone) \subseteq IdsOf(v.known))
                             \/ IdsOf(left) \cap IdsOf(new) # {}
  <2>1. w = [v EXCEPT !.known = left \cup new, !.slots = SlotsOf(r), !.misled = bad]
    BY <1>6
  <2>2. bad = FALSE
    BY <1>1, <1>3, <1>4
  <2> HIDE DEF bad
  <2>3. w = [v EXCEPT !.known = Remote(r, a.id), !.slots = SlotsOf(r), !.misled = FALSE]
    BY <1>5, <2>1, <2>2
  <2>4. v = [known |-> v.known, slots |-> v.slots, started |-> v.started,
             loaded |-> v.loaded, misled |-> v.misled]
    BY <1>1, ViewFields
  <2> QED
    BY <2>3, <2>4
<1>8. w \in Views
  <2>1. Remote(r, a.id) \subseteq Player /\ SlotsOf(r) \subseteq Ids
    BY <1>2 DEF Remote, SlotsOf, IdsOf, Player
  <2> QED
    BY <1>1, <1>7, <2>1, ViewFields DEF Views
<1>9. b = [id |-> a.id, roster |-> r, started |-> a.started, loaded |-> a.loaded]
  BY <1>1, AgentFields
<1>10. b \in AgentRecords
  BY <1>1, <1>9, AgentFields DEF AgentRecords
<1> HIDE DEF b
<1>11. Sees(w, b)
  BY <1>1, <1>7, <1>8, <1>9, <1>10 DEF Sees
<1> QED
  BY <1>11 DEF w, b

(* Whoever the roster names, Warcraft knows, or is itself. *)
LEMMA MentionKnown ==
  ASSUME NEW v, NEW a, Sees(v, a), a.id = agent.id, NEW i \in IdsOf(a.roster.players)
  PROVE  Mention(v, i) = v
<1>1. v \in Views /\ v.misled = FALSE /\ v.known = Remote(a.roster, a.id)
  BY DEF Sees
<1>2. i \in IdsOf(v.known) \cup {agent.id}
  BY <1>1 DEF Remote, IdsOf
<1>3. Mention(v, i) = [known |-> v.known, slots |-> v.slots, started |-> v.started,
                       loaded |-> v.loaded, misled |-> v.misled \/ i \notin IdsOf(v.known) \cup {agent.id}]
  BY <1>1, ViewFields DEF Mention
<1>4. Mention(v, i) = [known |-> v.known, slots |-> v.slots, started |-> v.started,
                       loaded |-> v.loaded, misled |-> v.misled]
  BY <1>1, <1>2, <1>3
<1> QED
  BY <1>1, <1>4, ViewFields

(* What the agent must have for an update that it follows. *)
Ready(a, u) ==
  /\ OnePerId(a.roster.players)
  /\ u.type = "Roster" => OnePerId(u.roster.players)
  /\ u.type = "PlayerLeft" => Precedes(a.roster, u)
  /\ u.type = "GameFrame" => IdsOf(a.roster.players) \subseteq a.loaded
  /\ a.id \in IdsOf(a.roster.players)

Newer(a, u) == HasRoster(u) /\ u.roster.revision > a.roster.revision

(* What the agent knows then. *)
Followed(a, u, b) ==
  /\ b \in AgentRecords /\ b.id = a.id
  /\ Newer(a, u) => b.roster = u.roster
  /\ ~Newer(a, u) => b.roster = a.roster
  /\ b.started = TRUE <=> a.started = TRUE \/ u.type = "Start"
  /\ u.type = "PlayerLoaded" => b.loaded = a.loaded \cup {u.player}
  /\ u.type = "PlayerLeft" => b.loaded = a.loaded \ {u.player}
  /\ u.type \notin {"PlayerLoaded", "PlayerLeft"} => b.loaded = a.loaded

LEMMA FollowShown ==
  ASSUME NEW u \in Updates, NEW v, NEW a, Sees(v, a), a.id = agent.id, Fits(a, u), Ready(a, u)
  PROVE  Followed(a, u, Follow(a, u)) /\ Sees(Show(v, a, u), Follow(a, u))
<1>1. v \in Views /\ a \in AgentRecords /\ v.misled = FALSE /\ v.known = Remote(a.roster, a.id)
      /\ (a.started = FALSE => v.slots = SlotsOf(a.roster))
      /\ v.started = a.started /\ v.loaded = a.loaded
  BY DEF Sees
<1>2. /\ a.id \in 0..MaxPlayers /\ a.roster \in Roster /\ a.started \in BOOLEAN
      /\ a.loaded \in SUBSET Ids
      /\ a = [id |-> a.id, roster |-> a.roster, started |-> a.started, loaded |-> a.loaded]
  BY <1>1, AgentFields
<1>3. /\ v.known \in SUBSET Player /\ v.slots \in SUBSET Ids /\ v.started \in BOOLEAN
      /\ v.loaded \in SUBSET Ids /\ v.misled \in BOOLEAN
      /\ v = [known |-> v.known, slots |-> v.slots, started |-> v.started,
              loaded |-> v.loaded, misled |-> v.misled]
  BY <1>1, ViewFields
<1>4. CASE u.type = "Roster"
  <2>1. HasRoster(u) /\ u.roster \in Roster
    BY <1>4, UpdateTyped DEF HasRoster
  <2>2. u.roster.revision \in Int /\ a.roster.revision \in Int
    BY <1>2, <2>1, RosterAssumption DEF Roster, RosterAssumption
  <2>3. CASE u.roster.revision > a.roster.revision
    <3>1. Follow(a, u) = [a EXCEPT !.roster = u.roster] /\ ~Repeats(a, u)
      BY <1>4, <2>2, <2>3 DEF Follow, Repeats
    <3>2. Show(v, a, u) = ApplyRoster(v, a.id, a.roster, u.roster)
      BY <1>4, <3>1 DEF Show
    <3>3. OnePerId(a.roster.players) /\ OnePerId(u.roster.players)
      BY <1>4 DEF Ready
    <3>4. Sees(Show(v, a, u), Follow(a, u))
      BY <2>1, <3>1, <3>2, <3>3, RosterShown
    <3>5. Follow(a, u) = [id |-> a.id, roster |-> u.roster, started |-> a.started, loaded |-> a.loaded]
      BY <1>2, <3>1
    <3>6. Followed(a, u, Follow(a, u))
      BY <1>2, <1>4, <2>1, <2>3, <3>5 DEF Followed, Newer, AgentRecords
    <3> QED
      BY <3>4, <3>6
  <2>4. CASE ~(u.roster.revision > a.roster.revision)
    <3>1. Follow(a, u) = a /\ Repeats(a, u)
      BY <1>4, <2>2, <2>4 DEF Follow, Repeats
    <3>2. Show(v, a, u) = v
      BY <3>1 DEF Show
    <3> QED
      BY <1>1, <1>2, <1>4, <2>4, <3>1, <3>2 DEF Followed, Newer
  <2> QED
    BY <2>3, <2>4
<1>5. CASE u.type = "Chat"
  <2>1. Follow(a, u) = a /\ ~Repeats(a, u) /\ ~HasRoster(u)
    BY <1>5 DEF Follow, Repeats, HasRoster
  <2>2. u.player \in IdsOf(a.roster.players)
    BY <1>5 DEF Fits
  <2>3. Show(v, a, u) = v
    BY <1>5, <2>1, <2>2, MentionKnown DEF Show
  <2> QED
    BY <1>1, <1>2, <1>5, <2>1, <2>3 DEF Followed, Newer
<1>6. CASE u.type = "Start"
  <2>1. Follow(a, u) = [id |-> a.id, roster |-> a.roster, started |-> TRUE, loaded |-> a.loaded]
    BY <1>2, <1>6 DEF Follow
  <2>2. ~HasRoster(u)
    BY <1>6 DEF HasRoster
  <2>3. Followed(a, u, Follow(a, u))
    BY <1>2, <1>6, <2>1, <2>2 DEF Followed, Newer, AgentRecords
  <2>4. CASE a.started = TRUE
    <3>1. Show(v, a, u) = v
      BY <1>6, <2>4 DEF Show, Repeats
    <3>2. Follow(a, u) = a
      BY <1>2, <2>1, <2>4
    <3> QED
      BY <2>3, <3>1, <3>2
  <2>5. CASE a.started = FALSE
    <3>1. ~Repeats(a, u)
      BY <1>6, <2>5 DEF Repeats
    <3>2. Show(v, a, u) = [v EXCEPT !.started = TRUE, !.misled = @ \/ v.started]
      BY <1>6, <3>1 DEF Show
    <3>3. Show(v, a, u) = [known |-> v.known, slots |-> v.slots, started |-> TRUE,
                           loaded |-> v.loaded, misled |-> v.misled \/ v.started]
      BY <1>3, <3>2
    <3>4. Show(v, a, u) = [known |-> v.known, slots |-> v.slots, started |-> TRUE,
                           loaded |-> v.loaded, misled |-> FALSE]
      BY <1>1, <2>5, <3>3
    <3>5. Show(v, a, u) \in Views
      BY <1>3, <3>4 DEF Views
    <3>6. Follow(a, u) \in AgentRecords
      BY <2>3 DEF Followed
    <3> QED
      BY <1>1, <2>1, <2>3, <3>4, <3>5, <3>6 DEF Sees
  <2> QED
    BY <1>2, <2>4, <2>5
<1>7. CASE u.type = "PlayerLoaded"
  <2>1. u.player \in Ids /\ ~HasRoster(u)
    BY <1>7, UpdateTyped DEF HasRoster
  <2>2. Follow(a, u) = [id |-> a.id, roster |-> a.roster, started |-> a.started,
                        loaded |-> a.loaded \cup {u.player}]
    BY <1>2, <1>7 DEF Follow
  <2>3. Followed(a, u, Follow(a, u))
    BY <1>2, <1>7, <2>1, <2>2 DEF Followed, Newer, AgentRecords
  <2>4. a.started = TRUE /\ u.player \in IdsOf(a.roster.players)
    BY <1>2, <1>7 DEF Fits
  <2>5. CASE u.player \in a.loaded
    <3>1. Show(v, a, u) = v
      BY <1>7, <2>5 DEF Show, Repeats
    <3>2. a.loaded \cup {u.player} = a.loaded
      BY <2>5
    <3>3. Follow(a, u) = a
      BY <1>2, <2>2, <3>2
    <3> QED
      BY <2>3, <3>1, <3>3
  <2>6. CASE u.player \notin a.loaded
    <3>1. ~Repeats(a, u)
      BY <1>7, <2>6 DEF Repeats
    <3>2. Mention(v, u.player) = v
      BY <2>4, MentionKnown
    <3>3. Show(v, a, u) = [v EXCEPT !.loaded = @ \cup {u.player},
                             !.misled = @ \/ ~v.started \/ u.player \in v.loaded]
      BY <1>7, <3>1, <3>2 DEF Show
    <3>4. Show(v, a, u) = [known |-> v.known, slots |-> v.slots, started |-> v.started,
                           loaded |-> v.loaded \cup {u.player},
                           misled |-> v.misled \/ ~v.started \/ u.player \in v.loaded]
      BY <1>3, <3>3
    <3>5. Show(v, a, u) = [known |-> v.known, slots |-> v.slots, started |-> v.started,
                           loaded |-> v.loaded \cup {u.player}, misled |-> FALSE]
      BY <1>1, <2>4, <2>6, <3>4
    <3>6. Show(v, a, u) \in Views
      BY <1>3, <2>1, <3>5 DEF Views
    <3>7. Follow(a, u) \in AgentRecords
      BY <2>3 DEF Followed
    <3> QED
      BY <1>1, <2>2, <2>3, <3>5, <3>6, <3>7 DEF Sees
  <2> QED
    BY <2>5, <2>6
<1>8. CASE u.type = "GameFrame"
  <2>1. Follow(a, u) = a /\ ~Repeats(a, u) /\ ~HasRoster(u)
    BY <1>8 DEF Follow, Repeats, HasRoster
  <2>2. ~AwaitsLoaded(v)
    <3>1. IdsOf(v.known) \cup {agent.id} \subseteq IdsOf(a.roster.players)
      BY <1>1 DEF Remote, IdsOf, Ready
    <3>2. IdsOf(a.roster.players) \subseteq v.loaded
      BY <1>1, <1>8 DEF Ready
    <3> QED
      BY <3>1, <3>2 DEF AwaitsLoaded
  <2>3. Show(v, a, u) = [v EXCEPT !.misled = @ \/ AwaitsLoaded(v)]
    BY <1>8, <2>1 DEF Show
  <2>4. Show(v, a, u) = [known |-> v.known, slots |-> v.slots, started |-> v.started,
                         loaded |-> v.loaded, misled |-> v.misled \/ AwaitsLoaded(v)]
    BY <1>3, <2>3
  <2>5. Show(v, a, u) = [known |-> v.known, slots |-> v.slots, started |-> v.started,
                         loaded |-> v.loaded, misled |-> v.misled]
    BY <1>1, <2>2, <2>4
  <2>6. Show(v, a, u) = v
    BY <1>3, <2>5
  <2> QED
    BY <1>1, <1>2, <1>8, <2>1, <2>6 DEF Followed, Newer
<1>9. CASE u.type = "PlayerLeft"
  <2>1. HasRoster(u) /\ u.roster \in Roster /\ u.player \in Ids
    BY <1>9, UpdateTyped DEF HasRoster
  <2>2. /\ a.started = TRUE /\ u.player \in IdsOf(a.roster.players)
        /\ u.roster.revision > a.roster.revision
    BY <1>2, <1>9 DEF Fits
  <2>3. Follow(a, u) = [a EXCEPT !.loaded = @ \ {u.player}, !.roster = u.roster]
    BY <1>9 DEF Follow
  <2>4. Follow(a, u) = [id |-> a.id, roster |-> u.roster, started |-> a.started,
                        loaded |-> a.loaded \ {u.player}]
    BY <1>2, <2>3
  <2>5. Followed(a, u, Follow(a, u))
    BY <1>2, <1>9, <2>1, <2>2, <2>4 DEF Followed, Newer, AgentRecords
  <2>6. ~Repeats(a, u) /\ Mention(v, u.player) = v
    BY <1>9, <2>2, MentionKnown DEF Repeats
  <2>7. Show(v, a, u) = [v EXCEPT !.known = {p \in @ : p.id # u.player}, !.loaded = @ \ {u.player}]
    BY <1>9, <2>6 DEF Show
  <2>8. Show(v, a, u) = [known |-> {p \in v.known : p.id # u.player}, slots |-> v.slots,
                         started |-> v.started, loaded |-> v.loaded \ {u.player}, misled |-> v.misled]
    BY <1>3, <2>7
  <2>9. {p \in v.known : p.id # u.player} = Remote(u.roster, a.id)
    BY <1>1, <1>9 DEF Ready, Precedes, Remote
  <2>10. Show(v, a, u) \in Views
    BY <1>3, <2>8 DEF Views
  <2>11. Follow(a, u) \in AgentRecords
    BY <2>5 DEF Followed
  <2>12. Sees(Show(v, a, u), Follow(a, u))
    BY <1>1, <2>2, <2>4, <2>8, <2>9, <2>10, <2>11 DEF Sees
  <2> QED
    BY <2>5, <2>12
<1> QED
  BY <1>4, <1>5, <1>6, <1>7, <1>8, <1>9, UpdateTyped

----------------------------------------------------------------------------
(* The steps of the agent. *)

LEMMA GiveUpKeeps ==
  ASSUME RosterInv, GiveUp, UNCHANGED <<roomVars, unsent>>
  PROVE  RosterInv'
<1>1. /\ stage' = "done" /\ queue' = <<>> /\ lagged' = FALSE /\ agent' = agent /\ view' = view
      /\ revision' = revision /\ players' = players /\ started' = started /\ loaded' = loaded
      /\ playing' = playing /\ chats' = chats /\ ticks' = ticks /\ unsent' = unsent
  BY DEF GiveUp, roomVars
<1>2. queue' \in Seq(Updates) /\ Len(queue') = 0 /\ OnTheWay' = {}
  BY <1>1 DEF OnTheWay
<1>3. RosterTypeOK' /\ ViewTyped' /\ view'.misled = FALSE
  <2>1. Len(queue') <= Capacity
    BY <1>2, RosterAssumption DEF RosterAssumption
  <2>2. RosterTypeOK'
    BY <1>1, <1>2, <2>1 DEF RosterInv, RosterTypeOK
  <2> QED
    BY <1>1, <2>2 DEF RosterInv, ViewTyped
<1>4. \A r \in Rosters' : r \in Rosters
  BY <1>1, <1>2 DEF Rosters
<1>5. RoomInv' /\ RostersInv' /\ QueueInv' /\ LeftInv'
  BY <1>1, <1>2, <1>4 DEF RosterInv, RoomInv, RostersInv, QueueInv, LeftInv
<1>6. MemberInv' /\ ComesInv' /\ ChainInv' /\ FrameInv'
  BY <1>1 DEF MemberInv, ComesInv, ChainInv, FrameInv
<1> QED
  BY <1>3, <1>5, <1>6 DEF RosterInv

(* The first update is taken from the queue. *)
Taken(u) ==
  /\ u \in Updates /\ u \in OnTheWay /\ OnTheWay' \subseteq OnTheWay
  /\ \A w \in OnTheWay : w = u \/ w \in OnTheWay'
  /\ DOMAIN queue = 1..Len(queue) /\ Len(queue) \in Nat /\ 1 \in DOMAIN queue /\ queue[1] = u
  /\ queue' \in Seq(Updates) /\ Len(queue') <= Capacity
  /\ \A k \in DOMAIN queue' : k \in Nat /\ k >= 1 /\ k + 1 \in DOMAIN queue /\ queue'[k] = queue[k + 1]
  /\ \A k \in DOMAIN queue : k > 1 => k - 1 \in DOMAIN queue' /\ queue'[k - 1] = queue[k]

LEMMA HeadTaken ==
  ASSUME RosterTypeOK, queue # <<>>, queue' = Tail(queue)
  PROVE  Taken(Head(queue))
<1>1. /\ queue \in Seq(Updates) /\ Len(queue) <= Capacity /\ Capacity \in Nat
      /\ Len(queue) \in Nat \ {0} /\ DOMAIN queue = 1..Len(queue)
  BY EmptySeq, RosterAssumption DEF RosterTypeOK, RosterAssumption
<1>2. /\ Head(queue) \in Updates /\ queue' \in Seq(Updates) /\ Len(queue') = Len(queue) - 1
      /\ \A k \in 1..Len(queue') : queue'[k] = queue[k + 1]
  BY <1>1, HeadTailProperties
<1>3. DOMAIN queue' = 1..(Len(queue) - 1)
  BY <1>2
<1>4. 1 \in DOMAIN queue /\ queue[1] = Head(queue)
  BY <1>1
<1>5. \A k \in DOMAIN queue' : k \in Nat /\ k >= 1 /\ k + 1 \in DOMAIN queue /\ queue'[k] = queue[k + 1]
  BY <1>1, <1>2, <1>3
<1>6. ASSUME NEW k \in DOMAIN queue, k > 1
      PROVE  k - 1 \in DOMAIN queue' /\ queue'[k - 1] = queue[k]
  <2>1. k \in Int /\ k - 1 \in 1..(Len(queue) - 1) /\ (k - 1) + 1 = k
    BY <1>1, <1>6
  <2>2. k - 1 \in DOMAIN queue' /\ queue'[k - 1] = queue[(k - 1) + 1]
    BY <1>3, <1>5, <2>1
  <2> QED
    BY <2>1, <2>2
<1>7. OnTheWay' \subseteq OnTheWay
  BY <1>5 DEF OnTheWay
<1>8. ASSUME NEW k \in DOMAIN queue PROVE queue[k] = Head(queue) \/ queue[k] \in OnTheWay'
  <2>1. CASE k = 1
    BY <1>4, <2>1
  <2>2. CASE k # 1
    <3>1. k > 1
      BY <1>1, <2>2
    <3>2. k - 1 \in DOMAIN queue' /\ queue'[k - 1] = queue[k]
      BY <1>6, <3>1
    <3> QED
      BY <3>2 DEF OnTheWay
  <2> QED
    BY <2>1, <2>2
<1>9. \A w \in OnTheWay : w = Head(queue) \/ w \in OnTheWay'
  BY <1>8 DEF OnTheWay
<1>10. Head(queue) \in OnTheWay
  BY <1>4 DEF OnTheWay
<1>11. Len(queue') <= Capacity
  BY <1>1, <1>2
<1> QED
  BY <1>1, <1>2, <1>4, <1>5, <1>6, <1>7, <1>9, <1>10, <1>11 DEF Taken

LEMMA MemberSees ==
  ASSUME RosterInv, stage = "member"
  PROVE  Sees(view, agent) /\ OnePerId(agent.roster.players)
<1>1. agent \in AgentRecords /\ view \in Views /\ view.misled = FALSE
  BY DEF RosterInv, RosterTypeOK, ViewTyped, AgentRecords
<1>2. /\ view.known = Remote(agent.roster, agent.id)
      /\ ~agent.started => view.slots = SlotsOf(agent.roster)
      /\ view.started = agent.started /\ view.loaded = agent.loaded
  BY DEF RosterInv, MemberInv
<1>3. OnePerId(agent.roster.players)
  BY RosterTyped DEF RosterInv, RostersInv, OfRoom
<1> QED
  BY <1>1, <1>2, <1>3 DEF Sees

(* The agent has what its next update needs. *)
LEMMA DeliverReady ==
  ASSUME RosterInv, NEW u, stage = "member", ~lagged, Taken(u), Fits(agent, u)
  PROVE  Ready(agent, u)
<1>1. OnePerId(agent.roster.players)
  BY MemberSees
<1>2. ASSUME u.type = "Roster" PROVE OnePerId(u.roster.players)
  <2>1. u.roster \in Rosters
    BY <1>2, RosterTyped DEF RosterInv, Taken, HasRoster
  <2> QED
    BY <2>1 DEF RosterInv, RostersInv, OfRoom
<1>3. ASSUME u.type = "PlayerLeft" PROVE Precedes(agent.roster, u)
  <2>1. IsNews(u)
    BY <1>3 DEF Fits, IsNews, HasRoster
  <2>2. 1 \in DOMAIN queue /\ queue[1] = u
    BY DEF Taken
  <2>3. \/ Precedes(agent.roster, queue[1])
        \/ \E j \in 1..(1 - 1) : IsNews(queue[j]) /\ Precedes(queue[j].roster, queue[1])
    BY <1>3, <2>1, <2>2 DEF RosterInv, ChainInv
  <2> QED
    BY <2>2, <2>3
<1>4. ASSUME u.type = "GameFrame" PROVE IdsOf(agent.roster.players) \subseteq agent.loaded
  <2>1. 1 \in DOMAIN queue /\ queue[1] = u
    BY DEF Taken
  <2>2. AllLoadBy(agent.roster, 1, queue, agent.loaded)
    BY <1>4, <2>1 DEF RosterInv, FrameInv
  <2>3. 1..(1 - 1) = {}
    OBVIOUS
  <2> QED
    BY <2>2, <2>3 DEF AllLoadBy, LoadsBy
<1>5. agent.id \in IdsOf(agent.roster.players)
  BY DEF RosterInv, MemberInv
<1> QED
  BY <1>1, <1>2, <1>3, <1>4, <1>5 DEF Ready

(* The agent's roster is never older than the one it takes. *)
Advanced(u) ==
  /\ agent'.roster \in Rosters
  /\ agent'.roster.revision >= agent.roster.revision
  /\ HasRoster(u) => agent'.roster.revision >= u.roster.revision
  /\ Newer(agent, u) => agent'.roster = u.roster
  /\ ~Newer(agent, u) => agent'.roster = agent.roster

LEMMA DeliverAdvances ==
  ASSUME RosterInv, NEW u, Taken(u), Followed(agent, u, agent')
  PROVE  Advanced(u)
<1>1. /\ agent.roster \in Rosters /\ agent.roster.revision \in Nat
      /\ HasRoster(u) => u.roster \in Rosters /\ u.roster.revision \in Nat
  BY RosterTyped DEF RosterInv, Taken
<1>2. CASE Newer(agent, u)
  BY <1>1, <1>2 DEF Followed, Newer, Advanced
<1>3. CASE ~Newer(agent, u)
  BY <1>1, <1>3 DEF Followed, Newer, Advanced
<1> QED
  BY <1>2, <1>3

LEMMA ChainShifts ==
  ASSUME RosterInv, NEW u, stage = "member", ~lagged, Taken(u), Advanced(u)
  PROVE  ChainInv'
<1> SUFFICES ASSUME NEW k \in DOMAIN queue', queue'[k].type = "PlayerLeft",
                    HasRoster(queue'[k]), queue'[k].roster.revision > agent'.roster.revision
             PROVE  \/ Precedes(agent'.roster, queue'[k])
                    \/ \E j \in 1..(k - 1) :
                         /\ HasRoster(queue'[j]) /\ queue'[j].roster.revision > agent'.roster.revision
                         /\ Precedes(queue'[j].roster, queue'[k])
  BY DEF ChainInv, IsNews
<1> DEFINE w == queue[k + 1]
<1>1. k \in Nat /\ k >= 1 /\ k + 1 \in DOMAIN queue /\ queue'[k] = w /\ (k + 1) - 1 = k /\ w \in OnTheWay
  BY DEF Taken, OnTheWay
<1>2. /\ agent.roster \in Rosters /\ agent.roster.revision \in Nat
      /\ agent'.roster \in Rosters /\ agent'.roster.revision \in Nat
      /\ w.roster \in Rosters /\ w.roster.revision \in Nat
  BY <1>1, RosterTyped DEF RosterInv, Advanced
<1>3. IsNews(w)
  BY <1>1, <1>2 DEF IsNews, Advanced
<1>4. \/ Precedes(agent.roster, w)
      \/ \E j \in 1..((k + 1) - 1) : IsNews(queue[j]) /\ Precedes(queue[j].roster, w)
  BY <1>1, <1>3 DEF RosterInv, ChainInv
<1>5. w.roster.revision > agent'.roster.revision
  BY <1>1
<1> HIDE DEF w
<1>6. CASE Precedes(agent.roster, w)
  <2>1. ~Newer(agent, u)
    BY <1>2, <1>5, <1>6 DEF Newer, Precedes, Advanced
  <2> QED
    BY <1>1, <1>6, <2>1 DEF Advanced
<1>7. ASSUME NEW j \in 1..k, IsNews(queue[j]), Precedes(queue[j].roster, w)
      PROVE  \/ Precedes(agent'.roster, w)
             \/ \E i \in 1..(k - 1) :
                  /\ HasRoster(queue'[i]) /\ queue'[i].roster.revision > agent'.roster.revision
                  /\ Precedes(queue'[i].roster, w)
  <2>1. j \in DOMAIN queue /\ j \in Nat
    BY <1>1 DEF Taken
  <2>2. CASE j = 1
    <3>1. queue[j] = u /\ Newer(agent, u)
      BY <1>7, <2>2 DEF Taken, IsNews, Newer
    <3> QED
      BY <1>7, <3>1 DEF Advanced
  <2>3. CASE j # 1
    <3>1. j > 1 /\ j - 1 \in 1..(k - 1)
      BY <1>1, <2>1, <2>3
    <3>2. j - 1 \in DOMAIN queue' /\ queue'[j - 1] = queue[j]
      BY <2>1, <3>1 DEF Taken
    <3>3. queue[j] \in OnTheWay /\ HasRoster(queue[j])
      BY <1>7, <2>1 DEF OnTheWay, IsNews
    <3>4. queue[j].roster \in Rosters /\ queue[j].roster.revision \in Nat
      BY <3>3, RosterTyped DEF RosterInv
    <3>5. CASE queue[j].roster.revision > agent'.roster.revision
      BY <1>7, <3>1, <3>2, <3>3, <3>5
    <3>6. CASE ~(queue[j].roster.revision > agent'.roster.revision)
      <4>1. queue[j].roster.revision = agent'.roster.revision
        BY <1>2, <1>5, <1>7, <3>4, <3>6 DEF Precedes
      <4>2. queue[j].roster.players = agent'.roster.players
        BY <1>2, <3>4, <4>1 DEF RosterInv, RostersInv
      <4> QED
        BY <1>7, <4>1, <4>2 DEF Precedes
    <3> QED
      BY <3>5, <3>6
  <2> QED
    BY <2>2, <2>3
<1> QED
  BY <1>1, <1>4, <1>6, <1>7

(* What had loaded or gone by then still has, one update later. *)
LEMMA LoadsShift ==
  ASSUME RosterInv, NEW u, Taken(u), Followed(agent, u, agent'), Advanced(u),
         NEW r \in Rosters, r.revision >= agent'.roster.revision,
         NEW k \in DOMAIN queue', AllLoadBy(r, k + 1, queue, agent.loaded)
  PROVE  AllLoadBy(r, k, queue', agent'.loaded)
<1> SUFFICES ASSUME NEW i \in IdsOf(r.players) PROVE LoadsBy(i, r, k, queue', agent'.loaded)
  BY DEF AllLoadBy
<1>1. k \in Nat /\ k >= 1 /\ k + 1 \in DOMAIN queue /\ (k + 1) - 1 = k
  BY DEF Taken
<1>2. /\ r.revision \in Nat /\ agent'.roster.revision \in Nat
      /\ HasRoster(u) => u.roster.revision \in Nat
  BY RosterTyped DEF RosterInv, Advanced, Taken
<1>3. \A j \in 1..k : j = 1 \/ (j - 1 \in 1..(k - 1) /\ queue'[j - 1] = queue[j])
  <2> SUFFICES ASSUME NEW j \in 1..k, j # 1 PROVE j - 1 \in 1..(k - 1) /\ queue'[j - 1] = queue[j]
    OBVIOUS
  <2>1. j \in DOMAIN queue /\ j > 1 /\ j - 1 \in 1..(k - 1)
    BY <1>1 DEF Taken
  <2> QED
    BY <2>1 DEF Taken
<1>4. queue[1] = u
  BY DEF Taken
<1>5. CASE i \in agent.loaded
  <2>1. CASE u.type = "PlayerLeft"
    <3>1. HasRoster(u) /\ u \in OnTheWay
      BY <2>1 DEF HasRoster, Taken
    <3>2. r.revision >= u.roster.revision
      BY <1>2, <3>1 DEF Advanced
    <3>3. GoneFrom(u, r)
      BY <2>1, <3>1 DEF RosterInv, LeftInv
    <3>4. i # u.player
      BY <3>2, <3>3 DEF GoneFrom
    <3> QED
      BY <1>5, <2>1, <3>4 DEF Followed, LoadsBy
  <2>2. CASE u.type = "PlayerLoaded"
    BY <1>5, <2>2 DEF Followed, LoadsBy
  <2>3. CASE u.type \notin {"PlayerLeft", "PlayerLoaded"}
    BY <1>5, <2>3 DEF Followed, LoadsBy
  <2> QED
    BY <2>1, <2>2, <2>3
<1>6. ASSUME NEW j \in 1..k, queue[j].type = "PlayerLoaded", queue[j].player = i
      PROVE  LoadsBy(i, r, k, queue', agent'.loaded)
  <2>1. CASE j = 1
    BY <1>4, <1>6, <2>1 DEF Followed, LoadsBy
  <2>2. CASE j # 1
    BY <1>3, <1>6, <2>2 DEF LoadsBy
  <2> QED
    BY <2>1, <2>2
<1>7. ASSUME NEW j \in 1..k, HasRoster(queue[j]), queue[j].roster.revision > r.revision,
             i \notin IdsOf(queue[j].roster.players)
      PROVE  LoadsBy(i, r, k, queue', agent'.loaded)
  <2>1. j # 1
    BY <1>2, <1>4, <1>7 DEF Advanced
  <2> QED
    BY <1>3, <1>7, <2>1 DEF LoadsBy
<1>8. LoadsBy(i, r, k + 1, queue, agent.loaded)
  BY DEF AllLoadBy
<1> QED
  BY <1>1, <1>5, <1>6, <1>7, <1>8 DEF LoadsBy

LEMMA FramesShift ==
  ASSUME RosterInv, NEW u, stage = "member", ~lagged, Taken(u), Followed(agent, u, agent'), Advanced(u)
  PROVE  FrameInv'
<1> SUFFICES ASSUME NEW k \in DOMAIN queue', queue'[k].type = "GameFrame"
             PROVE  /\ AllLoadBy(agent'.roster, k, queue', agent'.loaded)
                    /\ \A m \in 1..(k - 1) :
                         HasRoster(queue'[m]) /\ queue'[m].roster.revision > agent'.roster.revision =>
                           AllLoadBy(queue'[m].roster, k, queue', agent'.loaded)
  BY DEF FrameInv, IsNews
<1>1. k \in Nat /\ k >= 1 /\ k + 1 \in DOMAIN queue /\ queue'[k] = queue[k + 1] /\ (k + 1) - 1 = k
  BY DEF Taken
<1>2. /\ AllLoadBy(agent.roster, k + 1, queue, agent.loaded)
      /\ \A m \in 1..k : IsNews(queue[m]) => AllLoadBy(queue[m].roster, k + 1, queue, agent.loaded)
  BY <1>1 DEF RosterInv, FrameInv
<1>3. agent'.roster \in Rosters /\ agent'.roster.revision \in Nat /\ agent.roster.revision \in Nat
  BY RosterTyped DEF RosterInv, Advanced
<1>4. AllLoadBy(agent'.roster, k + 1, queue, agent.loaded)
  <2>1. CASE Newer(agent, u)
    <3>1. agent'.roster = queue[1].roster /\ IsNews(queue[1]) /\ 1 \in 1..k
      BY <1>1, <2>1 DEF Advanced, Newer, IsNews, Taken
    <3> QED
      BY <1>2, <3>1
  <2>2. CASE ~Newer(agent, u)
    BY <1>2, <2>2 DEF Advanced
  <2> QED
    BY <2>1, <2>2
<1>5. AllLoadBy(agent'.roster, k, queue', agent'.loaded)
  <2>1. agent'.roster.revision >= agent'.roster.revision
    BY <1>3
  <2> QED
    BY <1>3, <1>4, <2>1, LoadsShift
<1>6. ASSUME NEW m \in 1..(k - 1), HasRoster(queue'[m]),
             queue'[m].roster.revision > agent'.roster.revision
      PROVE  AllLoadBy(queue'[m].roster, k, queue', agent'.loaded)
  <2>1. m \in Nat /\ m + 1 \in 1..k /\ m \in DOMAIN queue'
    <3>1. k - 1 \in DOMAIN queue' \/ k = 1
      BY <1>1 DEF Taken
    <3>2. DOMAIN queue' = 1..Len(queue') /\ Len(queue') \in Nat
      BY DEF Taken
    <3> QED
      BY <1>1, <3>2
  <2>2. queue'[m] = queue[m + 1] /\ m + 1 \in DOMAIN queue
    BY <2>1 DEF Taken
  <2>3. queue[m + 1] \in OnTheWay
    BY <2>2 DEF OnTheWay
  <2>4. queue'[m].roster \in Rosters /\ queue'[m].roster.revision \in Nat
    BY <1>6, <2>2, <2>3, RosterTyped DEF RosterInv
  <2>5. IsNews(queue[m + 1])
    BY <1>3, <1>6, <2>2, <2>4 DEF IsNews, Advanced
  <2>6. AllLoadBy(queue'[m].roster, k + 1, queue, agent.loaded)
    BY <1>2, <2>1, <2>2, <2>5
  <2>7. queue'[m].roster.revision >= agent'.roster.revision
    BY <1>3, <1>6, <2>4
  <2> QED
    BY <2>4, <2>6, <2>7, LoadsShift
<1> QED
  BY <1>5, <1>6

LEMMA DeliverKeeps ==
  ASSUME RosterInv, Deliver
  PROVE  RosterInv'
<1> DEFINE u == Head(queue)
<1>1. /\ stage = "member" /\ ~lagged /\ queue # <<>>
      /\ revision' = revision /\ players' = players /\ started' = started /\ loaded' = loaded
      /\ playing' = playing /\ chats' = chats /\ ticks' = ticks /\ unsent' = unsent
  BY DEF Deliver, roomVars
<1>2. CASE ~Fits(agent, u)
  BY <1>2, GiveUpKeeps DEF Deliver
<1>3. CASE Fits(agent, u)
  <2>1. /\ queue' = Tail(queue) /\ agent' = Follow(agent, u) /\ view' = Show(view, agent, u)
        /\ stage' = stage /\ lagged' = lagged
    BY <1>3 DEF Deliver
  <2>2. Taken(u)
    BY <1>1, <2>1, HeadTaken DEF RosterInv
  <2> HIDE DEF u
  <2>3. Sees(view, agent)
    BY <1>1, MemberSees
  <2>4. Ready(agent, u)
    BY <1>1, <1>3, <2>2, DeliverReady
  <2>5. u \in Updates /\ u \in OnTheWay
    BY <2>2 DEF Taken
  <2>6. Followed(agent, u, Follow(agent, u)) /\ Sees(Show(view, agent, u), Follow(agent, u))
    BY <1>3, <2>3, <2>4, <2>5, FollowShown
  <2>7. Followed(agent, u, agent') /\ Sees(view', agent')
    BY <2>1, <2>6
  <2>8. Advanced(u)
    BY <2>2, <2>7, DeliverAdvances
  <2>9. ChainInv' /\ FrameInv'
    BY <1>1, <2>2, <2>7, <2>8, ChainShifts, FramesShift
  <2>10. OnTheWay' \subseteq OnTheWay /\ \A w \in OnTheWay : w = u \/ w \in OnTheWay'
    BY <2>2 DEF Taken
  <2>11. \A r \in Rosters' : r \in Rosters
    BY <1>1, <2>8, <2>10 DEF Rosters, Advanced
  <2>12. agent'.id = agent.id /\ agent' \in AgentRecords /\ view' \in Views /\ view'.misled = FALSE
    BY <2>7 DEF Followed, Sees
  <2>13. RosterTypeOK' /\ ViewTyped'
    <3>1. view'.known \subseteq Player /\ view'.slots \subseteq Ids
      BY <2>12, ViewFields
    <3>2. queue' \in Seq(Updates) /\ Len(queue') <= Capacity
      BY <2>2 DEF Taken
    <3> QED
      BY <1>1, <2>1, <2>12, <3>1, <3>2 DEF RosterInv, RosterTypeOK, ViewTyped, AgentRecords
  <2>14. RoomInv' /\ RostersInv'
    BY <1>1, <2>11 DEF RosterInv, RoomInv, RostersInv
  <2>15. QueueInv' /\ LeftInv'
    BY <1>1, <2>1, <2>10, <2>11, <2>12 DEF RosterInv, QueueInv, LeftInv
  <2>16. MemberInv'
    <3>1. agent'.id \in IdsOf(agent'.roster.players)
      <4>1. CASE Newer(agent, u)
        <5>1. agent'.roster = u.roster
          BY <2>8, <4>1 DEF Advanced
        <5>2. CASE u.type = "Roster"
          BY <1>3, <2>12, <4>1, <5>1, <5>2 DEF Fits, Newer
        <5>3. CASE u.type = "PlayerLeft"
          BY <1>1, <2>5, <2>12, <5>1, <5>3 DEF RosterInv, LeftInv
        <5> QED
          BY <4>1, <5>2, <5>3 DEF Newer, HasRoster
      <4>2. CASE ~Newer(agent, u)
        BY <1>1, <2>8, <2>12, <4>2 DEF Advanced, RosterInv, MemberInv
      <4> QED
        BY <4>1, <4>2
    <3>2. agent'.started => started
      <4>1. agent'.started = TRUE => agent.started = TRUE \/ u.type = "Start"
        BY <2>7 DEF Followed
      <4>2. u.type = "Start" => started
        BY <2>5 DEF RosterInv, QueueInv
      <4>3. agent.started => started
        BY <1>1 DEF RosterInv, MemberInv
      <4>4. agent'.started \in BOOLEAN
        BY <2>12, AgentFields
      <4> QED
        BY <4>1, <4>2, <4>3, <4>4
    <3>3. /\ view'.known = Remote(agent'.roster, agent'.id)
          /\ ~agent'.started => view'.slots = SlotsOf(agent'.roster)
          /\ view'.started = agent'.started /\ view'.loaded = agent'.loaded
      <4>1. agent'.started \in BOOLEAN
        BY <2>12, AgentFields
      <4> QED
        BY <2>7, <4>1 DEF Sees
    <3>4. [id |-> agent'.id, name |-> Me] \in players'
      BY <1>1, <2>12 DEF RosterInv, MemberInv
    <3> QED
      BY <1>1, <3>1, <3>2, <3>3, <3>4 DEF MemberInv
  <2>17. ComesInv'
    <3>1. /\ \E r \in Rosters : r.revision = revision
          /\ started => agent.started \/ \E w \in OnTheWay : w.type = "Start"
          /\ \A i \in loaded : i \in agent.loaded
               \/ \E w \in OnTheWay : w.type = "PlayerLoaded" /\ w.player = i
      BY <1>1 DEF RosterInv, ComesInv
    <3>2. \E r \in Rosters' : r.revision = revision
      <4>1. PICK r \in Rosters : r.revision = revision
        BY <3>1
      <4>2. /\ agent'.roster \in Rosters' /\ agent'.roster.revision \in Nat /\ revision \in Nat
            /\ agent'.roster.revision <= revision
        BY <2>8, RosterTyped DEF RosterInv, RostersInv, OfRoom, Advanced, Rosters
      <4>3. CASE r = agent.roster
        <5>1. agent'.roster.revision = revision
          BY <4>1, <4>2, <4>3, <2>8 DEF Advanced
        <5> QED
          BY <4>2, <5>1
      <4>4. CASE r \in Rosters'
        BY <4>1, <4>4
      <4>5. CASE HasRoster(u) /\ r = u.roster
        <5>1. agent'.roster.revision = revision
          BY <4>1, <4>2, <4>5, <2>8 DEF Advanced
        <5> QED
          BY <4>2, <5>1
      <4> QED
        BY <1>1, <2>10, <4>3, <4>4, <4>5 DEF Rosters
    <3>3. started => agent'.started \/ \E w \in OnTheWay' : w.type = "Start"
      <4>1. agent.started \in BOOLEAN /\ agent'.started \in BOOLEAN
        BY <2>3, <2>12, AgentFields DEF Sees
      <4>2. agent.started = TRUE \/ u.type = "Start" => agent'.started = TRUE
        BY <2>7 DEF Followed
      <4> QED
        BY <2>10, <3>1, <4>1, <4>2
    <3>4. ASSUME NEW i \in loaded
          PROVE  i \in agent'.loaded \/ \E w \in OnTheWay' : w.type = "PlayerLoaded" /\ w.player = i
      <4>1. u.type = "PlayerLeft" => u.player # i
        <5>1. i \in IdsOf(players)
          BY DEF RosterInv, RoomInv
        <5> QED
          BY <2>5, <5>1 DEF RosterInv, LeftInv
      <4>2. i \in agent.loaded => i \in agent'.loaded
        BY <2>7, <4>1 DEF Followed
      <4>3. u.type = "PlayerLoaded" /\ u.player = i => i \in agent'.loaded
        BY <2>7 DEF Followed
      <4> QED
        BY <2>10, <3>1, <4>2, <4>3
    <3> QED
      BY <1>1, <3>2, <3>3, <3>4 DEF ComesInv
  <2> QED
    BY <2>9, <2>12, <2>13, <2>14, <2>15, <2>16, <2>17 DEF RosterInv
<1> QED
  BY <1>2, <1>3

(* The agent has the room's current roster, and knows who has loaded. *)
Recovered(b, w) ==
  /\ Sees(w, b) /\ b.id = agent.id
  /\ b.roster = agent.roster \/ b.roster = CurrentRoster(revision, players)
  /\ b.roster.revision = revision /\ b.roster.players = players
  /\ b.started = started /\ loaded \subseteq b.loaded

LEMMA RecoveredKeeps ==
  ASSUME RosterInv, stage = "member", ~playing, Recovered(agent', view'), lagged' = FALSE,
         UNCHANGED <<roomVars, unsent, stage, queue>>
  PROVE  RosterInv'
<1>1. /\ revision' = revision /\ players' = players /\ started' = started /\ loaded' = loaded
      /\ playing' = playing /\ chats' = chats /\ ticks' = ticks /\ unsent' = unsent
      /\ stage' = stage /\ queue' = queue
  BY DEF roomVars
<1>2. OnTheWay' = OnTheWay
  BY <1>1 DEF OnTheWay
<1>3. /\ agent' \in AgentRecords /\ view' \in Views /\ view'.misled = FALSE /\ agent'.id = agent.id
      /\ agent'.roster.revision = revision /\ agent'.roster.players = players
      /\ agent'.started = started /\ loaded \subseteq agent'.loaded
      /\ agent'.roster = agent.roster \/ agent'.roster = CurrentRoster(revision, players)
  BY DEF Recovered, Sees
<1>4. RosterTypeOK' /\ ViewTyped'
  <2>1. view'.known \subseteq Player /\ view'.slots \subseteq Ids
    BY <1>3, ViewFields
  <2> QED
    BY <1>1, <1>3, <2>1 DEF RosterInv, RosterTypeOK, ViewTyped, AgentRecords
<1>5. \A r \in Rosters' : r \in Rosters \/ r = CurrentRoster(revision', players')
  BY <1>1, <1>2, <1>3 DEF Rosters
<1>6. RoomInv' /\ QueueInv'
  BY <1>1, <1>2 DEF RosterInv, RoomInv, QueueInv
<1>7. RostersInv'
  <2>1. OnePerId(players')
    BY <1>6 DEF RoomInv, OnePerId
  <2> QED
    BY <1>1, <1>5, <2>1, RostersGrow DEF RosterInv
<1>8. LeftInv'
  <2> SUFFICES ASSUME NEW w \in OnTheWay, w.type = "PlayerLeft", NEW r \in Rosters' PROVE GoneFrom(w, r)
    BY <1>1, <1>2, <1>3 DEF RosterInv, LeftInv
  <2>1. CASE r \in Rosters
    BY <2>1 DEF RosterInv, LeftInv
  <2>2. CASE r = CurrentRoster(revision', players')
    BY <1>1, <2>2 DEF RosterInv, LeftInv, GoneFrom, CurrentRoster
  <2> QED
    BY <1>5, <2>1, <2>2
<1>9. MemberInv'
  <2>1. [id |-> agent.id, name |-> Me] \in players
    BY DEF RosterInv, MemberInv
  <2>2. agent.id \in IdsOf(players)
    BY <2>1 DEF IdsOf
  <2>3. started \in BOOLEAN
    BY DEF RosterInv, RosterTypeOK
  <2>4. /\ view'.known = Remote(agent'.roster, agent'.id)
        /\ ~agent'.started => view'.slots = SlotsOf(agent'.roster)
        /\ view'.started = agent'.started /\ view'.loaded = agent'.loaded
    BY <1>3, <2>3 DEF Recovered, Sees
  <2> QED
    BY <1>1, <1>3, <2>1, <2>2, <2>4 DEF MemberInv
<1>10. ComesInv'
  <2>1. agent'.roster \in Rosters'
    BY DEF Rosters
  <2> QED
    BY <1>1, <1>3, <2>1 DEF ComesInv
<1>11. ChainInv'
  <2> SUFFICES ASSUME NEW k \in DOMAIN queue, HasRoster(queue[k]),
                      queue[k].roster.revision > agent'.roster.revision
               PROVE  FALSE
    BY <1>1 DEF ChainInv, IsNews
  <2>1. queue[k].roster \in Rosters
    BY RosterTyped DEF RosterInv, OnTheWay
  <2>2. queue[k].roster.revision \in Nat /\ queue[k].roster.revision <= revision /\ revision \in Nat
    BY <2>1, RosterTyped DEF RosterInv, RostersInv, OfRoom
  <2> QED
    BY <1>3, <2>2
<1>12. FrameInv'
  <2>1. \A k \in DOMAIN queue : queue[k].type # "GameFrame"
    BY DEF RosterInv, QueueInv, OnTheWay
  <2> QED
    BY <1>1, <2>1 DEF FrameInv
<1> QED
  BY <1>3, <1>4, <1>6, <1>7, <1>8, <1>9, <1>10, <1>11, <1>12 DEF RosterInv

LEMMA ReplayShown ==
  ASSUME NEW v, NEW a, Sees(v, a), NEW more \in SUBSET Ids, more \cap a.loaded = {}
  PROVE  Sees([v EXCEPT !.loaded = @ \cup more, !.misled = @ \/ more \cap v.loaded # {}],
              [a EXCEPT !.loaded = @ \cup more])
<1> DEFINE w == [v EXCEPT !.loaded = @ \cup more, !.misled = @ \/ more \cap v.loaded # {}]
           b == [a EXCEPT !.loaded = @ \cup more]
<1>1. v \in Views /\ a \in AgentRecords /\ v.misled = FALSE /\ v.loaded = a.loaded
  BY DEF Sees
<1>2. (v.misled \/ more \cap v.loaded # {}) = FALSE
  BY <1>1
<1>3. w = [v EXCEPT !.loaded = v.loaded \cup more, !.misled = FALSE]
  BY <1>2
<1>4. w = [known |-> v.known, slots |-> v.slots, started |-> v.started,
           loaded |-> v.loaded \cup more, misled |-> FALSE]
  <2>1. v = [known |-> v.known, slots |-> v.slots, started |-> v.started,
             loaded |-> v.loaded, misled |-> v.misled]
    BY <1>1, ViewFields
  <2> HIDE DEF w
  <2> QED
    BY <1>3, <2>1
<1>5. b = [id |-> a.id, roster |-> a.roster, started |-> a.started, loaded |-> a.loaded \cup more]
  <2>1. a = [id |-> a.id, roster |-> a.roster, started |-> a.started, loaded |-> a.loaded]
    BY <1>1, AgentFields
  <2>2. b = [a EXCEPT !.loaded = a.loaded \cup more]
    OBVIOUS
  <2> HIDE DEF b
  <2> QED
    BY <2>1, <2>2
<1> HIDE DEF w, b
<1>6. w \in Views
  BY <1>1, <1>4, ViewFields DEF Views
<1>7. b \in AgentRecords
  BY <1>1, <1>5, AgentFields DEF AgentRecords
<1>8. Sees(w, b)
  BY <1>4, <1>5, <1>6, <1>7 DEF Sees
<1> QED
  BY <1>8 DEF w, b

LEMMA RecoverKeeps ==
  ASSUME RosterInv, Recover
  PROVE  RosterInv'
<1> DEFINE current == [type |-> "Roster", roster |-> CurrentRoster(revision, players)]
           begin == [type |-> "Start"]
           a1 == Follow(agent, current)
           v1 == Show(view, agent, current)
           a2 == Follow(a1, begin)
           v2 == Show(v1, a1, begin)
<1>1. stage = "member" /\ lagged /\ UNCHANGED <<roomVars, unsent>>
  BY DEF Recover
<1>2. \/ /\ ~started /\ agent' = a1 /\ view' = v1
         /\ lagged' = FALSE /\ stage' = stage /\ queue' = queue
      \/ /\ started /\ ~playing
         /\ agent' = [a2 EXCEPT !.loaded = @ \cup Replay(a2)]
         /\ view' = [v2 EXCEPT !.loaded = @ \cup Replay(a2),
                       !.misled = @ \/ Replay(a2) \cap v2.loaded # {}]
         /\ lagged' = FALSE /\ stage' = stage /\ queue' = queue
      \/ playing /\ GiveUp
  BY DEF Recover
<1>3. CurrentRoster(revision, players) \in Roster
  BY DEF RosterInv, RosterTypeOK, Roster, CurrentRoster
<1>4. /\ current \in Updates /\ current.type = "Roster" /\ HasRoster(current)
      /\ current.roster = CurrentRoster(revision, players)
      /\ current.roster.revision = revision /\ current.roster.players = players
  BY <1>3, UpdatesMade DEF CurrentRoster, HasRoster
<1>5. begin \in Updates /\ begin.type = "Start" /\ ~HasRoster(begin)
  BY UpdatesMade DEF HasRoster
<1> HIDE DEF current, begin, a1, v1, a2, v2
<1>6. [id |-> agent.id, name |-> Me] \in players /\ agent.id \in IdsOf(agent.roster.players)
  BY <1>1 DEF RosterInv, MemberInv
<1>7. agent.id \in IdsOf(players) /\ OnePerId(players)
  BY <1>6 DEF IdsOf, RosterInv, RoomInv, OnePerId
<1>8. Sees(view, agent) /\ OnePerId(agent.roster.players)
  BY <1>1, MemberSees
<1>9. Followed(agent, current, a1) /\ Sees(v1, a1)
  <2>1. Fits(agent, current)
    BY <1>4, <1>7 DEF Fits
  <2>2. Ready(agent, current)
    BY <1>4, <1>6, <1>7, <1>8 DEF Ready
  <2> QED
    BY <1>4, <1>8, <2>1, <2>2, FollowShown DEF a1, v1
<1>10. /\ agent.roster.revision \in Nat /\ revision \in Nat /\ agent.roster.revision <= revision
       /\ agent.roster.revision = revision => agent.roster.players = players
  BY RosterTyped DEF RosterInv, RostersInv, OfRoom
<1>11. /\ a1.id = agent.id /\ a1.loaded = agent.loaded
       /\ a1.roster = agent.roster \/ a1.roster = CurrentRoster(revision, players)
       /\ a1.roster.revision = revision /\ a1.roster.players = players
       /\ a1.started = TRUE <=> agent.started = TRUE
  <2>1. CASE Newer(agent, current)
    BY <1>4, <1>9, <2>1 DEF Followed
  <2>2. CASE ~Newer(agent, current)
    <3>1. agent.roster.revision = revision
      BY <1>4, <1>10, <2>2 DEF Newer
    <3> QED
      BY <1>4, <1>9, <1>10, <2>2, <3>1 DEF Followed
  <2> QED
    BY <2>1, <2>2
<1>12. started \in BOOLEAN /\ agent.started \in BOOLEAN /\ (agent.started => started)
  BY <1>1, <1>8, AgentFields DEF RosterInv, RosterTypeOK, MemberInv, Sees
<1>13. CASE ~started /\ agent' = a1 /\ view' = v1 /\ lagged' = FALSE /\ stage' = stage /\ queue' = queue
  <2>1. loaded = {} /\ ~playing
    BY <1>13 DEF RosterInv, RoomInv
  <2>2. a1.started = started
    <3>1. a1.started \in BOOLEAN
      BY <1>9, AgentFields DEF Sees
    <3> QED
      BY <1>11, <1>12, <1>13, <3>1
  <2>3. Recovered(agent', view')
    BY <1>9, <1>11, <1>13, <2>1, <2>2 DEF Recovered
  <2> QED
    BY <1>1, <1>13, <2>1, <2>3, RecoveredKeeps
<1>14. CASE /\ started /\ ~playing
            /\ agent' = [a2 EXCEPT !.loaded = @ \cup Replay(a2)]
            /\ view' = [v2 EXCEPT !.loaded = @ \cup Replay(a2),
                          !.misled = @ \/ Replay(a2) \cap v2.loaded # {}]
            /\ lagged' = FALSE /\ stage' = stage /\ queue' = queue
  <2>1. Fits(a1, begin)
    BY <1>5 DEF Fits
  <2>2. Ready(a1, begin)
    BY <1>5, <1>7, <1>11 DEF Ready
  <2>3. Followed(a1, begin, a2) /\ Sees(v2, a2)
    BY <1>5, <1>9, <1>11, <2>1, <2>2, FollowShown DEF a2, v2
  <2>4. a2.id = agent.id /\ a2.roster = a1.roster /\ a2.started = TRUE /\ a2 \in AgentRecords
    BY <1>5, <1>11, <2>3 DEF Followed, Newer
  <2>5. Replay(a2) \in SUBSET Ids /\ Replay(a2) \cap a2.loaded = {}
    BY DEF Replay, RosterInv, RosterTypeOK
  <2>6. Sees(view', agent')
    BY <1>14, <2>3, <2>5, ReplayShown
  <2>7. /\ agent'.id = a2.id /\ agent'.roster = a2.roster /\ agent'.started = a2.started
        /\ agent'.loaded = a2.loaded \cup Replay(a2)
    BY <1>14, <2>4, AgentFields
  <2>8. loaded \subseteq agent'.loaded
    BY <2>7 DEF Replay
  <2>9. Recovered(agent', view')
    BY <1>11, <1>12, <1>14, <2>4, <2>6, <2>7, <2>8 DEF Recovered
  <2> QED
    BY <1>1, <1>14, <2>9, RecoveredKeeps
<1>15. CASE playing /\ GiveUp
  BY <1>1, <1>15, GiveUpKeeps
<1> QED
  BY <1>2, <1>13, <1>14, <1>15

----------------------------------------------------------------------------

LEMMA RosterInitKeeps ==
  ASSUME RosterInit
  PROVE  RosterInv
<1>1. queue \in Seq(Updates) /\ Len(queue) = 0 /\ OnTheWay = {} /\ DOMAIN queue = {}
  BY DEF RosterInit, OnTheWay
<1>2. agent = [id |-> 0, roster |-> CurrentRoster(0, {}), started |-> FALSE, loaded |-> {}]
      /\ view = [known |-> {}, slots |-> {}, started |-> FALSE, loaded |-> {}, misled |-> FALSE]
  BY DEF RosterInit, NoAgent, NoView
<1>3. CurrentRoster(0, {}) = [revision |-> 0, players |-> {}]
  BY DEF CurrentRoster
<1>4. MaxRevision \in Nat /\ MaxChats \in Nat /\ MaxTicks \in Nat /\ MaxPlayers \in Nat /\ Capacity \in Nat
  BY RosterAssumption DEF RosterAssumption
<1>5. CurrentRoster(0, {}) \in Roster
  BY <1>3, <1>4 DEF Roster
<1>6. agent \in [id: 0..MaxPlayers, roster: Roster, started: BOOLEAN, loaded: SUBSET Ids]
  BY <1>2, <1>4, <1>5
<1>7. ViewTyped /\ view.misled = FALSE
  BY <1>2 DEF ViewTyped, Views
<1>8. RosterTypeOK
  <2>1. revision \in 0..MaxRevision /\ chats \in 0..MaxChats /\ ticks \in 0..MaxTicks
        /\ Len(queue) <= Capacity
    BY <1>1, <1>4 DEF RosterInit
  <2>2. view.known \subseteq Player /\ view.slots \subseteq Ids
    BY <1>2
  <2> QED
    BY <1>1, <1>6, <2>1, <2>2 DEF RosterInit, RosterTypeOK
<1>9. Rosters = {agent.roster}
  BY <1>1 DEF Rosters, RosterInit
<1>10. RostersInv
  BY <1>2, <1>3, <1>9 DEF RosterInit, RostersInv, OfRoom, OnePerId
<1>11. RoomInv /\ QueueInv /\ LeftInv
  BY <1>1 DEF RosterInit, RoomInv, QueueInv, LeftInv
<1>12. MemberInv /\ ComesInv /\ ChainInv /\ FrameInv
  BY DEF RosterInit, MemberInv, ComesInv, ChainInv, FrameInv
<1> QED
  BY <1>7, <1>8, <1>10, <1>11, <1>12 DEF RosterInv

LEMMA RosterStutterKeeps ==
  ASSUME RosterInv, UNCHANGED rosterVars
  PROVE  RosterInv'
<1>1. /\ revision' = revision /\ players' = players /\ started' = started /\ loaded' = loaded
      /\ playing' = playing /\ chats' = chats /\ ticks' = ticks /\ unsent' = unsent
      /\ stage' = stage /\ queue' = queue /\ lagged' = lagged /\ agent' = agent /\ view' = view
  BY DEF rosterVars, roomVars, receiverVars
<1>2. /\ OnTheWay' = OnTheWay /\ ViewTyped' /\ view'.misled = FALSE
      /\ ChainInv' /\ FrameInv'
  BY <1>1, SessionKept
<1>3. Rosters' = Rosters
  BY <1>1, <1>2 DEF Rosters
<1>4. RosterTypeOK' /\ RoomInv' /\ MemberInv'
  BY <1>1 DEF RosterInv, RosterTypeOK, RoomInv, MemberInv
<1>5. RostersInv' /\ QueueInv' /\ LeftInv' /\ ComesInv'
  BY <1>1, <1>2, <1>3 DEF RosterInv, RostersInv, QueueInv, LeftInv, ComesInv
<1> QED
  BY <1>2, <1>4, <1>5 DEF RosterInv

(* Every step of the session keeps the rosters, their order and what       *)
(* Warcraft knows together.                                                *)
THEOREM RosterHolds == RosterSpec => []RosterInv
<1>1. RosterInit => RosterInv
  BY RosterInitKeeps
<1>2. RosterInv /\ [RosterNext]_rosterVars => RosterInv'
  <2> SUFFICES ASSUME RosterInv, [RosterNext]_rosterVars PROVE RosterInv'
    OBVIOUS
  <2>1. ASSUME NEW n \in Others, OtherJoins(n) PROVE RosterInv'
    BY <2>1, JoinKeeps
  <2>2. ASSUME NEW p \in players, OtherLeaves(p) PROVE RosterInv'
    BY <2>2, LeaveKeeps
  <2>3. ASSUME NEW p \in players, OtherChats(p) PROVE RosterInv'
    BY <2>3, ChatKeeps
  <2>4. ASSUME NEW p \in players, OtherLoads(p) \/ MeLoads(p) PROVE RosterInv'
    BY <2>4, LoadKeeps DEF OtherLoads, MeLoads
  <2>5. CASE BeginMatch
    BY <2>5, StartKeeps
  <2>6. CASE GameplayTick
    BY <2>6, TickKeeps
  <2>7. CASE SendUnlocked
    BY <2>7, SendKeeps
  <2>8. CASE Subscribe
    BY <2>8, SubscribeKeeps
  <2>9. CASE Enter
    BY <2>9, EnterKeeps
  <2>10. CASE Deliver
    BY <2>10, DeliverKeeps
  <2>11. CASE Recover
    BY <2>11, RecoverKeeps
  <2>12. CASE UNCHANGED rosterVars
    BY <2>12, RosterStutterKeeps
  <2> QED
    BY <2>1, <2>2, <2>3, <2>4, <2>5, <2>6, <2>7, <2>8, <2>9, <2>10, <2>11, <2>12 DEF RosterNext
<1> QED
  BY <1>1, <1>2, PTL DEF RosterSpec

(* No frame of run_lobby_session misleads Warcraft, whatever the channel   *)
(* lost or delivered late.                                                 *)
THEOREM NeverMisledAlways == RosterSpec => []NeverMisled
<1>1. RosterInv => NeverMisled
  BY DEF RosterInv, NeverMisled
<1> QED
  BY <1>1, RosterHolds, PTL

(* An agent that has caught up shows Warcraft the players of the room.     *)
THEOREM WarcraftSeesTheRoomAlways == RosterSpec => []WarcraftSeesTheRoom
<1>1. ASSUME RosterInv, CaughtUp
      PROVE  /\ view.known = {p \in players : p.name # Me}
             /\ ~started => view.slots = IdsOf(players)
             /\ view.started = started
             /\ loaded \subseteq view.loaded
  <2>1. stage = "member" /\ ~lagged /\ unsent = {} /\ OnTheWay = {}
    BY <1>1 DEF CaughtUp, OnTheWay
  <2>2. Rosters = {agent.roster}
    BY <2>1 DEF Rosters
  <2>3. /\ agent.roster.revision = revision /\ (started => agent.started)
        /\ loaded \subseteq agent.loaded
    BY <1>1, <2>1, <2>2 DEF RosterInv, ComesInv
  <2>4. agent.roster.players = players
    BY <1>1, <2>2, <2>3 DEF RosterInv, RostersInv, OfRoom
  <2>5. /\ [id |-> agent.id, name |-> Me] \in players /\ (agent.started => started)
        /\ view.known = Remote(agent.roster, agent.id)
        /\ ~agent.started => view.slots = SlotsOf(agent.roster)
        /\ view.started = agent.started /\ view.loaded = agent.loaded
    BY <1>1, <2>1 DEF RosterInv, MemberInv
  <2>6. \A p \in players : p.id # agent.id <=> p.name # Me
    BY <1>1, <2>5 DEF RosterInv, RoomInv
  <2>7. view.known = {p \in players : p.name # Me}
    BY <2>4, <2>5, <2>6 DEF Remote
  <2>8. started \in BOOLEAN /\ agent.started \in BOOLEAN
    BY <1>1 DEF RosterInv, RosterTypeOK
  <2> QED
    BY <2>3, <2>4, <2>5, <2>7, <2>8 DEF SlotsOf
<1>2. RosterInv => WarcraftSeesTheRoom
  BY <1>1 DEF WarcraftSeesTheRoom
<1> QED
  BY <1>2, RosterHolds, PTL

----------------------------------------------------------------------------
(* Sequences of sequences. *)

LEMMA ConcatAt ==
  ASSUME NEW T, NEW s \in Seq(T), NEW t \in Seq(T)
  PROVE  /\ s \o t \in Seq(T) /\ Len(s) \in Nat /\ Len(t) \in Nat
         /\ Len(s \o t) = Len(s) + Len(t)
         /\ \A i \in 1..Len(s) : (s \o t)[i] = s[i]
         /\ \A i \in 1..Len(t) : (s \o t)[Len(s) + i] = t[i]
<1>1. s \o t \in Seq(T) /\ Len(s) \in Nat /\ Len(t) \in Nat
  OBVIOUS
<1> QED
  BY <1>1, ConcatProperties

LEMMA FlattenRecurses ==
  ASSUME NEW T, NEW seqs \in Seq(Seq(T))
  PROVE  \E f \in [0..Len(seqs) -> Seq(T)] :
           /\ f[0] = <<>> /\ f[Len(seqs)] = FlattenSeq(seqs)
           /\ \A n \in 1..Len(seqs) : f[n] = f[n - 1] \o seqs[n]
<1> DEFINE l == Len(seqs)
           Is(f) == f = [i \in 1..l |-> IF i = 1 THEN seqs[i] ELSE f[i - 1] \o seqs[i]]
           step == [p \in (1..l) \X Seq(T) |-> p[2] \o seqs[p[1]]]
<1>1. l \in Nat /\ \A n \in 1..l : seqs[n] \in Seq(T)
  OBVIOUS
<1>2. step \in [(1..l) \X Seq(T) -> Seq(T)]
  <2>1. \A p \in (1..l) \X Seq(T) : p[2] \o seqs[p[1]] \in Seq(T)
    BY <1>1, ConcatAt
  <2> QED
    BY <2>1
<1>3. \A i \in 1..l, v \in Seq(T) : step[<<i, v>>] = v \o seqs[i]
  OBVIOUS
<1>4. FlattenSeq(seqs) = IF l = 0 THEN seqs ELSE (CHOOSE f : Is(f))[l]
  BY DEF FlattenSeq
<1>5. l = Len(seqs) /\ (l = 0 => seqs = <<>>) /\ <<>> \in Seq(T)
  OBVIOUS
<1> HIDE DEF step, l
<1>6. PICK f \in [0..l -> Seq(T)] : Recurses(f, l, <<>>, step)
  BY <1>1, <1>2, <1>5, Recursion
<1>7. \A n \in 1..l : n \in 0..l /\ n - 1 \in 0..l /\ (n # 1 => n - 1 \in 1..l)
  BY <1>1
<1>8. f[0] = <<>> /\ \A n \in 1..l : f[n] = f[n - 1] \o seqs[n]
  BY <1>3, <1>6, <1>7 DEF Recurses
<1>9. CASE l = 0
  BY <1>4, <1>5, <1>6, <1>8, <1>9
<1>10. CASE l # 0
  <2> DEFINE g == CHOOSE h : Is(h)
             h == [i \in 1..l |-> f[i]]
  <2>1. f[1] = seqs[1]
    <3>1. 1 \in 1..l /\ 1 - 1 = 0 /\ seqs[1] \in Seq(T)
      BY <1>1, <1>10
    <3>2. <<>> \o seqs[1] = seqs[1]
      BY <3>1, ConcatEmptySeq
    <3> QED
      BY <1>8, <3>1, <3>2
  <2>2. Is(h)
    BY <1>7, <1>8, <2>1
  <2>3. Is(g)
    BY <2>2
  <2>4. \A i \in 1..l : g[i] = IF i = 1 THEN seqs[i] ELSE g[i - 1] \o seqs[i]
    BY <2>3
  <2> DEFINE S == {m \in Nat : m \in 1..l => g[m] = f[m]}
  <2> HIDE DEF g, h, Is
  <2>5. Nat \subseteq S
    <3>1. 0 \in S
      OBVIOUS
    <3>2. ASSUME NEW m \in Nat, m \in S PROVE m + 1 \in S
      <4> SUFFICES ASSUME m + 1 \in 1..l PROVE g[m + 1] = f[m + 1]
        OBVIOUS
      <4>1. CASE m = 0
        <5>1. 1 \in 1..l /\ m + 1 = 1
          BY <4>1
        <5> QED
          BY <2>1, <2>4, <5>1
      <4>2. CASE m # 0
        <5>1. m \in 1..l /\ (m + 1) - 1 = m /\ m + 1 # 1 /\ g[m] = f[m]
          BY <1>1, <3>2, <4>2
        <5>2. g[m + 1] = g[m] \o seqs[m + 1]
          BY <2>4, <5>1
        <5>3. f[m + 1] = f[m] \o seqs[m + 1]
          BY <1>8, <5>1
        <5> QED
          BY <5>1, <5>2, <5>3
      <4> QED
        BY <4>1, <4>2
    <3> HIDE DEF S
    <3> QED
      BY <3>1, <3>2, Induction
  <2>6. l \in 1..l
    BY <1>1, <1>10
  <2>7. g[l] = f[l]
    BY <1>1, <2>5, <2>6
  <2> QED
    BY <1>4, <1>5, <1>6, <1>8, <1>10, <2>7 DEF g
<1> QED
  BY <1>9, <1>10

(* Consecutive pieces of a sequence are that sequence. *)
LEMMA FlattenPieces ==
  ASSUME NEW T, NEW s \in Seq(T), NEW seqs \in Seq(Seq(T)), NEW ends,
         \A i \in 0..Len(seqs) : ends[i] \in 0..Len(s), ends[0] = 0,
         \A i \in 1..Len(seqs) : /\ ends[i - 1] <= ends[i]
                                  /\ seqs[i] = SubSeq(s, ends[i - 1] + 1, ends[i])
  PROVE  FlattenSeq(seqs) = SubSeq(s, 1, ends[Len(seqs)])
<1> DEFINE l == Len(seqs)
<1>1. l \in Nat /\ Len(s) \in Nat
  OBVIOUS
<1>2. PICK f \in [0..l -> Seq(T)] :
        /\ f[0] = <<>> /\ f[l] = FlattenSeq(seqs)
        /\ \A n \in 1..l : f[n] = f[n - 1] \o seqs[n]
  BY FlattenRecurses
<1> DEFINE S == {m \in Nat : m <= l => f[m] = SubSeq(s, 1, ends[m])}
<1>3. l = Len(seqs)
  OBVIOUS
<1> HIDE DEF l
<1>4. 0 \in S
  <2>1. SubSeq(s, 1, 0) = <<>>
    BY SubSeqEmpty
  <2> QED
    BY <1>2, <2>1
<1>5. ASSUME NEW m \in Nat, m \in S PROVE m + 1 \in S
  <2> SUFFICES ASSUME m + 1 <= l PROVE f[m + 1] = SubSeq(s, 1, ends[m + 1])
    OBVIOUS
  <2>1. /\ m + 1 \in 1..l /\ (m + 1) - 1 = m /\ m \in 0..l /\ m + 1 \in 0..l
        /\ f[m] = SubSeq(s, 1, ends[m])
    BY <1>1, <1>5
  <2>2. /\ ends[m] \in 0..Len(s) /\ ends[m + 1] \in 0..Len(s) /\ ends[m] <= ends[m + 1]
        /\ seqs[m + 1] = SubSeq(s, ends[m] + 1, ends[m + 1])
    BY <1>3, <2>1
  <2>3. SubSeq(s, 1, ends[m]) \o SubSeq(s, ends[m] + 1, ends[m + 1]) = SubSeq(s, 1, ends[m + 1])
    <3>1. 1 \in 1..(Len(s) + 1) /\ ends[m] \in (1 - 1)..Len(s) /\ ends[m + 1] \in ends[m]..Len(s)
      BY <1>1, <2>2
    <3> QED
      BY <3>1, ConcatAdjacentSubSeq
  <2> QED
    BY <1>2, <2>1, <2>2, <2>3
<1> HIDE DEF S
<1>6. Nat \subseteq S
  BY <1>4, <1>5, Induction
<1>7. l \in S
  BY <1>1, <1>6
<1> QED
  BY <1>1, <1>2, <1>3, <1>7 DEF S

----------------------------------------------------------------------------
(* The bytes of a group. *)

LEMMA LengthsTyped ==
  ASSUME SplitAssumption, NEW a \in PlayerAction
  PROVE  /\ a.length \in Nat /\ EncodedLength(a) \in Nat /\ EncodedLength(a) >= HeaderBytes
         /\ EncodedLength(a) = HeaderBytes + a.length /\ HeaderBytes = 3
         /\ EncodedLength(a) <= MaxRecords
  BY DEF SplitAssumption, EncodedLength, PlayerAction, HeaderBytes

LEMMA BytesOfRecurses ==
  ASSUME SplitAssumption, NEW group \in Seq(PlayerAction)
  PROVE  /\ BytesOf(group) \in [0..Len(group) -> Nat]
         /\ BytesOf(group)[0] = 0
         /\ \A n \in 1..Len(group) :
              BytesOf(group)[n] = BytesOf(group)[n - 1] + EncodedLength(group[n])
<1> DEFINE l == Len(group)
           Is(f) == f = [n \in 0..l |-> IF n = 0 THEN 0 ELSE f[n - 1] + EncodedLength(group[n])]
           step == [p \in (1..l) \X Nat |-> p[2] + EncodedLength(group[p[1]])]
<1>1. l \in Nat /\ \A n \in 1..l : group[n] \in PlayerAction /\ EncodedLength(group[n]) \in Nat
  BY LengthsTyped
<1>2. step \in [(1..l) \X Nat -> Nat]
  BY <1>1
<1>3. \A i \in 1..l, v \in Nat : step[<<i, v>>] = v + EncodedLength(group[i])
  OBVIOUS
<1>4. BytesOf(group) = CHOOSE f : Is(f)
  BY DEF BytesOf
<1>c. l = Len(group)
  OBVIOUS
<1> HIDE DEF step, l
<1>5. PICK f \in [0..l -> Nat] : Recurses(f, l, 0, step)
  BY <1>1, <1>2, Recursion
<1>d. \A n \in 1..l : n \in 0..l /\ n # 0 /\ n - 1 \in 0..l
  BY <1>1
<1>6. \A n \in 1..l : f[n] = f[n - 1] + EncodedLength(group[n])
  BY <1>3, <1>5, <1>d DEF Recurses
<1>7. Is(f)
  <2>1. \A n \in 0..l : f[n] = IF n = 0 THEN 0 ELSE f[n - 1] + EncodedLength(group[n])
    BY <1>1, <1>5, <1>6 DEF Recurses
  <2> QED
    BY <2>1
<1>8. Is(BytesOf(group))
  BY <1>4, <1>7
<1> DEFINE g == BytesOf(group)
<1>9. 0 \in 0..l
  BY <1>1
<1>10. g[0] = 0 /\ \A n \in 1..l : g[n] = g[n - 1] + EncodedLength(group[n])
  BY <1>8, <1>9, <1>d
<1> HIDE DEF Is
<1>11. \A i \in 1..l, v \in Nat : v + EncodedLength(group[i]) = step[<<i, v>>]
  BY <1>3
<1> DEFINE S == {m \in Nat : m <= l => g[m] \in Nat}
<1>12. Nat \subseteq S
  <2>1. 0 \in S
    BY <1>10
  <2>2. ASSUME NEW m \in Nat, m \in S PROVE m + 1 \in S
    <3>1. SUFFICES ASSUME m + 1 <= l PROVE g[m + 1] \in Nat
      OBVIOUS
    <3>2. m + 1 \in 1..l /\ (m + 1) - 1 = m /\ g[m] \in Nat
      BY <1>1, <2>2, <3>1
    <3> QED
      BY <1>1, <1>10, <3>2
  <2> HIDE DEF S, g
  <2> QED
    BY <2>1, <2>2, Induction
<1>13. g \in [0..l -> Nat]
  <2>1. \A n \in 0..l : g[n] \in Nat
    BY <1>1, <1>12
  <2> QED
    BY <1>8, <2>1 DEF Is
<1> QED
  BY <1>10, <1>13, <1>c

----------------------------------------------------------------------------
(* The records of a group. *)

(* The bytes of a piece of the queue, from the bytes up to its ends. *)
LEMMA BytesOfPiece ==
  ASSUME SplitAssumption, NEW s \in Seq(PlayerAction),
         NEW i \in 0..Len(s), NEW j \in i..Len(s)
  PROVE  /\ SubSeq(s, i + 1, j) \in Seq(PlayerAction)
         /\ SumOf(SubSeq(s, i + 1, j)) = BytesOf(s)[j] - BytesOf(s)[i]
<1> DEFINE t == SubSeq(s, i + 1, j)
           b == BytesOf(s)
           c == BytesOf(t)
<1>1. Len(s) \in Nat /\ i \in Nat /\ j \in Nat /\ i <= j /\ j <= Len(s)
  OBVIOUS
<1>2. /\ t \in Seq(PlayerAction) /\ Len(t) = j - i
      /\ \A k \in 1..(j - i) : t[k] = s[i + k]
  <2>1. i + 1 \in Int /\ j \in Int /\ \A k \in (i + 1)..j : s[k] \in PlayerAction
    BY <1>1
  <2>2. /\ t \in Seq(PlayerAction)
        /\ Len(t) = IF i + 1 <= j THEN j - (i + 1) + 1 ELSE 0
        /\ \A k \in 1..(j - (i + 1) + 1) : t[k] = s[(i + 1) + k - 1]
    BY <2>1, SubSeqProperties
  <2>3. j - (i + 1) + 1 = j - i /\ \A k \in Int : (i + 1) + k - 1 = i + k
    BY <1>1
  <2> HIDE DEF t
  <2> QED
    BY <1>1, <2>2, <2>3
<1> HIDE DEF t
<1>3. /\ b \in [0..Len(s) -> Nat]
      /\ \A n \in 1..Len(s) : b[n] = b[n - 1] + EncodedLength(s[n])
  BY BytesOfRecurses
<1>4. /\ c \in [0..Len(t) -> Nat] /\ c[0] = 0
      /\ \A n \in 1..Len(t) : c[n] = c[n - 1] + EncodedLength(t[n])
  BY <1>2, BytesOfRecurses
<1> DEFINE S == {m \in Nat : m <= j - i => c[m] = b[i + m] - b[i]}
<1>5. 0 \in S
  <2>1. i + 0 = i /\ b[i] \in Nat
    BY <1>1, <1>3
  <2> HIDE DEF b, c
  <2> QED
    BY <1>4, <2>1
<1>6. ASSUME NEW m \in Nat, m \in S PROVE m + 1 \in S
  <2> SUFFICES ASSUME m + 1 <= j - i PROVE c[m + 1] = b[i + (m + 1)] - b[i]
    OBVIOUS
  <2>1. /\ m + 1 \in 1..(j - i) /\ (m + 1) - 1 = m /\ i + (m + 1) \in 1..Len(s)
        /\ i + (m + 1) - 1 = i + m /\ i \in 0..Len(s) /\ i + m \in 0..Len(s)
        /\ c[m] = b[i + m] - b[i]
    BY <1>1, <1>6
  <2> HIDE DEF b, c
  <2>2. c[m + 1] = c[m] + EncodedLength(s[i + (m + 1)])
    BY <1>2, <1>4, <2>1
  <2>3. b[i + (m + 1)] = b[i + m] + EncodedLength(s[i + (m + 1)])
    BY <1>3, <2>1
  <2>4. b[i] \in Nat /\ b[i + m] \in Nat /\ EncodedLength(s[i + (m + 1)]) \in Nat
    <3>1. s[i + (m + 1)] \in PlayerAction
      BY <2>1
    <3>2. EncodedLength(s[i + (m + 1)]) \in Nat
      BY <3>1, LengthsTyped
    <3> QED
      BY <1>3, <2>1, <3>2
  <2> QED
    BY <2>1, <2>2, <2>3, <2>4
<1> HIDE DEF S, b, c
<1>7. Nat \subseteq S
  BY <1>5, <1>6, Induction
<1>8. j - i \in Nat /\ i + (j - i) = j
  BY <1>1
<1>9. c[j - i] = b[j] - b[i]
  BY <1>7, <1>8 DEF S
<1> QED
  BY <1>2, <1>9 DEF SumOf, t, b, c

(* The bytes up to a later end are more. *)
LEMMA BytesGrow ==
  ASSUME SplitAssumption, NEW s \in Seq(PlayerAction),
         NEW i \in 0..Len(s), NEW j \in 0..Len(s), i <= j
  PROVE  /\ BytesOf(s)[i] \in Nat /\ BytesOf(s)[j] \in Nat
         /\ BytesOf(s)[i] <= BytesOf(s)[j]
         /\ i < j => BytesOf(s)[i] < BytesOf(s)[j]
<1> DEFINE b == BytesOf(s)
           S == {m \in Nat : m <= j - i => b[i] + m <= b[i + m]}
<1>1. Len(s) \in Nat /\ i \in Nat /\ j \in Nat
  OBVIOUS
<1>2. /\ b \in [0..Len(s) -> Nat]
      /\ \A n \in 1..Len(s) : b[n] = b[n - 1] + EncodedLength(s[n])
  BY BytesOfRecurses
<1> HIDE DEF b
<1>3. 0 \in S
  BY <1>1, <1>2
<1>4. ASSUME NEW m \in Nat, m \in S PROVE m + 1 \in S
  <2> SUFFICES ASSUME m + 1 <= j - i PROVE b[i] + (m + 1) <= b[i + (m + 1)]
    OBVIOUS
  <2>1. /\ i + (m + 1) \in 1..Len(s) /\ i + (m + 1) - 1 = i + m /\ i + m \in 0..Len(s)
        /\ b[i] + m <= b[i + m]
    BY <1>1, <1>4
  <2>2. b[i + (m + 1)] = b[i + m] + EncodedLength(s[i + (m + 1)])
    BY <1>2, <2>1
  <2>3. /\ b[i] \in Nat /\ b[i + m] \in Nat /\ EncodedLength(s[i + (m + 1)]) \in Nat
        /\ EncodedLength(s[i + (m + 1)]) >= 3
    <3>1. s[i + (m + 1)] \in PlayerAction
      BY <2>1
    <3>2. /\ EncodedLength(s[i + (m + 1)]) \in Nat
          /\ EncodedLength(s[i + (m + 1)]) >= 3
      BY <3>1, LengthsTyped
    <3> QED
      BY <1>2, <2>1, <3>2
  <2> QED
    BY <2>1, <2>2, <2>3
<1> HIDE DEF S
<1>5. Nat \subseteq S
  BY <1>3, <1>4, Induction
<1>6. j - i \in Nat /\ i + (j - i) = j
  BY <1>1
<1>7. b[i] + (j - i) <= b[j]
  BY <1>5, <1>6 DEF S
<1>8. b[i] \in Nat /\ b[j] \in Nat
  BY <1>2
<1> QED
  BY <1>1, <1>7, <1>8 DEF b

LEMMA TwoBytes ==
  ASSUME NEW n \in Nat, NEW b \in Nat, b > 0
  PROVE  n % b \in Nat /\ n \div b \in Nat /\ (n % b) + b * (n \div b) = n
<1>1. n % b \in Nat
  OBVIOUS
<1>2. n \div b \in Nat
  OBVIOUS
<1>3. (n % b) + b * (n \div b) = n
  OBVIOUS
<1> QED
  BY <1>1, <1>2, <1>3

LEMMA RecordTyped ==
  ASSUME SplitAssumption, NEW a \in PlayerAction
  PROVE  /\ Record(a) \in Seq(Nat) /\ Len(Record(a)) = EncodedLength(a)
         /\ Record(a)[1] = a.player
         /\ Record(a)[2] + Byte * Record(a)[3] = a.length
<1>1. /\ a.length \in Nat /\ a.player \in Nat /\ Byte \in Nat /\ Byte > 0
      /\ EncodedLength(a) = 3 + a.length
  <2>1. a.player \in Nat /\ Byte \in Nat /\ Byte > 0
    <3>1. a.player \in Authors
      BY DEF PlayerAction
    <3>2. Authors \subseteq Nat /\ Byte \in Nat /\ Byte > 0
      BY DEF SplitAssumption
    <3> QED
      BY <3>1, <3>2
  <2> QED
    BY <2>1, LengthsTyped
<1> DEFINE low == a.length % Byte
           high == a.length \div Byte
           head == <<a.player, low, high>>
<1>2. low \in Nat /\ high \in Nat /\ low + Byte * high = a.length
  BY <1>1, TwoBytes
<1> HIDE DEF low, high
<1>3. head \in Seq(Nat) /\ Len(head) = 3 /\ head[1] = a.player /\ head[2] = low /\ head[3] = high
  BY <1>1, <1>2
<1>4. Data(a) \in Seq(Nat) /\ Len(Data(a)) = a.length
  BY <1>1 DEF Data
<1>5. Record(a) = head \o Data(a)
  BY DEF Record, low, high
<1> HIDE DEF head
<1>6. /\ Record(a) \in Seq(Nat) /\ Len(Record(a)) = 3 + a.length
      /\ \A i \in 1..3 : Record(a)[i] = head[i]
  <2> DEFINE data == Data(a)
  <2> HIDE DEF data
  <2>1. /\ head \o data \in Seq(Nat) /\ Len(head \o data) = 3 + a.length
        /\ \A i \in 1..3 : (head \o data)[i] = head[i]
    <3>1. data \in Seq(Nat) /\ Len(data) = a.length
      BY <1>4 DEF data
    <3>2. head \in Seq(Nat) /\ data \in Seq(Nat)
      BY <1>3, <3>1
    <3>3. /\ head \o data \in Seq(Nat) /\ Len(head \o data) = Len(head) + Len(data)
          /\ \A i \in 1..Len(head) : (head \o data)[i] = head[i]
      BY <3>2, ConcatAt
    <3> QED
      BY <1>3, <3>1, <3>3
  <2> QED
    BY <1>5, <2>1 DEF data
<1>7. 1 \in 1..3 /\ 2 \in 1..3 /\ 3 \in 1..3
  OBVIOUS
<1> QED
  BY <1>1, <1>2, <1>3, <1>6, <1>7

(* Where the record of an action is. *)
LEMMA RecordsAt ==
  ASSUME SplitAssumption, NEW group \in Seq(PlayerAction)
  PROVE  /\ Records(group) \in Seq(Nat) /\ Len(Records(group)) = SumOf(group)
         /\ \A k \in 1..Len(group) : \A i \in 1..EncodedLength(group[k]) :
              Records(group)[BytesOf(group)[k - 1] + i] = Record(group[k])[i]
<1> DEFINE l == Len(group)
           b == BytesOf(group)
           r == [i \in DOMAIN group |-> Record(group[i])]
<1>1. l \in Nat /\ DOMAIN group = 1..l /\ \A k \in 1..l : group[k] \in PlayerAction
  OBVIOUS
<1>2. r \in Seq(Seq(Nat)) /\ Len(r) = l /\ \A k \in 1..l : r[k] = Record(group[k])
  <2>1. \A k \in 1..l : Record(group[k]) \in Seq(Nat)
    BY <1>1, RecordTyped
  <2> QED
    BY <1>1, <2>1
<1>3. /\ b \in [0..l -> Nat] /\ b[0] = 0 /\ SumOf(group) = b[l]
      /\ \A n \in 1..l : b[n] = b[n - 1] + EncodedLength(group[n])
  BY BytesOfRecurses DEF SumOf
<1>4. Records(group) = FlattenSeq(r)
  BY DEF Records
<1>c. l = Len(group) /\ b = BytesOf(group)
  OBVIOUS
<1> HIDE DEF r, l, b
<1>5. PICK f \in [0..l -> Seq(Nat)] :
        /\ f[0] = <<>> /\ f[l] = FlattenSeq(r) /\ \A n \in 1..l : f[n] = f[n - 1] \o r[n]
  BY <1>2, FlattenRecurses
<1> DEFINE Holds(m) ==
             /\ Len(f[m]) = b[m]
             /\ \A k \in 1..m : \A i \in 1..EncodedLength(group[k]) :
                  f[m][b[k - 1] + i] = Record(group[k])[i]
           S == {m \in Nat : m <= l => Holds(m)}
<1>6. 0 \in S
  BY <1>3, <1>5
<1> HIDE DEF Holds
<1>7. ASSUME NEW m \in Nat, m \in S PROVE m + 1 \in S
  <2> SUFFICES ASSUME m + 1 <= l PROVE Holds(m + 1)
    OBVIOUS
  <2>1. Holds(m) /\ m + 1 \in 1..l /\ (m + 1) - 1 = m /\ m \in 0..l
    BY <1>1, <1>7
  <2>2. /\ f[m] \in Seq(Nat) /\ f[m + 1] = f[m] \o Record(group[m + 1])
        /\ b[m + 1] = b[m] + EncodedLength(group[m + 1])
    BY <1>2, <1>3, <1>5, <2>1
  <2>3. /\ Record(group[m + 1]) \in Seq(Nat)
        /\ Len(Record(group[m + 1])) = EncodedLength(group[m + 1])
    BY <1>1, <2>1, RecordTyped
  <2>4. /\ Len(f[m + 1]) = b[m + 1]
        /\ \A i \in 1..b[m] : f[m + 1][i] = f[m][i]
        /\ \A i \in 1..EncodedLength(group[m + 1]) : f[m + 1][b[m] + i] = Record(group[m + 1])[i]
    <3> DEFINE x == f[m]
               y == Record(group[m + 1])
    <3>1. Len(x) = b[m]
      BY <2>1 DEF Holds
    <3> HIDE DEF x, y
    <3>2. /\ Len(x \o y) = Len(x) + Len(y)
          /\ \A i \in 1..Len(x) : (x \o y)[i] = x[i]
          /\ \A i \in 1..Len(y) : (x \o y)[Len(x) + i] = y[i]
      <4>1. x \in Seq(Nat) /\ y \in Seq(Nat)
        BY <2>2, <2>3 DEF x, y
      <4> QED
        BY <4>1, ConcatAt, SMTT(20)
    <3>3. f[m + 1] = x \o y /\ Len(y) = EncodedLength(group[m + 1])
      BY <2>2, <2>3 DEF x, y
    <3>4. b[m + 1] = Len(x \o y)
      BY <2>2, <3>1, <3>2, <3>3
    <3> QED
      BY <3>1, <3>2, <3>3, <3>4 DEF x, y
  <2>5. ASSUME NEW k \in 1..m, NEW i \in 1..EncodedLength(group[k])
        PROVE  f[m + 1][b[k - 1] + i] = Record(group[k])[i]
    <3>1. k \in 1..l /\ k - 1 \in 0..l /\ k \in 0..l /\ k <= m /\ group[k] \in PlayerAction
      BY <1>1, <2>1
    <3>2. b[k] = b[k - 1] + EncodedLength(group[k]) /\ b[k - 1] \in Nat
      BY <1>3, <3>1
    <3>3. b[k] <= b[m]
      BY <1>1, <1>c, <2>1, <3>1, BytesGrow
    <3>4. EncodedLength(group[k]) \in Nat /\ b[m] \in Nat
      BY <1>3, <2>1, <3>1, LengthsTyped
    <3>5. b[k - 1] + i \in 1..b[m]
      BY <3>2, <3>3, <3>4
    <3> QED
      BY <2>1, <2>4, <3>5 DEF Holds
  <2>6. \A k \in 1..(m + 1) : k \in 1..m \/ (k = m + 1 /\ k - 1 = m)
    OBVIOUS
  <2> HIDE DEF b
  <2> QED
    BY <2>1, <2>4, <2>5, <2>6 DEF Holds
<1> HIDE DEF S
<1>8. Nat \subseteq S
  BY <1>6, <1>7, Induction
<1>9. Holds(l)
  BY <1>1, <1>8 DEF S
<1>10. f[l] \in Seq(Nat)
  BY <1>1, <1>5
<1> QED
  BY <1>3, <1>4, <1>5, <1>9, <1>10, <1>c DEF Holds

----------------------------------------------------------------------------
(* Decoding. *)

(* What has been read when the first k actions of a group have. *)
ReadUpTo(group, k) == [offset |-> BytesOf(group)[k], actions |-> SubSeq(group, 1, k)]

LEMMA NeverMalformed ==
  ASSUME SplitAssumption, NEW s \in Seq(PlayerAction)
  PROVE  s # Malformed
<1> SUFFICES ASSUME s = Malformed PROVE FALSE
  OBVIOUS
<1>1. Len(s) = 1 /\ s[1].player = 0
  <2>1. s = <<[player |-> 0, length |-> 0]>>
    BY DEF Malformed
  <2> QED
    BY <2>1
<1>2. s[1] \in PlayerAction
  <2>1. 1 \in 1..Len(s)
    BY <1>1
  <2> QED
    BY <2>1
<1>3. s[1].player \in Authors
  BY <1>2 DEF PlayerAction
<1>4. 0 \notin Authors
  BY DEF SplitAssumption
<1> QED
  BY <1>1, <1>3, <1>4

LEMMA ReadsNext ==
  ASSUME SplitAssumption, NEW group \in Seq(PlayerAction), NEW k \in 0..(Len(group) - 1)
  PROVE  ReadRecord(Records(group), ReadUpTo(group, k)) = ReadUpTo(group, k + 1)
<1> DEFINE records == Records(group)
           read == ReadUpTo(group, k)
           b == BytesOf(group)
           a == group[k + 1]
           offset == b[k]
<1>1. /\ Len(group) \in Nat /\ k \in Nat /\ k + 1 \in 1..Len(group) /\ k \in 0..Len(group)
      /\ k + 1 \in 0..Len(group) /\ (k + 1) - 1 = k /\ Len(group) \in 0..Len(group)
      /\ k + 1 <= Len(group)
  OBVIOUS
<1>2. a \in PlayerAction
  BY <1>1
<1>3. /\ b[k + 1] = offset + EncodedLength(a) /\ SumOf(group) = b[Len(group)]
      /\ offset \in Nat /\ b[Len(group)] \in Nat
  BY <1>1, BytesOfRecurses DEF SumOf
<1>4. b[k + 1] <= b[Len(group)]
  BY <1>1, BytesGrow
<1>5. /\ Len(records) = b[Len(group)]
      /\ \A i \in 1..EncodedLength(a) : records[offset + i] = Record(a)[i]
  BY <1>1, <1>3, RecordsAt
<1>6. /\ EncodedLength(a) = 3 + a.length /\ a.length \in Nat /\ HeaderBytes = 3
      /\ 1 \in 1..EncodedLength(a) /\ 2 \in 1..EncodedLength(a) /\ 3 \in 1..EncodedLength(a)
  BY <1>2, LengthsTyped
<1>7. /\ records[offset + 1] = a.player
      /\ records[offset + 2] + Byte * records[offset + 3] = a.length
  BY <1>2, <1>5, <1>6, RecordTyped
<1>8. a.player # 0 /\ a.length <= MaxActionData /\ a = [player |-> a.player, length |-> a.length]
  BY <1>2 DEF PlayerAction, SplitAssumption
<1>9. /\ SubSeq(group, 1, k) \in Seq(PlayerAction)
      /\ Append(SubSeq(group, 1, k), a) = SubSeq(group, 1, k + 1)
  <2>1. SubSeq(group, 1, k + 1) = SubSeq(group, 1, (k + 1) - 1) \o <<group[k + 1]>>
    <3>1. 1 \in 1..Len(group) /\ k + 1 \in 1..Len(group)
      BY <1>1
    <3> QED
      BY <3>1, SubSeqRecursiveSecond
  <2>2. SubSeq(group, 1, k) \in Seq(PlayerAction)
    BY <1>1
  <2> QED
    BY <1>1, <1>2, <2>1, <2>2
<1>10. SubSeq(group, 1, k) # Malformed
  BY <1>9, NeverMalformed
<1>11. read.offset = offset /\ read.actions = SubSeq(group, 1, k)
  BY DEF ReadUpTo
<1>12. Len(records) \in Nat /\ MaxActionData \in Nat /\ Byte \in Nat
  BY <1>3, <1>5 DEF SplitAssumption
<1> HIDE DEF records, read, b, a, offset
<1>13. offset + 3 + a.length = b[k + 1]
  BY <1>3, <1>6
<1>14. b[Len(group)] = Len(records) /\ b[k + 1] <= Len(records)
  BY <1>4, <1>5
<1>15. offset + 3 + a.length <= Len(records) /\ Len(records) - offset >= 3
  BY <1>3, <1>6, <1>12, <1>13, <1>14
<1>16. ReadRecord(records, read) =
         [offset |-> offset + 3 + a.length,
          actions |-> Append(SubSeq(group, 1, k), [player |-> a.player, length |-> a.length])]
  <2>1. Len(records) - offset # 0 /\ ~(Len(records) - offset < 3)
    BY <1>3, <1>12, <1>15
  <2>2. ~(offset + 3 + a.length > Len(records)) /\ ~(a.length > MaxActionData)
    <3> DEFINE length == a.length
    <3>1. length \in Nat /\ offset + 3 + length <= Len(records) /\ length <= MaxActionData
      BY <1>6, <1>8, <1>15
    <3> HIDE DEF length
    <3>2. ~(offset + 3 + length > Len(records)) /\ ~(length > MaxActionData)
      BY <1>3, <1>12, <3>1
    <3> QED
      BY <3>2 DEF length
  <2> QED
    BY <1>6, <1>7, <1>8, <1>10, <1>11, <2>1, <2>2 DEF ReadRecord
<1> QED
  BY <1>8, <1>9, <1>13, <1>16 DEF ReadUpTo, records, read, b

LEMMA ReadsNoMore ==
  ASSUME SplitAssumption, NEW group \in Seq(PlayerAction)
  PROVE  ReadRecord(Records(group), ReadUpTo(group, Len(group))) = ReadUpTo(group, Len(group))
<1>1. Len(Records(group)) = BytesOf(group)[Len(group)]
  BY RecordsAt DEF SumOf
<1>2. BytesOf(group)[Len(group)] \in Nat
  BY BytesOfRecurses
<1>3. ReadUpTo(group, Len(group)).offset = BytesOf(group)[Len(group)]
  BY DEF ReadUpTo
<1>4. Len(Records(group)) - ReadUpTo(group, Len(group)).offset = 0
  BY <1>1, <1>2, <1>3
<1> QED
  BY <1>4 DEF ReadRecord

LEMMA DecodesRecords ==
  ASSUME SplitAssumption, NEW group \in Seq(PlayerAction)
  PROVE  DecodePlayerActions(Records(group)) = group
<1> DEFINE l == Len(group)
           r == Records(group)
           n == Len(r)
           base == [offset |-> 0, actions |-> <<>>]
           Is(f) == f = [t \in 0..n |-> IF t = 0 THEN base ELSE ReadRecord(r, f[t - 1])]
           Turn(t) == IF t <= l THEN t ELSE l
           h == [t \in 0..n |-> ReadUpTo(group, Turn(t))]
<1>1. r \in Seq(Nat) /\ n = BytesOf(group)[l] /\ n \in Nat /\ l \in Nat
  <2>1. r \in Seq(Nat) /\ n = BytesOf(group)[l]
    BY RecordsAt DEF SumOf
  <2> QED
    BY <2>1
<1>2. l <= n
  <2>1. BytesOf(group) \in [0..l -> Nat] /\ BytesOf(group)[0] = 0
    BY BytesOfRecurses
  <2> DEFINE S == {m \in Nat : m <= l => m <= BytesOf(group)[m]}
  <2>2. 0 \in S
    BY <2>1
  <2>3. ASSUME NEW m \in Nat, m \in S PROVE m + 1 \in S
    <3> SUFFICES ASSUME m + 1 <= l PROVE m + 1 <= BytesOf(group)[m + 1]
      OBVIOUS
    <3>1. m <= BytesOf(group)[m] /\ m \in 0..l /\ m + 1 \in 0..l /\ m <= m + 1 /\ m < m + 1
      BY <1>1, <2>3
    <3>2. /\ BytesOf(group)[m] \in Nat /\ BytesOf(group)[m + 1] \in Nat
          /\ BytesOf(group)[m] < BytesOf(group)[m + 1]
      BY <3>1, BytesGrow
    <3> QED
      BY <3>1, <3>2
  <2> HIDE DEF S
  <2>4. Nat \subseteq S
    BY <2>2, <2>3, Induction
  <2> QED
    BY <1>1, <2>4 DEF S
<1>3. DecodeTurns(r) = CHOOSE f : Is(f)
  BY DEF DecodeTurns
<1>4. ReadUpTo(group, 0) = base
  <2>1. BytesOf(group)[0] = 0
    BY BytesOfRecurses
  <2>2. SubSeq(group, 1, 0) = <<>>
    BY SubSeqEmpty
  <2> QED
    BY <2>1, <2>2 DEF ReadUpTo
<1>5. ASSUME NEW t \in 1..n
      PROVE  ReadRecord(r, ReadUpTo(group, Turn(t - 1))) = ReadUpTo(group, Turn(t))
  <2>1. CASE t <= l
    <3>1. Turn(t - 1) = t - 1 /\ Turn(t) = t /\ t - 1 \in 0..(l - 1) /\ (t - 1) + 1 = t
      BY <1>1, <2>1
    <3> QED
      BY <3>1, ReadsNext
  <2>2. CASE t > l
    <3>1. Turn(t - 1) = l /\ Turn(t) = l
      BY <1>1, <2>2
    <3> QED
      BY <3>1, ReadsNoMore
  <2> QED
    BY <1>1, <2>1, <2>2
<1>6. Turn(0) = 0 /\ Turn(n) = l
  BY <1>1, <1>2
<1> HIDE DEF Turn, base, r, n, l
<1>7. \A t \in 1..n : t \in 0..n /\ t - 1 \in 0..n /\ t # 0
  BY <1>1
<1>8. Is(h)
  <2>1. \A t \in 0..n : h[t] = IF t = 0 THEN base ELSE ReadRecord(r, h[t - 1])
    <3> TAKE t \in 0..n
    <3>1. CASE t = 0
      BY <1>4, <1>6, <3>1
    <3>2. CASE t # 0
      <4>1. t \in 1..n
        BY <1>1, <3>2
      <4>2. h[t] = ReadUpTo(group, Turn(t)) /\ h[t - 1] = ReadUpTo(group, Turn(t - 1))
        BY <1>7, <4>1
      <4> QED
        BY <1>5, <3>2, <4>1, <4>2
    <3> QED
      BY <3>1, <3>2
  <2> QED
    BY <2>1
<1>9. Is(DecodeTurns(r))
  BY <1>3, <1>8
<1> DEFINE g == DecodeTurns(r)
           S == {m \in Nat : m <= n => g[m] = h[m]}
<1> HIDE DEF h
<1>10. /\ \A t \in 0..n : g[t] = IF t = 0 THEN base ELSE ReadRecord(r, g[t - 1])
       /\ \A t \in 0..n : h[t] = IF t = 0 THEN base ELSE ReadRecord(r, h[t - 1])
  BY <1>8, <1>9
<1> HIDE DEF g
<1>11. 0 \in S
  <2>1. 0 \in 0..n
    BY <1>1
  <2>2. g[0] = base /\ h[0] = base
    BY <1>10, <2>1
  <2> QED
    BY <2>2
<1>12. ASSUME NEW m \in Nat, m \in S PROVE m + 1 \in S
  <2> SUFFICES ASSUME m + 1 <= n PROVE g[m + 1] = h[m + 1]
    OBVIOUS
  <2>1. m + 1 \in 0..n /\ m + 1 # 0 /\ (m + 1) - 1 = m /\ g[m] = h[m]
    BY <1>1, <1>12
  <2>2. g[m + 1] = ReadRecord(r, g[m])
    BY <1>10, <2>1
  <2>3. h[m + 1] = ReadRecord(r, h[m])
    BY <1>10, <2>1
  <2> QED
    BY <2>1, <2>2, <2>3
<1> HIDE DEF S
<1>13. Nat \subseteq S
  BY <1>11, <1>12, Induction
<1>14. g[n] = h[n] /\ n \in 0..n
  BY <1>1, <1>13 DEF S
<1>15. h[n] = ReadUpTo(group, l)
  BY <1>6, <1>14 DEF h
<1>16. SubSeq(group, 1, l) = group
  BY SubSeqFull DEF l
<1> QED
  BY <1>14, <1>15, <1>16 DEF DecodePlayerActions, ReadUpTo, g, r, n

----------------------------------------------------------------------------
(* The loop over the actions. *)

(* The groups are cut out of the queue where `ends' says, up to `last',    *)
(* each fits, and none would with the action that comes after it.          *)
GroupedUpTo(drained, cut, ends, last) ==
  /\ ends \in [0..Len(cut) -> 0..Len(drained)] /\ ends[0] = 0 /\ ends[Len(cut)] = last
  /\ \A k \in 1..Len(cut) :
       /\ ends[k - 1] < ends[k]
       /\ cut[k] = SubSeq(drained, ends[k - 1] + 1, ends[k])
       /\ SumOf(cut[k]) <= MaxRecords
       /\ ends[k] < Len(drained) =>
            SumOf(SubSeq(drained, ends[k - 1] + 1, ends[k] + 1)) > MaxRecords

SplitInv ==
  /\ SplitTypeOK
  /\ \E ends : GroupedUpTo(actions, groups, ends,
                           IF phase = "grouping" THEN start - 1 ELSE Len(actions))
  /\ phase = "grouping" => bytes <= MaxRecords /\ (index > 1 => start < index)
  /\ phase = "done" =>
       frames = IF groups = <<>> THEN <<EmptyTimeslot>>
                ELSE [i \in DOMAIN groups |-> EncodeActionGroup(i # Len(groups), groups[i])]

LEMMA GroupedMore ==
  ASSUME SplitAssumption, NEW drained \in Seq(PlayerAction), NEW cut \in Seq(Seq(PlayerAction)),
         NEW ends, NEW last \in 0..Len(drained), NEW next \in 0..Len(drained),
         GroupedUpTo(drained, cut, ends, last), last < next,
         SumOf(SubSeq(drained, last + 1, next)) <= MaxRecords,
         next < Len(drained) => SumOf(SubSeq(drained, last + 1, next + 1)) > MaxRecords
  PROVE  \E e : GroupedUpTo(drained, Append(cut, SubSeq(drained, last + 1, next)), e, next)
<1> DEFINE n == Len(cut)
           group == SubSeq(drained, last + 1, next)
           e == [k \in 0..(n + 1) |-> IF k = n + 1 THEN next ELSE ends[k]]
           more == Append(cut, group)
<1>1. n \in Nat /\ group \in Seq(PlayerAction)
  BY BytesOfPiece
<1> HIDE DEF group
<1>2. Len(more) = n + 1 /\ more[n + 1] = group /\ \A k \in 1..n : more[k] = cut[k]
  BY <1>1
<1>3. /\ ends \in [0..n -> 0..Len(drained)] /\ ends[0] = 0 /\ ends[n] = last
      /\ \A k \in 1..n :
           /\ ends[k - 1] < ends[k]
           /\ cut[k] = SubSeq(drained, ends[k - 1] + 1, ends[k])
           /\ SumOf(cut[k]) <= MaxRecords
           /\ ends[k] < Len(drained) =>
                SumOf(SubSeq(drained, ends[k - 1] + 1, ends[k] + 1)) > MaxRecords
  BY DEF GroupedUpTo
<1>4. e \in [0..(n + 1) -> 0..Len(drained)]
  BY <1>1, <1>3
<1>5. e[n + 1] = next /\ \A k \in 0..n : e[k] = ends[k]
  BY <1>1
<1>6. /\ 0 \in 0..n /\ n \in 0..n /\ (n + 1) - 1 = n
      /\ \A k \in 1..(n + 1) : k = n + 1 \/ (k \in 1..n /\ k \in 0..n /\ k - 1 \in 0..n)
  BY <1>1
<1> HIDE DEF n, e, more
<1>7. ASSUME NEW k \in 1..(n + 1)
      PROVE  /\ e[k - 1] < e[k]
             /\ more[k] = SubSeq(drained, e[k - 1] + 1, e[k])
             /\ SumOf(more[k]) <= MaxRecords
             /\ e[k] < Len(drained) =>
                  SumOf(SubSeq(drained, e[k - 1] + 1, e[k] + 1)) > MaxRecords
  <2>1. CASE k = n + 1
    <3>1. e[k] = next /\ e[k - 1] = last /\ more[k] = SubSeq(drained, last + 1, next)
      BY <1>2, <1>3, <1>5, <1>6, <2>1 DEF group
    <3> QED
      BY <3>1
  <2>2. CASE k \in 1..n
    <3>1. e[k] = ends[k] /\ e[k - 1] = ends[k - 1] /\ more[k] = cut[k]
      BY <1>2, <1>5, <1>6, <2>2
    <3> QED
      BY <1>3, <2>2, <3>1
  <2> QED
    BY <1>6, <2>1, <2>2
<1>8. e[0] = 0
  BY <1>3, <1>5, <1>6
<1>9. GroupedUpTo(drained, more, e, next)
  BY <1>2, <1>4, <1>5, <1>7, <1>8 DEF GroupedUpTo
<1> QED
  BY <1>9 DEF more, group

LEMMA SplitStarts == SplitAssumption /\ SplitInit => SplitInv
<1> SUFFICES ASSUME SplitAssumption, SplitInit PROVE SplitInv
  OBVIOUS
<1>1. actions \in Seq(PlayerAction)
  <2>1. PICK m \in 0..MaxActions : actions \in [1..m -> PlayerAction]
    BY DEF SplitInit, BoundedSeq, SeqOf
  <2>2. m \in Nat
    BY DEF SplitAssumption
  <2> QED
    BY <2>1, <2>2
<1>2. Len(actions) \in Nat /\ Len(<<>>) = 0 /\ index = 1 /\ start = 1 /\ bytes = 0
      /\ groups = <<>> /\ phase = "grouping"
  BY <1>1 DEF SplitInit
<1>3. SubSeq(actions, 1, 0) = <<>>
  BY SubSeqEmpty
<1>4. SumOf(<<>>) = 0
  <2>1. <<>> \in Seq(PlayerAction)
    OBVIOUS
  <2> QED
    BY <1>2, <2>1, BytesOfRecurses DEF SumOf
<1>5. SplitTypeOK
  <2>1. bytes = SumOf(SubSeq(actions, start, index - 1))
    <3>1. index - 1 = 0
      BY <1>2
    <3> QED
      BY <1>2, <1>3, <1>4, <3>1
  <2>2. index \in 1..(Len(actions) + 1) /\ start \in 1..index
    BY <1>2
  <2>3. groups \in Seq(Seq(PlayerAction))
    BY <1>2
  <2> QED
    BY <1>1, <1>2, <2>1, <2>2, <2>3 DEF SplitTypeOK
<1>6. GroupedUpTo(actions, groups, [k \in 0..0 |-> 0], start - 1)
  BY <1>2 DEF GroupedUpTo
<1> QED
  BY <1>2, <1>5, <1>6 DEF SplitInv, SplitAssumption

LEMMA TakeActionKeeps == SplitAssumption /\ SplitInv /\ TakeAction => SplitInv'
<1> SUFFICES ASSUME SplitAssumption, SplitInv, TakeAction PROVE SplitInv'
  OBVIOUS
<1> DEFINE a == actions[index]
           b == BytesOf(actions)
           length == EncodedLength(a)
<1>1. /\ actions \in Seq(PlayerAction) /\ groups \in Seq(Seq(PlayerAction))
      /\ index \in Nat /\ start \in Nat /\ Len(actions) \in Nat
      /\ 1 <= start /\ start <= index /\ index <= Len(actions) /\ phase = "grouping"
      /\ bytes = SumOf(SubSeq(actions, start, index - 1))
      /\ bytes <= MaxRecords /\ (index > 1 => start < index) /\ MaxRecords \in Nat
  BY DEF SplitInv, SplitTypeOK, TakeAction, SplitAssumption
<1>2. /\ start - 1 \in 0..Len(actions) /\ index - 1 \in 0..Len(actions) /\ index \in 0..Len(actions)
      /\ index - 1 \in (start - 1)..Len(actions) /\ index \in (start - 1)..Len(actions)
      /\ index \in (index - 1)..Len(actions)
      /\ (start - 1) + 1 = start /\ (index - 1) + 1 = index /\ index \in 1..Len(actions)
  BY <1>1
<1>3. b[index] = b[index - 1] + length /\ length \in Nat /\ length <= MaxRecords
  <2>1. b[index] = b[index - 1] + length
    BY <1>1, <1>2, BytesOfRecurses
  <2>2. a \in PlayerAction
    BY <1>1, <1>2
  <2> QED
    BY <2>1, <2>2, LengthsTyped
<1>4. b[start - 1] \in Nat /\ b[index - 1] \in Nat /\ b[index] \in Nat
  BY <1>1, <1>2, BytesGrow
<1>5. /\ bytes = b[index - 1] - b[start - 1]
      /\ SumOf(SubSeq(actions, start, index)) = b[index] - b[start - 1]
      /\ SumOf(SubSeq(actions, index, index)) = b[index] - b[index - 1]
      /\ SubSeq(actions, start, index - 1) \in Seq(PlayerAction)
  BY <1>1, <1>2, BytesOfPiece
<1>6. /\ index' = index + 1 /\ actions' = actions /\ frames' = frames /\ phase' = phase
      /\ \/ /\ bytes > 0 /\ bytes + length > MaxRecords
            /\ groups' = Append(groups, SubSeq(actions, start, index - 1))
            /\ start' = index /\ bytes' = length
         \/ /\ ~(bytes > 0 /\ bytes + length > MaxRecords)
            /\ bytes' = bytes + length /\ groups' = groups /\ start' = start
  BY DEF TakeAction, Overflows, Opens, Closed, BytesAfter
<1>7. PICK ends : GroupedUpTo(actions, groups, ends, start - 1)
  BY <1>1 DEF SplitInv
<1> HIDE DEF a, b, length
<1>8. CASE bytes > 0 /\ bytes + length > MaxRecords
  <2>1. /\ groups' = Append(groups, SubSeq(actions, start, index - 1))
        /\ start' = index /\ bytes' = length
    BY <1>6, <1>8
  <2>2. start - 1 < index - 1
    BY <1>1, <1>4, <1>5, <1>8
  <2>3. bytes + length = SumOf(SubSeq(actions, start, index))
    BY <1>3, <1>4, <1>5
  <2>4. \E e : GroupedUpTo(actions, Append(groups, SubSeq(actions, (start - 1) + 1, index - 1)), e, index - 1)
    <3>1. SumOf(SubSeq(actions, (start - 1) + 1, index - 1)) <= MaxRecords
      BY <1>1, <1>2
    <3>2. SumOf(SubSeq(actions, (start - 1) + 1, (index - 1) + 1)) > MaxRecords
      BY <1>2, <1>8, <2>3
    <3> HIDE DEF SplitAssumption
    <3> QED
      BY <1>1, <1>2, <1>7, <2>2, <3>1, <3>2, GroupedMore
  <2>5. \E e : GroupedUpTo(actions', groups', e, start' - 1)
    BY <1>2, <1>6, <2>1, <2>4
  <2>6. bytes' = SumOf(SubSeq(actions', start', index' - 1))
    <3>1. index' - 1 = index
      BY <1>1, <1>6
    <3>2. SubSeq(actions', start', index' - 1) = SubSeq(actions, index, index)
      BY <1>6, <2>1, <3>1
    <3>3. SumOf(SubSeq(actions, index, index)) = length
      BY <1>3, <1>4, <1>5
    <3> QED
      BY <2>1, <3>2, <3>3
  <2>7. SplitTypeOK'
    <3>1. groups' \in Seq(Seq(PlayerAction))
      BY <1>1, <1>5, <2>1
    <3>2. index' \in 1..(Len(actions') + 1) /\ start' \in 1..index'
      BY <1>1, <1>6, <2>1
    <3> QED
      BY <1>1, <1>6, <2>6, <3>1, <3>2 DEF SplitTypeOK
  <2>8. bytes' <= MaxRecords /\ start' < index'
    BY <1>1, <1>3, <1>6, <2>1
  <2> QED
    BY <1>1, <1>6, <2>5, <2>7, <2>8 DEF SplitInv
<1>9. CASE ~(bytes > 0 /\ bytes + length > MaxRecords)
  <2>1. bytes' = bytes + length /\ groups' = groups /\ start' = start
    BY <1>6, <1>9
  <2>2. bytes \in Int /\ bytes >= 0
    <3>1. b[start - 1] <= b[index - 1]
      <4>1. start - 1 <= index - 1
        BY <1>1
      <4> QED
        BY <1>1, <1>2, <4>1, BytesGrow DEF b
    <3> QED
      BY <1>4, <1>5, <3>1
  <2>3. bytes' <= MaxRecords
    BY <1>1, <1>3, <1>9, <2>1, <2>2
  <2>4. bytes' = SumOf(SubSeq(actions', start', index' - 1))
    <3>1. index' - 1 = index
      BY <1>1, <1>6
    <3>2. SubSeq(actions', start', index' - 1) = SubSeq(actions, start, index)
      BY <1>6, <2>1, <3>1
    <3>3. SumOf(SubSeq(actions, start, index)) = bytes + length
      BY <1>3, <1>4, <1>5
    <3> QED
      BY <2>1, <3>2, <3>3
  <2>5. SplitTypeOK'
    <3>1. index' \in 1..(Len(actions') + 1) /\ start' \in 1..index'
      BY <1>1, <1>6, <2>1
    <3> QED
      BY <1>1, <1>6, <2>1, <2>4, <3>1 DEF SplitTypeOK
  <2>6. start' < index'
    BY <1>1, <1>6, <2>1
  <2> QED
    BY <1>1, <1>6, <1>7, <2>1, <2>3, <2>5, <2>6 DEF SplitInv
<1> QED
  BY <1>8, <1>9

LEMMA CloseGroupsKeeps == SplitAssumption /\ SplitInv /\ CloseGroups => SplitInv'
<1> SUFFICES ASSUME SplitAssumption, SplitInv, CloseGroups PROVE SplitInv'
  OBVIOUS
<1>1. /\ actions \in Seq(PlayerAction) /\ groups \in Seq(Seq(PlayerAction))
      /\ start \in Nat /\ Len(actions) \in Nat /\ 1 <= start /\ index = Len(actions) + 1
      /\ start <= index /\ phase = "grouping"
      /\ bytes = SumOf(SubSeq(actions, start, index - 1))
      /\ bytes <= MaxRecords /\ (index > 1 => start < index)
  BY DEF SplitInv, SplitTypeOK, CloseGroups
<1>2. /\ phase' = "encoding" /\ actions' = actions /\ index' = index /\ start' = start
      /\ groups' = IF actions = <<>> THEN groups
                   ELSE Append(groups, SubSeq(actions, start, index - 1))
  BY DEF CloseGroups, Closed
<1>3. PICK ends : GroupedUpTo(actions, groups, ends, start - 1)
  BY <1>1 DEF SplitInv
<1>4. index - 1 = Len(actions) /\ (start - 1) + 1 = start
  BY <1>1
<1>5. /\ groups' \in Seq(Seq(PlayerAction))
      /\ \E e : GroupedUpTo(actions, groups', e, Len(actions))
  <2>1. CASE actions = <<>>
    <3>1. Len(actions) = start - 1
      BY <1>1, <2>1
    <3> QED
      BY <1>1, <1>2, <1>3, <2>1, <3>1
  <2>2. CASE actions # <<>>
    <3>1. Len(actions) # 0
      BY <1>1, <2>2
    <3>2. /\ start - 1 < Len(actions) /\ start - 1 \in 0..Len(actions) /\ Len(actions) \in 0..Len(actions)
          /\ Len(actions) \in (start - 1)..Len(actions)
      BY <1>1, <3>1
    <3>3. SubSeq(actions, start, Len(actions)) \in Seq(PlayerAction)
      BY <1>1, <1>4, <3>2, BytesOfPiece
    <3>4. groups' = Append(groups, SubSeq(actions, (start - 1) + 1, Len(actions)))
      BY <1>2, <1>4, <2>2
    <3>5. SumOf(SubSeq(actions, (start - 1) + 1, Len(actions))) <= MaxRecords
      BY <1>1, <1>4
    <3>6. ~(Len(actions) < Len(actions))
      BY <1>1
    <3>7. \E e : GroupedUpTo(actions, Append(groups, SubSeq(actions, (start - 1) + 1, Len(actions))),
                            e, Len(actions))
      BY <1>1, <1>3, <3>2, <3>5, <3>6, GroupedMore
    <3> QED
      BY <1>1, <1>4, <3>3, <3>4, <3>7
  <2> QED
    BY <2>1, <2>2
<1>6. SplitTypeOK'
  BY <1>1, <1>2, <1>5 DEF SplitTypeOK
<1> QED
  BY <1>2, <1>5, <1>6 DEF SplitInv

LEMMA SplitKeeps == SplitAssumption /\ SplitInv /\ [SplitNext]_splitVars => SplitInv'
<1> SUFFICES ASSUME SplitAssumption, SplitInv, [SplitNext]_splitVars PROVE SplitInv'
  OBVIOUS
<1>1. CASE TakeAction
  BY <1>1, TakeActionKeeps
<1>2. CASE CloseGroups
  BY <1>2, CloseGroupsKeeps
<1>3. CASE Encode
  <2>1. SplitTypeOK'
    BY <1>3 DEF SplitInv, SplitTypeOK, Encode
  <2> QED
    BY <1>3, <2>1 DEF SplitInv, Encode
<1>4. CASE UNCHANGED splitVars
  <2>1. SplitTypeOK'
    BY <1>4 DEF SplitInv, SplitTypeOK, splitVars
  <2> QED
    BY <1>4, <2>1 DEF SplitInv, splitVars
<1> QED
  BY <1>1, <1>2, <1>3, <1>4 DEF SplitNext

(* For every queue and all limits: the open group is what lies between the *)
(* groups that are closed and the index, and these are cut greedily.       *)
THEOREM SplitHolds == SplitAssumption /\ SplitSpec => []SplitInv
<1> SUFFICES ASSUME SplitAssumption PROVE SplitSpec => []SplitInv
  OBVIOUS
<1>1. SplitInit => SplitInv
  BY SplitStarts
<1>2. SplitInv /\ [SplitNext]_splitVars => SplitInv'
  BY SplitKeeps
<1> QED
  BY <1>1, <1>2, PTL DEF SplitSpec

----------------------------------------------------------------------------
(* What the invariant says of the groups and of the frames. *)

LEMMA GroupsTyped ==
  ASSUME SplitAssumption, SplitInv, NEW ends,
         GroupedUpTo(actions, groups, ends, Len(actions))
  PROVE  /\ Len(groups) \in Nat /\ Len(actions) \in Nat /\ DOMAIN groups = 1..Len(groups)
         /\ \A k \in 0..Len(groups) : ends[k] \in 0..Len(actions)
         /\ \A k \in 1..Len(groups) :
              /\ k - 1 \in 0..Len(groups) /\ k \in 0..Len(groups)
              /\ groups[k] \in Seq(PlayerAction)
              /\ SumOf(groups[k]) \in Nat /\ SumOf(groups[k]) > 0
              /\ SumOf(groups[k]) <= MaxRecords
<1>1. /\ Len(groups) \in Nat /\ Len(actions) \in Nat /\ DOMAIN groups = 1..Len(groups)
      /\ actions \in Seq(PlayerAction)
      /\ \A k \in 1..Len(groups) : groups[k] \in Seq(PlayerAction)
  BY DEF SplitInv, SplitTypeOK
<1>2. \A k \in 1..Len(groups) : k - 1 \in 0..Len(groups) /\ k \in 0..Len(groups)
  BY <1>1
<1>3. \A k \in 0..Len(groups) : ends[k] \in 0..Len(actions)
  BY DEF GroupedUpTo
<1>4. ASSUME NEW k \in 1..Len(groups)
      PROVE  /\ SumOf(groups[k]) \in Nat /\ SumOf(groups[k]) > 0
             /\ SumOf(groups[k]) <= MaxRecords
  <2> DEFINE i == ends[k - 1]
             j == ends[k]
             b == BytesOf(actions)
  <2>1. /\ i < j /\ groups[k] = SubSeq(actions, i + 1, j) /\ SumOf(groups[k]) <= MaxRecords
    BY DEF GroupedUpTo
  <2>2. i \in 0..Len(actions) /\ j \in 0..Len(actions)
    BY <1>2, <1>3
  <2> HIDE DEF i, j
  <2>3. i <= j /\ j \in i..Len(actions)
    BY <1>1, <2>1, <2>2
  <2>4. SumOf(groups[k]) = b[j] - b[i]
    BY <1>1, <2>1, <2>2, <2>3, BytesOfPiece
  <2>5. b[i] \in Nat /\ b[j] \in Nat /\ b[i] < b[j]
    BY <1>1, <2>1, <2>2, <2>3, BytesGrow
  <2> HIDE DEF b
  <2> QED
    BY <2>1, <2>4, <2>5
<1> QED
  BY <1>1, <1>2, <1>3, <1>4

LEMMA GroupsAreTheQueue ==
  ASSUME SplitAssumption, SplitInv, NEW ends,
         GroupedUpTo(actions, groups, ends, Len(actions))
  PROVE  FlattenSeq(groups) = actions
<1>1. actions \in Seq(PlayerAction) /\ groups \in Seq(Seq(PlayerAction))
  BY DEF SplitInv, SplitTypeOK
<1>2. \A k \in 0..Len(groups) : ends[k] \in 0..Len(actions)
  BY GroupsTyped
<1>3. /\ ends[0] = 0 /\ ends[Len(groups)] = Len(actions)
      /\ \A k \in 1..Len(groups) : /\ ends[k - 1] < ends[k]
                                   /\ groups[k] = SubSeq(actions, ends[k - 1] + 1, ends[k])
  BY DEF GroupedUpTo
<1>4. \A k \in 1..Len(groups) : ends[k - 1] <= ends[k]
  <2> TAKE k \in 1..Len(groups)
  <2>1. ends[k - 1] \in 0..Len(actions) /\ ends[k] \in 0..Len(actions)
    BY <1>2, GroupsTyped
  <2>2. Len(actions) \in Nat
    BY <1>1
  <2> DEFINE i == ends[k - 1]
             j == ends[k]
  <2>3. i < j
    BY <1>3
  <2> HIDE DEF i, j
  <2>4. i <= j
    BY <2>1, <2>2, <2>3 DEF i, j
  <2> QED
    BY <2>4 DEF i, j
<1>5. FlattenSeq(groups) = SubSeq(actions, 1, Len(actions))
  BY <1>1, <1>2, <1>3, <1>4, FlattenPieces
<1> QED
  BY <1>1, <1>5, SubSeqFull

(* An agent accepts the frame of a group that fits, and reads the group. *)
LEMMA FrameDecodes ==
  ASSUME SplitAssumption, NEW fragment \in BOOLEAN, NEW group \in Seq(PlayerAction),
         SumOf(group) \in Nat, SumOf(group) > 0, SumOf(group) <= MaxRecords
  PROVE  Decode(EncodeActionGroup(fragment, group)) = group
<1> DEFINE r == Records(group)
           frame == EncodeActionGroup(fragment, group)
<1>1. r \in Seq(Nat) /\ Len(r) = SumOf(group)
  BY RecordsAt
<1>2. DecodePlayerActions(r) = group
  BY DecodesRecords
<1>3. /\ frame.fragment = fragment /\ frame.records = r /\ frame.checksum = r
      /\ frame.time = IF fragment THEN 0 ELSE Increment
  BY DEF EncodeActionGroup, Time
<1> HIDE DEF r, frame
<1>4. r # <<>>
  BY <1>1
<1>5. EncodedBytes(frame) = 8 + Len(r)
  BY <1>3, <1>4 DEF EncodedBytes, FrameOverhead
<1>6. ~(EncodedBytes(frame) > MaxFrame)
  <2>1. MaxRecords \in Nat /\ MaxFrame \in Nat /\ MaxRecords + 8 <= MaxFrame
    BY DEF SplitAssumption, FrameOverhead
  <2> QED
    BY <1>1, <1>5, <2>1
<1>7. Decode(frame) = DecodePlayerActions(r)
  BY <1>3, <1>4, <1>6 DEF Decode
<1> QED
  BY <1>2, <1>7 DEF frame

LEMMA EmptyDecodes ==
  ASSUME SplitAssumption
  PROVE  Decode(EmptyTimeslot) = <<>> /\ <<>> # Malformed
<1>1. <<>> \in Seq(PlayerAction) /\ Len(<<>>) = 0
  OBVIOUS
<1>2. Records(<<>>) = <<>>
  <2>1. Records(<<>>) \in Seq(Nat) /\ Len(Records(<<>>)) = SumOf(<<>>)
    BY <1>1, RecordsAt
  <2>2. SumOf(<<>>) = 0
    BY <1>1, BytesOfRecurses DEF SumOf
  <2> QED
    BY <2>1, <2>2
<1>3. DecodePlayerActions(<<>>) = <<>>
  BY <1>1, <1>2, DecodesRecords
<1>4. /\ EmptyTimeslot.fragment = FALSE /\ EmptyTimeslot.records = <<>>
      /\ EmptyTimeslot.checksum = <<>>
  BY DEF EmptyTimeslot
<1>5. ~(EncodedBytes(EmptyTimeslot) > MaxFrame)
  <2>1. MaxRecords \in Nat /\ MaxFrame \in Nat /\ MaxRecords + 8 <= MaxFrame
    BY DEF SplitAssumption, FrameOverhead
  <2>2. EncodedBytes(EmptyTimeslot) = 6
    BY <1>4 DEF EncodedBytes, FrameOverhead
  <2> QED
    BY <2>1, <2>2
<1>6. Decode(EmptyTimeslot) = DecodePlayerActions(<<>>)
  BY <1>4, <1>5 DEF Decode
<1> QED
  BY <1>1, <1>3, <1>6, NeverMalformed

LEMMA AgentsReadWhat ==
  ASSUME SplitAssumption, SplitInv
  PROVE  AgentsReadTheQueue
<1>1. SplitTypeOK
  BY DEF SplitInv
<1>2. ASSUME phase # "grouping" PROVE FlattenSeq(groups) = actions
  <2>1. PICK ends : GroupedUpTo(actions, groups, ends, Len(actions))
    BY <1>2 DEF SplitInv
  <2> QED
    BY <2>1, GroupsAreTheQueue
<1>3. ASSUME phase = "done"
      PROVE  /\ \A i \in DOMAIN frames :
                  /\ Decode(frames[i]) # Malformed
                  /\ frames[i].time = IF i = Len(frames) THEN Increment ELSE 0
             /\ FlattenSeq([i \in DOMAIN frames |-> Decode(frames[i])]) = actions
  <2>1. FlattenSeq(groups) = actions
    BY <1>2, <1>3
  <2>2. PICK ends : GroupedUpTo(actions, groups, ends, Len(actions))
    BY <1>3 DEF SplitInv
  <2>3. frames = IF groups = <<>> THEN <<EmptyTimeslot>>
                 ELSE [i \in DOMAIN groups |-> EncodeActionGroup(i # Len(groups), groups[i])]
    BY <1>3 DEF SplitInv
  <2>4. CASE groups = <<>>
    <3>1. frames = <<EmptyTimeslot>> /\ DOMAIN frames = 1..1 /\ Len(frames) = 1
          /\ frames[1] = EmptyTimeslot
      BY <2>3, <2>4
    <3>2. Decode(frames[1]) = <<>> /\ Decode(frames[1]) # Malformed
      BY <3>1, EmptyDecodes
    <3>3. frames[1].time = Increment
      BY <3>1 DEF EmptyTimeslot
    <3>4. \A i \in 1..1 : i = 1
      OBVIOUS
    <3>5. FlattenSeq([i \in DOMAIN frames |-> Decode(frames[i])]) = <<>>
      <4> DEFINE s == [i \in DOMAIN frames |-> Decode(frames[i])]
      <4>1. s = << <<>> >>
        BY <3>1, <3>2
      <4> HIDE DEF s
      <4>2. s \in Seq(Seq(PlayerAction)) /\ Len(s) = 1 /\ s[1] = <<>>
        BY <4>1
      <4>3. PICK f \in [0..Len(s) -> Seq(PlayerAction)] :
              /\ f[0] = <<>> /\ f[Len(s)] = FlattenSeq(s)
              /\ \A n \in 1..Len(s) : f[n] = f[n - 1] \o s[n]
        BY <4>2, FlattenRecurses
      <4>4. f[1] = <<>> \o <<>>
        <5>1. 1 \in 1..1 /\ 1 - 1 = 0
          OBVIOUS
        <5> QED
          BY <4>2, <4>3, <5>1
      <4>5. <<>> \o <<>> = <<>>
        OBVIOUS
      <4> QED
        BY <4>3, <4>4, <4>5 DEF s
    <3>6. actions = <<>>
      <4>1. Len(groups) = 0
        BY <2>4
      <4>2. Len(actions) = 0 /\ actions \in Seq(PlayerAction)
        BY <1>1, <2>2, <4>1 DEF GroupedUpTo, SplitTypeOK
      <4> QED
        BY <4>2
    <3> QED
      BY <3>1, <3>2, <3>3, <3>4, <3>5, <3>6
  <2>5. CASE groups # <<>>
    <3> DEFINE n == Len(groups)
    <3>1. /\ n \in Nat /\ DOMAIN groups = 1..n
          /\ frames = [i \in 1..n |-> EncodeActionGroup(i # n, groups[i])]
      BY <2>2, <2>3, <2>5, GroupsTyped
    <3>2. DOMAIN frames = 1..n /\ Len(frames) = n
      <4> DEFINE R == {frames[i] : i \in 1..n}
      <4>1. DOMAIN frames = 1..n
        BY <3>1
      <4>2. frames \in [1..n -> R]
        BY <3>1
      <4> HIDE DEF n, R
      <4> QED
        BY <3>1, <4>1, <4>2
    <3>3. ASSUME NEW i \in 1..n
          PROVE  /\ Decode(frames[i]) = groups[i] /\ Decode(frames[i]) # Malformed
                 /\ frames[i].time = IF i = n THEN Increment ELSE 0
      <4>1. frames[i] = EncodeActionGroup(i # n, groups[i])
        BY <3>1
      <4>2. /\ groups[i] \in Seq(PlayerAction) /\ SumOf(groups[i]) \in Nat
            /\ SumOf(groups[i]) > 0 /\ SumOf(groups[i]) <= MaxRecords
        BY <2>2, GroupsTyped
      <4>3. Decode(frames[i]) = groups[i]
        <5>1. (i # n) \in BOOLEAN
          OBVIOUS
        <5> QED
          BY <4>1, <4>2, <5>1, FrameDecodes
      <4>4. groups[i] # Malformed
        BY <4>2, NeverMalformed
      <4>5. frames[i].time = IF i = n THEN Increment ELSE 0
        BY <4>1 DEF EncodeActionGroup, Time
      <4> QED
        BY <4>3, <4>4, <4>5
    <3>4. [i \in DOMAIN frames |-> Decode(frames[i])] = groups
      <4>1. groups \in Seq(Seq(PlayerAction))
        BY <1>1 DEF SplitTypeOK
      <4>2. groups = [i \in 1..n |-> groups[i]]
        BY <4>1
      <4>3. [i \in 1..n |-> Decode(frames[i])] = [i \in 1..n |-> groups[i]]
        BY <3>3
      <4> QED
        BY <3>2, <4>2, <4>3
    <3> QED
      BY <2>1, <3>2, <3>3, <3>4
  <2> QED
    BY <2>4, <2>5
<1> QED
  BY <1>1, <1>2, <1>3 DEF AgentsReadTheQueue

(* The greedy cut stays ahead of every other one that fits. *)
LEMMA GreedyStaysAhead ==
  ASSUME SplitAssumption, SplitInv, NEW ends,
         GroupedUpTo(actions, groups, ends, Len(actions)),
         NEW n \in 1..(Len(groups) - 1), NEW other \in Cuts(n),
         \A i \in 1..n : SumOf(Cut(other, i)) <= MaxRecords
  PROVE  \A m \in 0..n : other[m] <= ends[m]
<1> DEFINE S == {m \in Nat : m <= n => other[m] <= ends[m]}
           l == Len(actions)
           b == BytesOf(actions)
<1>1. /\ actions \in Seq(PlayerAction) /\ l \in Nat /\ n \in Nat /\ Len(groups) \in Nat
      /\ n < Len(groups) /\ MaxRecords \in Nat
  <2>1. actions \in Seq(PlayerAction)
    BY DEF SplitInv, SplitTypeOK
  <2>2. l \in Nat /\ Len(groups) \in Nat
    BY GroupsTyped
  <2>3. MaxRecords \in Nat
    BY DEF SplitAssumption
  <2>4. n \in Nat /\ n < Len(groups)
    BY <2>2
  <2> QED
    BY <2>1, <2>2, <2>3, <2>4
<1>2. /\ other \in [0..n -> 0..l] /\ other[0] = 0
      /\ \A i \in 1..n : other[i - 1] < other[i]
  BY DEF Cuts
<1>3. \A i \in 1..n : SumOf(SubSeq(actions, other[i - 1] + 1, other[i])) <= MaxRecords
  BY DEF Cut
<1>4. /\ ends[0] = 0 /\ \A k \in 0..Len(groups) : ends[k] \in 0..l
      /\ \A k \in 1..Len(groups) :
           /\ ends[k - 1] < ends[k]
           /\ ends[k] < l => SumOf(SubSeq(actions, ends[k - 1] + 1, ends[k] + 1)) > MaxRecords
  BY GroupsTyped DEF GroupedUpTo
<1>5. 0 \in S
  BY <1>2, <1>4
<1>6. ASSUME NEW m \in Nat, m \in S PROVE m + 1 \in S
  <2> SUFFICES ASSUME m + 1 <= n, ~(other[m + 1] <= ends[m + 1]) PROVE FALSE
    OBVIOUS
  <2> DEFINE p == other[m]
             q == other[m + 1]
             i == ends[m]
             j == ends[m + 1]
  <2>1. /\ m + 1 \in 1..n /\ m + 1 \in 1..Len(groups) /\ (m + 1) - 1 = m
        /\ m \in 0..n /\ m + 1 \in 0..n /\ m \in 0..Len(groups) /\ m + 1 \in 0..Len(groups)
    BY <1>1
  <2>2. p \in 0..l /\ q \in 0..l /\ i \in 0..l /\ j \in 0..l
    BY <1>2, <1>4, <2>1
  <2>3. p < q /\ i < j /\ ~(q <= j)
    BY <1>2, <1>4, <2>1
  <2>4. p <= i
    <3>1. m <= n
      BY <1>1
    <3> QED
      BY <1>6, <3>1
  <2>5. SumOf(SubSeq(actions, p + 1, q)) <= MaxRecords
    BY <1>3, <2>1
  <2>6. j < l => SumOf(SubSeq(actions, i + 1, j + 1)) > MaxRecords
    BY <1>4, <2>1
  <2> HIDE DEF p, q, i, j, S
  <2>7. /\ j + 1 <= q /\ j < l /\ j + 1 \in 0..l /\ j + 1 \in i..l /\ q \in p..l
        /\ p \in Nat /\ q \in Nat /\ i \in Nat /\ j \in Nat
    BY <1>1, <2>2, <2>3
  <2>8. /\ SumOf(SubSeq(actions, p + 1, q)) = b[q] - b[p]
        /\ SumOf(SubSeq(actions, i + 1, j + 1)) = b[j + 1] - b[i]
    BY <1>1, <2>2, <2>7, BytesOfPiece
  <2>9. /\ b[p] \in Nat /\ b[i] \in Nat /\ b[p] <= b[i]
    BY <1>1, <2>2, <2>4, BytesGrow
  <2>10. /\ b[j + 1] \in Nat /\ b[q] \in Nat /\ b[j + 1] <= b[q]
    BY <1>1, <2>2, <2>7, BytesGrow
  <2> HIDE DEF b, l
  <2>11. b[q] - b[p] <= MaxRecords /\ b[j + 1] - b[i] > MaxRecords
    BY <2>5, <2>6, <2>7, <2>8
  <2> QED
    BY <1>1, <2>9, <2>10, <2>11
<1> HIDE DEF S
<1>7. Nat \subseteq S
  BY <1>5, <1>6, Induction
<1>8. \A m \in 0..n : m \in Nat /\ m <= n
  BY <1>1
<1> QED
  BY <1>7, <1>8 DEF S

LEMMA FewestWhat ==
  ASSUME SplitAssumption, SplitInv
  PROVE  Fewest
<1> SUFFICES ASSUME phase # "grouping", NEW n \in 1..(Len(groups) - 1), NEW other \in Cuts(n)
             PROVE  \E i \in 1..n : SumOf(Cut(other, i)) > MaxRecords
  BY DEF Fewest
<1>1. PICK ends : GroupedUpTo(actions, groups, ends, Len(actions))
  BY DEF SplitInv
<1>2. /\ Len(groups) \in Nat /\ Len(actions) \in Nat /\ actions \in Seq(PlayerAction)
      /\ MaxRecords \in Nat
  BY <1>1, GroupsTyped DEF SplitInv, SplitTypeOK, SplitAssumption
<1>3. /\ n \in Nat /\ n + 1 \in 1..Len(groups) /\ (n + 1) - 1 = n /\ n \in 0..n
      /\ n \in 0..Len(groups) /\ n + 1 \in 0..Len(groups)
  BY <1>2
<1>4. other[n] = Len(actions)
  BY DEF Cuts
<1>5. ends[n] < ends[n + 1]
  BY <1>1, <1>3 DEF GroupedUpTo
<1>6. ends[n] \in 0..Len(actions) /\ ends[n + 1] \in 0..Len(actions)
  BY <1>1, <1>3, GroupsTyped
<1>7. ~(other[n] <= ends[n])
  <2> DEFINE i == ends[n]
             j == ends[n + 1]
  <2>1. i < j /\ i \in 0..Len(actions) /\ j \in 0..Len(actions)
    BY <1>5, <1>6
  <2> HIDE DEF i, j
  <2>2. ~(Len(actions) <= i)
    BY <1>2, <2>1
  <2> QED
    BY <1>4, <2>2 DEF i
<1>8. PICK i \in 1..n : ~(SumOf(Cut(other, i)) <= MaxRecords)
  BY <1>1, <1>3, <1>7, GreedyStaysAhead
<1>9. SumOf(Cut(other, i)) \in Int
  <2> DEFINE p == other[i - 1]
             q == other[i]
             b == BytesOf(actions)
  <2>1. i - 1 \in 0..n /\ i \in 0..n
    BY <1>3
  <2>2. p \in 0..Len(actions) /\ q \in 0..Len(actions) /\ p < q
    BY <2>1 DEF Cuts
  <2>3. Cut(other, i) = SubSeq(actions, p + 1, q)
    BY DEF Cut
  <2> HIDE DEF p, q
  <2>4. p <= q /\ q \in p..Len(actions)
    BY <1>2, <2>2
  <2>5. SumOf(Cut(other, i)) = b[q] - b[p]
    BY <1>2, <2>2, <2>3, <2>4, BytesOfPiece
  <2>6. b[p] \in Nat /\ b[q] \in Nat
    BY <1>2, <2>2, <2>4, BytesGrow
  <2> HIDE DEF b
  <2> QED
    BY <2>5, <2>6
<1> QED
  BY <1>2, <1>8, <1>9

(* An agent accepts every frame of every tick and reads back exactly what  *)
(* the players did, in order, and the time of the tick with the last frame *)
(* only, for every queue of actions and all limits that fit one another.   *)
THEOREM AgentsReadAlways == SplitAssumption /\ SplitSpec => []AgentsReadTheQueue
<1> SUFFICES ASSUME SplitAssumption PROVE SplitSpec => []AgentsReadTheQueue
  OBVIOUS
<1>1. SplitSpec => []SplitInv
  BY SplitHolds
<1>2. SplitInv => AgentsReadTheQueue
  BY AgentsReadWhat
<1> QED
  BY <1>1, <1>2, PTL

(* incoming_action_frames makes no more frames than any way to cut the     *)
(* queue into groups that fit needs.                                       *)
THEOREM FewestAlways == SplitAssumption /\ SplitSpec => []Fewest
<1> SUFFICES ASSUME SplitAssumption PROVE SplitSpec => []Fewest
  OBVIOUS
<1>1. SplitSpec => []SplitInv
  BY SplitHolds
<1>2. SplitInv => Fewest
  BY FewestWhat
<1> QED
  BY <1>1, <1>2, PTL
=============================================================================
