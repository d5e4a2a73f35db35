------------------------------ MODULE Roaming -------------------------------
(***************************************************************************)
(* Roaming by port hops (src/session.rs: maybe_hop_port, prune_sockets,    *)
(* receive): after a silence the client binds another socket and sends     *)
(* from it, while the older sockets stay open for answers still addressed  *)
(* to them.  The server is external: it answers the socket that it heard   *)
(* from last.                                                              *)
(*                                                                         *)
(* The unit of time is coarse against the loop, which comes round at least *)
(* every POLL_CAP_MS: in each unit the loop makes at least one round.      *)
(* Ages stop where the code no longer tells them apart, and the names of   *)
(* closed sockets are used again, so behaviours are infinite in a finite   *)
(* state space.                                                            *)
(***************************************************************************)
EXTENDS Integers, Sequences, FiniteSets, SequencesExt

CONSTANTS
  hop_interval_ms,
  MAX_PORTS_OPEN,
  MAX_OLD_SOCKET_AGE_MS,
  OLD_SOCKET_DRAIN_CAP,
  MaxInbox,     \* bound on the datagrams waiting in a socket
  MaxDeaths     \* bound on the paths that stop working

ASSUME RoamingAssumption ==
  /\ hop_interval_ms \in Nat /\ MAX_OLD_SOCKET_AGE_MS \in Nat
  /\ MAX_PORTS_OPEN \in Nat \ {0, 1} /\ OLD_SOCKET_DRAIN_CAP \in Nat \ {0}
  /\ MaxInbox \in Nat \ {0} /\ MaxDeaths \in Nat

Sockets == 1 .. MAX_PORTS_OPEN + 1
NoSocket == 0
Silent == hop_interval_ms + 1              \* and longer
Old == MAX_OLD_SOCKET_AGE_MS + 1           \* and longer

\* How long a socket stays open after the last send from it, at least.
Linger == LET hops == (MAX_PORTS_OPEN - 1) * Silent IN IF Old < hops THEN Old ELSE hops

VARIABLES
  socks,         \* newest last
  choice_age,    \* since last_port_choice
  trip_age,      \* since last_roundtrip_success
  loop,          \* where the loop is: "round", "receive" or "drain"
  at, drained,   \* the old socket being drained, and how many were handled
  rounds,        \* the loop has come round in this unit of time
  idle_age,      \* history: socket -> since it was the newest
  inbox,         \* socket -> ages of the states acknowledged by what waits there
  alive,         \* the sockets whose path works
  deaths,
  server         \* external: [addr, age]: where it answers, and which state

loopVars == << loop, at, drained, rounds >>
networkVars == << alive, deaths >>
roamingVars ==
  << socks, choice_age, trip_age, loopVars, idle_age, inbox, networkVars, server >>

newest == Last(socks)
Aged(age, limit) == IF age < limit THEN age + 1 ELSE age

RoamingInit ==
  /\ socks = << 1 >>
  /\ choice_age = 0 /\ trip_age = 0
  /\ loop = "round" /\ at = 0 /\ drained = 0 /\ rounds = FALSE
  /\ idle_age = [s \in Sockets |-> 0]
  /\ inbox = [s \in Sockets |-> << >>]
  /\ alive = {1} /\ deaths = 0
  /\ server = [addr |-> NoSocket, age |-> 0]

-----------------------------------------------------------------------------
(* The loop. *)

FreeSocket == CHOOSE s \in Sockets \ Range(socks) : TRUE

\* Mutant: the silence is not measured from the last hop as well.
HopWheneverSilent == trip_age > hop_interval_ms

\* The two early returns of maybe_hop_port.
HopDue == choice_age > hop_interval_ms /\ trip_age > hop_interval_ms

\* Mutant: the new socket takes its place among the old ones.
HoppedToFront(bound) == IF HopDue /\ bound THEN << FreeSocket >> \o socks ELSE socks

\* maybe_hop_port: a failing bind changes nothing, and is tried again.
Hopped(bound) == IF HopDue /\ bound THEN Append(socks, FreeSocket) ELSE socks

\* prune_sockets: by age all but the newest, by number the oldest.
Pruned(ss, age) ==
  LET young == IF Len(ss) > 1 /\ age > MAX_OLD_SOCKET_AGE_MS
                 THEN << Last(ss) >> ELSE ss
      over  == Len(young) - MAX_PORTS_OPEN
  IN  IF over > 0 THEN SubSeq(young, over + 1, Len(young)) ELSE young

\* A round of run(): send from the newest socket, hop, prune.  The datagram
\* reaches the server if the path works and the network is kind.
Round(delivered, bound) ==
  LET hops   == HopDue /\ bound
      age    == IF hops THEN 0 ELSE choice_age
      kept   == Pruned(Hopped(bound), age)
      closed == Range(Hopped(bound)) \ Range(kept)
  IN  /\ loop = "round"
      /\ delivered => newest \in alive
      /\ socks' = kept
      /\ choice_age' = age
      /\ alive' = (IF hops THEN alive \cup {FreeSocket} ELSE alive) \ closed
      /\ inbox' = [s \in Sockets |-> IF s \in closed THEN << >> ELSE inbox[s]]
      /\ idle_age' = [s \in Sockets |-> IF s \in Range(kept) \ {FreeSocket}
                                          THEN idle_age[s] ELSE 0]
      /\ server' = LET heard == IF delivered THEN [addr |-> newest, age |-> 0]
                                             ELSE server
                   IN  IF heard.addr \in closed THEN [heard EXCEPT !.addr = NoSocket]
                                                ELSE heard
      /\ loop' = "receive"
      /\ UNCHANGED << trip_age, at, drained, rounds, deaths >>

\* handle_datagram, for its effect on last_roundtrip_success.
Handle(s) ==
  /\ inbox' = [inbox EXCEPT ![s] = Tail(@)]
  /\ trip_age' = IF Head(inbox[s]) < trip_age THEN Head(inbox[s]) ELSE trip_age

\* receive(): at most one datagram from the newest socket, then the old ones.
ReceiveNewest ==
  /\ loop = "receive"
  /\ IF inbox[newest] # << >> THEN Handle(newest) ELSE UNCHANGED << inbox, trip_age >>
  /\ loop' = "drain"
  /\ at' = Len(socks) - 1
  /\ drained' = 0
  /\ UNCHANGED << socks, choice_age, rounds, idle_age, networkVars, server >>

\* Mutant: the cap is forgotten.
DrainUncapped ==
  /\ loop = "drain" /\ at > 0 /\ inbox[socks[at]] # << >>
  /\ Handle(socks[at])
  /\ drained' = drained + 1
  /\ UNCHANGED << socks, choice_age, loop, at, rounds, idle_age, networkVars, server >>

\* One datagram of an old socket; at the cap its loop is left.
DrainOne ==
  /\ loop = "drain" /\ at > 0 /\ inbox[socks[at]] # << >>
  /\ Handle(socks[at])
  /\ drained' = drained + 1
  /\ at' = IF drained + 1 >= OLD_SOCKET_DRAIN_CAP THEN at - 1 ELSE at
  /\ UNCHANGED << socks, choice_age, loop, rounds, idle_age, networkVars, server >>

DrainNext ==
  /\ loop = "drain" /\ at > 0 /\ inbox[socks[at]] = << >>
  /\ at' = at - 1
  /\ UNCHANGED << socks, choice_age, trip_age, loop, drained, rounds, idle_age,
                  inbox, networkVars, server >>

Drained ==
  /\ loop = "drain" /\ at = 0
  /\ loop' = "round"
  /\ rounds' = TRUE
  /\ drained' = 0
  /\ UNCHANGED << socks, choice_age, trip_age, at, idle_age, inbox, networkVars,
                  server >>

-----------------------------------------------------------------------------
(* The world. *)

\* External: the server answers, acknowledging the newest state it has.
ServerReply ==
  /\ server.addr \in alive /\ Len(inbox[server.addr]) < MaxInbox
  /\ inbox' = [inbox EXCEPT ![server.addr] = Append(@, server.age)]
  /\ UNCHANGED << socks, choice_age, trip_age, loopVars, idle_age, networkVars,
                  server >>

\* External: a path stops working (a NAT forgets it, the network changes).
PathDies(s) ==
  /\ s \in alive /\ deaths < MaxDeaths
  /\ alive' = alive \ {s} /\ deaths' = deaths + 1
  /\ UNCHANGED << socks, choice_age, trip_age, loopVars, idle_age, inbox, server >>

RoamingClock ==
  /\ loop = "round" /\ rounds
  /\ rounds' = FALSE
  /\ choice_age' = Aged(choice_age, IF Old < Silent THEN Silent ELSE Old)
  /\ trip_age' = Aged(trip_age, Silent)
  /\ server' = [server EXCEPT !.age = Aged(@, Silent)]
  /\ idle_age' = [s \in Sockets |-> IF s \in Range(socks) \ {newest}
                                      THEN Aged(idle_age[s], Linger) ELSE 0]
  /\ inbox' = [s \in Sockets |-> [i \in DOMAIN inbox[s] |-> Aged(inbox[s][i], Silent)]]
  /\ UNCHANGED << socks, loop, at, drained, networkVars >>

LoopStep ==
  \/ \E delivered, bound \in BOOLEAN : Round(delivered, bound)
  \/ ReceiveNewest \/ DrainOne \/ DrainNext \/ Drained

RoamingNext ==
  \/ LoopStep
  \/ ServerReply
  \/ \E s \in Sockets : PathDies(s)
  \/ RoamingClock

\* The loop runs and time passes.  The network and the server are not always
\* deaf: of datagrams sent over and over on a path that works, some arrive and
\* some are answered at once, and a bind tried over and over succeeds.
RoamingSpec ==
  /\ RoamingInit /\ [][RoamingNext]_roamingVars
  /\ WF_roamingVars(LoopStep) /\ SF_roamingVars(RoamingClock)
  /\ SF_roamingVars(\E bound \in BOOLEAN : Round(TRUE, bound))
  /\ SF_roamingVars(\E delivered \in BOOLEAN : HopDue /\ Round(delivered, TRUE))
  /\ SF_roamingVars(server.age = 0 /\ ServerReply)

-----------------------------------------------------------------------------
\* RoamsOut: a session that has fallen silent gets a round trip through again,
\* whichever paths died and whichever socket the server was answering.
RoamsOut == trip_age = Silent ~> trip_age < Silent

\* LingersForReplies: no socket is closed while it is the newest, nor sooner
\* after its last send than Linger, however long the silence and however many
\* the hops - so an answer that takes less finds its socket open.
LingersForReplies ==
  [][\A s \in Range(socks) \ Range(socks') : idle_age[s] >= Linger]_roamingVars

\* DrainBounded: however fast the answers come, one wake handles no more of
\* them from old sockets than the cap, and one from each socket older than the
\* one that reached it: `break' leaves the loop over a single socket, so the
\* comment on OLD_SOCKET_DRAIN_CAP ("Per-wake drain cap on old sockets") holds
\* only up to the number of sockets.
DrainBounded == drained <= OLD_SOCKET_DRAIN_CAP + MAX_PORTS_OPEN - 2
=============================================================================
