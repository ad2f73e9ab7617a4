---------------------------- MODULE LiveUpdates ----------------------------
(***************************************************************************)
(* Live updates (web/src/ws.rs): cycles, imports, webhooks and conflict    *)
(* decisions send JSON messages into one broadcast channel, which keeps    *)
(* the last Capacity of them (256) and never makes a sender wait.  Every   *)
(* WebSocket client has a receiver of its own, subscribed when its upgrade *)
(* request arrives, long before the client is let in.                      *)
(*                                                                         *)
(* A message is its number.                                                *)
(***************************************************************************)
EXTENDS Naturals

CONSTANTS
    Clients,
    Capacity,       \* of the broadcast channel
    MaxSent         \* bound: messages broadcast

ASSUME LiveUpdatesAssumption == Capacity \in Nat \ {0} /\ MaxSent \in Nat

VARIABLES
    sent,       \* messages broadcast so far
    conn,       \* each client's connection
    next,       \* the message its receiver is at
    last,       \* what the client was sent last since its upgrade request
    told        \* history: the message it knows that it has got to

liveVars == <<sent, conn, next, last, told>>

Message(k) == [kind |-> "message", n |-> k]
Warning(n) == [kind |-> "warning", n |-> n]
Nothing    == [kind |-> "nothing", n |-> 0]

\* The messages an item stands for, as its reader counts them.
Worth(item) == IF item.kind = "message" THEN 1 ELSE item.n

LiveInit ==
    /\ sent = 0
    /\ conn = [c \in Clients |-> "off"] /\ next = [c \in Clients |-> 1]
    /\ last = [c \in Clients |-> Nothing] /\ told = [c \in Clients |-> 0]

\* `send` keeps the newest messages and ignores having no receiver.
Broadcast ==
    /\ sent < MaxSent
    /\ sent' = sent + 1
    /\ UNCHANGED <<conn, next, last, told>>

\* The upgrade request: subscribe, then accept whatever comes.
Upgrade(c) ==
    /\ conn[c] \in {"off", "closed"}
    /\ conn' = [conn EXCEPT ![c] = "opened"]
    /\ next' = [next EXCEPT ![c] = sent + 1]
    /\ last' = [last EXCEPT ![c] = Nothing]
    /\ told' = [told EXCEPT ![c] = sent]
    /\ UNCHANGED sent

Goto(c, steps) ==
    /\ \E s \in steps : conn' = [conn EXCEPT ![c] = s]
    /\ UNCHANGED <<sent, next, last, told>>

\* A password or users ask for a token first.
Open(c) == conn[c] = "opened" /\ Goto(c, {"auth", "welcome"})

\* The first message, within five seconds: a valid token or anything else.
Authenticate(c) == conn[c] = "auth" /\ Goto(c, {"welcome", "closed"})

\* The welcome is sent, or the client is gone.
Greet(c) == conn[c] = "welcome" /\ Goto(c, {"live", "closed"})

-----------------------------------------------------------------------------
(* The loop.  A send that fails ends the connection, except the warning's, *)
(* whose result is dropped: the loop goes on with a client that is gone,   *)
(* and nothing reaches it any more.                                        *)

Oldest == IF sent >= Capacity THEN sent - Capacity + 1 ELSE 1

Missed(c) == Oldest - next[c]

Show(c, item) ==
    /\ last' = [last EXCEPT ![c] = item]
    /\ told' = [told EXCEPT ![c] = @ + Worth(item)]

Forward(c) ==
    /\ conn[c] \in {"live", "gone"}
    /\ next[c] <= sent /\ next[c] >= Oldest
    /\ \/ /\ conn[c] = "live"
          /\ Show(c, Message(next[c]))
          /\ next' = [next EXCEPT ![c] = @ + 1]
          /\ UNCHANGED conn
       \/ /\ conn' = [conn EXCEPT ![c] = "closed"]
          /\ UNCHANGED <<next, last, told>>
    /\ UNCHANGED sent

\* Variant for mutation testing: a lagging receiver goes on without a word.
WarnNever(c) == conn[c] = "live" /\ UNCHANGED <<conn, last, told>>

Warn(c) ==
    \/ conn[c] = "live" /\ Show(c, Warning(Missed(c))) /\ UNCHANGED conn
    \/ conn' = [conn EXCEPT ![c] = "gone"] /\ UNCHANGED <<last, told>>

\* The receiver fell behind: recv says by how many messages, and resumes at
\* the oldest one kept.
Lagged(c) ==
    /\ conn[c] \in {"live", "gone"} /\ next[c] < Oldest
    /\ Warn(c)
    /\ next' = [next EXCEPT ![c] = Oldest]
    /\ UNCHANGED sent

\* The client closes, or its socket fails: select! notices that as well.
Leave(c) == conn[c] \in {"live", "gone"} /\ Goto(c, {"closed"})

LiveNext ==
    \/ Broadcast
    \/ \E c \in Clients :
          \/ Upgrade(c) \/ Open(c) \/ Authenticate(c) \/ Greet(c)
          \/ Forward(c) \/ Lagged(c) \/ Leave(c)

LiveSpec == LiveInit /\ [][LiveNext]_liveVars

-----------------------------------------------------------------------------
\* handle_socket: counting messages and the numbers in the warnings from the
\* upgrade request on, a client always knows which message it is reading: what
\* was sent while it was let in is not lost, nothing comes twice, and nothing
\* is dropped without a warning that says how much.
NothingLostSilently ==
    \A c \in Clients : last[c].kind = "message" => last[c].n = told[c]
=============================================================================
