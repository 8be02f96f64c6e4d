------------------------------- MODULE Bridge -------------------------------
(***************************************************************************)
(* The bridge of the agent-economy example: an HTTP server that lets a     *)
(* browser order from a seller agent.  /order opens a thread in a session  *)
(* that all orders share, asks the seller and waits for its payment        *)
(* request; /order/:reference/paid hands the seller a signature and waits  *)
(* for its delivery.  Both read the transcript by polling, and verify      *)
(* nothing: the seller is any agent, which may say what it likes, in any   *)
(* order, or nothing at all, as the seller agent of this repository does   *)
(* by now (seller-agent/README.md:35-36).  Two more doors start a session  *)
(* in which agents trade among themselves, and show its messages.          *)
(***************************************************************************)
EXTENDS Payments

CONSTANTS MaxPosts,   \* bound on the calls of the bridge's API
          MaxOrders,  \* bound on the orders among them
          MaxSaid,    \* bound on what the seller says in a thread
          Offers,     \* the references that payment requests come with
          Doors,      \* the doors that are provisioned, of {"autonomous", "swarm"}
          Prompts     \* of {"plain", "PAYMENT_REQUIRED", "DELIVERED"}: the
                      \* marker that a prompt happens to contain

VARIABLES session,    \* the cached promise: "none", "made", "ready" or "rejected"
          creating,   \* requests for a session that are on their way
          sessions,   \* how many sessions exist
          threads,    \* the threads of the session, each with its messages
          orders,     \* the map of references to threads, 0 for none
          doors,      \* by door: its session, how many it opened, and whether
                      \* two starts of it overlapped
          post        \* by call of the bridge's API: its place and its locals

bridgeVars == <<session, creating, sessions, threads, orders, doors, post>>

ASSUME BridgeAssumption ==
  /\ MaxPosts \in Nat /\ MaxOrders \in Nat /\ MaxSaid \in Nat
  /\ None \notin {"PAYMENT_REQUIRED", "DELIVERED"} \cup Offers

Posts == 1..MaxPosts
Unposted == [pc |-> "idle"]

BridgeInit ==
  /\ session = "none"
  /\ creating = 0
  /\ sessions = 0
  /\ threads = <<>>
  /\ orders = [ref \in Offers |-> 0]
  /\ doors = [d \in {"autonomous", "swarm"} |-> [sid |-> 0, opened |-> 0, raced |-> FALSE]]
  /\ post = [c \in Posts |-> Unposted]

Say(thread, m) == threads' = [threads EXCEPT ![thread] = Append(@, m)]
Now(c, pc) == post' = [post EXCEPT ![c].pc = pc]

Message(kind, ref, has) == [kind |-> kind, ref |-> ref, has |-> has]

\* Calls are answered "ok", or 404, or 400, or 502 when something threw.
BadGateway(c) == Now(c, "502") /\ Fault

-----------------------------------------------------------------------------
(* The session.                                                            *)

EnsureSession ==
  IF session = "none" THEN creating' = creating + 1 /\ session' = "made"
  ELSE UNCHANGED <<session, creating>>

AwaitSession == {c \in Posts : post[c].pc = "session"}

SessionCreated ==
  /\ creating > 0
  /\ creating' = creating - 1
  /\ sessions' = sessions + 1
  /\ session' = "ready"
  /\ UNCHANGED <<payVars, threads, orders, doors, post>>

\* An error status clears the cache; a fetch that throws leaves the rejected
\* promise in it.  Either may have created the session.
SessionFails ==
  /\ creating > 0
  /\ creating' = creating - 1
  /\ session' \in {"none", "rejected"}
  /\ sessions' \in {sessions, sessions + 1}
  /\ post' = [c \in Posts |->
                IF c \in AwaitSession THEN [post[c] EXCEPT !.pc = "502"] ELSE post[c]]
  /\ Fault
  /\ UNCHANGED <<demo, chain, debited, refs, threads, orders, doors>>

\* Whoever comes after a rejection is rejected.
Rejected(c) ==
  /\ post[c].pc = "session"
  /\ session = "rejected"
  /\ Now(c, "502")
  /\ UNCHANGED <<payVars, session, creating, sessions, threads, orders, doors>>

-----------------------------------------------------------------------------
(* POST /order.                                                            *)

PostOrder(c, prompt) ==
  /\ post[c].pc = "idle"
  /\ EnsureSession
  /\ post' = [post EXCEPT ![c] =
                [pc |-> "session", op |-> "order", prompt |-> prompt,
                 thread |-> 0, ref |-> None]]
  /\ UNCHANGED <<payVars, sessions, threads, orders, doors>>

\* The thread is created and then the request injected; either may throw.
AskForPrice(c) ==
  /\ post[c].pc = "session" /\ post[c].op = "order" /\ session = "ready"
  /\ \/ /\ threads' = Append(threads, <<Message("request", None, post[c].prompt)>>)
        /\ post' = [post EXCEPT ![c].pc = "poll", ![c].thread = Len(threads) + 1]
        /\ UNCHANGED faults
     \/ BadGateway(c) /\ UNCHANGED threads
  /\ UNCHANGED <<demo, chain, debited, refs, session, creating, sessions, orders, doors>>

Hits(thread, marker) ==
  {<<thread, i>> : i \in {i \in DOMAIN threads[thread] :
     marker \in {threads[thread][i].kind, threads[thread][i].has}}}

\* A slip: the polls do not look at the thread.
PolledMutant(thread, marker) == UNION {Hits(t, marker) : t \in DOMAIN threads}

\* The first message in the thread that contains the marker, whoever said it.
Polled(thread, marker) == Hits(thread, marker)

First(hits) ==
  CHOOSE h \in hits : \A g \in hits : h[1] < g[1] \/ (h[1] = g[1] /\ h[2] <= g[2])

Poll(c, marker) ==
  LET h == First(Polled(post[c].thread, marker)) IN threads[h[1]][h[2]]

Marker(c) == IF post[c].op = "order" THEN "PAYMENT_REQUIRED" ELSE "DELIVERED"

CanPoll(c) ==
  /\ post[c].pc = "poll"
  /\ Polled(post[c].thread, Marker(c)) # {}

\* A marker without a reference cannot be parsed.
OrderPlaced(c) ==
  /\ CanPoll(c) /\ post[c].op = "order"
  /\ LET m == Poll(c, Marker(c)) IN
     IF m.ref # None
     THEN /\ orders' = [orders EXCEPT ![m.ref] = post[c].thread]
          /\ post' = [post EXCEPT ![c].pc = "ok", ![c].ref = m.ref]
     ELSE Now(c, "502") /\ UNCHANGED orders
  /\ UNCHANGED <<payVars, session, creating, sessions, threads, doors>>

TimedOut(c) ==
  /\ post[c].pc = "poll"
  /\ Now(c, "502")
  /\ UNCHANGED <<payVars, session, creating, sessions, threads, orders, doors>>

-----------------------------------------------------------------------------
(* POST /order/:reference/paid.                                            *)

\* An unknown reference is answered 404, a known one without a signature 400.
PostPaid(c, ref, sig) ==
  /\ post[c].pc = "idle"
  /\ LET pc == IF orders[ref] = 0 THEN "404" ELSE IF ~sig THEN "400" ELSE "session" IN
     /\ post' = [post EXCEPT ![c] =
                   [pc |-> pc, op |-> "paid", thread |-> orders[ref], ref |-> ref, data |-> None]]
     /\ IF pc = "session" THEN EnsureSession ELSE UNCHANGED <<session, creating>>
  /\ UNCHANGED <<payVars, sessions, threads, orders, doors>>

TellSeller(c) ==
  /\ post[c].pc = "session" /\ post[c].op = "paid" /\ session = "ready"
  /\ \/ Now(c, "poll") /\ UNCHANGED faults
     \/ BadGateway(c)
  /\ Say(post[c].thread, Message("paid", post[c].ref, None))
  /\ UNCHANGED <<demo, chain, debited, refs, session, creating, sessions, orders, doors>>

\* data is a history: the place in the transcript of what is returned.
Delivered(c) ==
  /\ CanPoll(c) /\ post[c].op = "paid"
  /\ post' = [post EXCEPT ![c].pc = "ok", ![c].data = First(Polled(post[c].thread, Marker(c)))]
  /\ orders' = [orders EXCEPT ![post[c].ref] = 0]
  /\ UNCHANGED <<payVars, session, creating, sessions, threads, doors>>

-----------------------------------------------------------------------------
(* The doors: /autonomous and /swarm, each with a start and a feed.        *)

orderVars == <<session, creating, sessions, threads, orders>>

Starting(door) ==
  {c \in Posts : post[c].pc = "launch" /\ post[c].door = door}

DoorCall(op, pc, door, sid) ==
  [pc |-> pc, op |-> op, door |-> door, sid |-> sid]

\* A door that is not provisioned answers 400, one with a session names it; the
\* session is kept only once it exists.
PostStart(c, door) ==
  /\ post[c].pc = "idle"
  /\ LET pc == IF door \notin Doors THEN "400"
               ELSE IF doors[door].sid # 0 THEN "ok" ELSE "launch"
     IN /\ post' = [post EXCEPT ![c] = DoorCall("start", pc, door, doors[door].sid)]
        /\ doors' = [doors EXCEPT ![door].raced =
                       @ \/ (pc = "launch" /\ Starting(door) # {})]
  /\ UNCHANGED <<payVars, orderVars>>

\* The session is created, and is the door's from now on; or the call fails, and
\* may have created one.
Launched(c) ==
  /\ post[c].pc = "launch"
  /\ LET door == post[c].door
         new == doors[door].opened + 1
     IN \/ /\ doors' = [doors EXCEPT ![door].opened = new, ![door].sid = new]
           /\ post' = [post EXCEPT ![c].pc = "ok", ![c].sid = new]
           /\ UNCHANGED faults
        \/ /\ BadGateway(c)
           /\ doors' \in {doors, [doors EXCEPT ![door].opened = new]}
  /\ UNCHANGED <<demo, chain, debited, refs, orderVars>>

\* A feed without a session is not running (0).
PostFeed(c, door) ==
  /\ post[c].pc = "idle"
  /\ LET sid == doors[door].sid IN
     post' = [post EXCEPT ![c] =
                DoorCall("feed", IF sid = 0 THEN "ok" ELSE "feed", door, sid)]
  /\ UNCHANGED <<payVars, orderVars, doors>>

\* Messages of the session, or none when the read has an error status.
FeedRead(c) ==
  /\ post[c].pc = "feed"
  /\ \/ Now(c, "ok") /\ UNCHANGED faults
     \/ Now(c, "ok") /\ Fault
     \/ BadGateway(c)
  /\ UNCHANGED <<demo, chain, debited, refs, orderVars, doors>>

-----------------------------------------------------------------------------
(* The seller, in the threads it is mentioned in, and the browsers.        *)

Sellers(m) == m.kind \in {"PAYMENT_REQUIRED", "DELIVERED"}

\* A payment request may lack its reference, or bear one that was offered before.
SellerSays ==
  \E t \in DOMAIN threads :
    /\ Cardinality({i \in DOMAIN threads[t] : Sellers(threads[t][i])}) < MaxSaid
    /\ \/ \E ref \in Offers \cup {None} : Say(t, Message("PAYMENT_REQUIRED", ref, None))
       \/ Say(t, Message("DELIVERED", None, None))
    /\ UNCHANGED <<payVars, session, creating, sessions, orders, doors, post>>

Posted(ops) == {post[c].op : c \in {c \in Posts : post[c].pc # "idle"}} \subseteq ops

\* The doors share nothing with the orders: a behaviour takes calls of one kind.
PostSomething ==
  \E c \in Posts :
    /\ \A d \in 1..(c - 1) : post[d].pc # "idle"
    /\ \/ /\ Posted({"order", "paid"})
          /\ \/ /\ Cardinality({d \in Posts : post[d].pc # "idle" /\ post[d].op = "order"}) < MaxOrders
                /\ \E prompt \in Prompts : PostOrder(c, prompt)
             \/ \E ref \in Offers, sig \in BOOLEAN : PostPaid(c, ref, sig)
       \/ /\ Posted({"start", "feed"})
          /\ \E door \in DOMAIN doors : PostStart(c, door) \/ PostFeed(c, door)

Handle(c) == Rejected(c) \/ AskForPrice(c) \/ OrderPlaced(c) \/ TellSeller(c)
             \/ Delivered(c) \/ TimedOut(c) \/ Launched(c) \/ FeedRead(c)

BridgeStep ==
  /\ demo = "web"
  /\ SessionCreated \/ SessionFails \/ \E c \in Posts : Handle(c)

BridgeEvent ==
  /\ demo = "web"
  /\ PostSomething \/ SellerSays

-----------------------------------------------------------------------------
(* Properties.                                                             *)

\* What /paid returns under a reference was said in the conversation of an order
\* that was answered with this reference, whatever other orders wait at the same
\* time and in whatever order the seller speaks: its delivery, the same one for
\* every call about that order; or the prompt, if that happened to contain the
\* word that the poll looks for (bridge/server.ts:125-155,166-222).
Placed(o, ref, thread) ==
  post[o].pc = "ok" /\ post[o].op = "order" /\ post[o].ref = ref /\ post[o].thread = thread

Returned(c) == post[c].pc = "ok" /\ post[c].op = "paid"

DataForOrder ==
  \A c \in Posts : Returned(c) =>
    LET thread == post[c].thread
        data == threads[post[c].data[1]][post[c].data[2]]
    IN
    /\ \E o \in Posts :
         /\ Placed(o, post[c].ref, thread)
         /\ \A d \in Posts : Placed(d, post[d].ref, thread) => d = o
    /\ post[c].data[1] = thread
    /\ data.kind = "DELIVERED" \/ (post[c].data[2] = 1 /\ data.has = "DELIVERED")
    /\ \A d \in Posts : Returned(d) /\ post[d].thread = thread => post[d].data = post[c].data

\* Orders that come before the session is there share the one that is on its way,
\* and a session that failed is not asked for again but by a later order
\* (bridge/server.ts:77-107).
OneSession == sessions <= 1 + faults

\* A door's sessions cost their agents money, so a start that finds one reuses
\* it: whatever a start or a feed was answered is about the door's session, and
\* no other was opened, unless two starts overlapped or a call failed
\* (bridge/server.ts:227-258,287-325).
DoorsReuse ==
  /\ \A c \in Posts : post[c].pc = "ok" /\ post[c].op \in {"start", "feed"} =>
       \/ post[c].sid = doors[post[c].door].sid
       \/ post[c].op = "feed" /\ post[c].sid = 0
       \/ doors[post[c].door].raced
  /\ \A d \in DOMAIN doors : doors[d].raced \/ doors[d].opened <= 1 + faults

\* What the bridge answers is about the order that was asked for, in the one
\* session of all orders, or about the one session of the door.
AnswersHold == DataForOrder /\ OneSession /\ DoorsReuse

=============================================================================
