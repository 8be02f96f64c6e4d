------------------------------ MODULE Sessions ------------------------------
(***************************************************************************)
(* How the feed server finds a session at Coral and streams it             *)
(* (server.ts).  A session lives in one namespace of Coral; the server     *)
(* remembers which, until it restarts, and looks into the others when the  *)
(* session is not where it is asked for.  A stream sends a snapshot, then  *)
(* sets a timer that sends one more whenever it fires, whether or not the  *)
(* one before has been read.  The routes that are not streams send one     *)
(* snapshot.                                                               *)
(*                                                                         *)
(* One session and one stream, which a client may open again.  A snapshot  *)
(* only tells whether the session was found.                               *)
(***************************************************************************)
EXTENDS FiniteSets, Integers

CONSTANTS Namespaces,
          NS,                     \* the configured namespace
          SESSION_READ_RETRIES,
          MaxSends,               \* bound: snapshots of a stream in flight
          MaxFaults,              \* bound: requests to Coral that fail
          MaxStreams,             \* bound: how often the stream is opened
          Nowhere

ASSUME SessionsAssumption == NS \in Namespaces /\ SESSION_READ_RETRIES \in Nat \ {0}

VARIABLES
  home,               \* the namespace the session is in, once it exists
  sessionNamespaces,  \* the namespace that the server remembers
  stream,             \* how far it is, whether its client has left, and
                      \* whether the session of a single read was there
  sends,              \* sends[i]: a snapshot that is being read
  shown,              \* the client has been sent the session
  streamFaults, opened

sessionsVars == <<home, sessionNamespaces, stream, sends, shown, streamFaults, opened>>

Sends == 1..MaxSends

Idle == [at |-> "idle", attempt |-> 0, left |-> {}]
Asking(attempt) == [at |-> "asked", attempt |-> attempt, left |-> {}]
Got(result) == [at |-> result, attempt |-> 0, left |-> {}]

NoStream == [at |-> "none", namespace |-> NS, closed |-> FALSE, cleared |-> FALSE,
             there |-> FALSE]

SessionsInit ==
  /\ home = Nowhere
  /\ sessionNamespaces = Nowhere
  /\ stream = NoStream
  /\ sends = [i \in Sends |-> Idle]
  /\ shown = FALSE
  /\ streamFaults = 0
  /\ opened = 0
-----------------------------------------------------------------------------
(* Reading the session.                                                    *)

Goto(i, send) == sends' = [sends EXCEPT ![i] = send]

CoralFails == streamFaults < MaxFaults /\ streamFaults' = streamFaults + 1

(* readState's handler: asked again later, or the error is what is sent.   *)
NotFound(i) ==
  Goto(i, IF sends[i].attempt < SESSION_READ_RETRIES THEN Asking(sends[i].attempt + 1)
          ELSE Got("error"))

ReadStateInNamespace(i) ==
  /\ sends[i].at = "asked"
  /\ \/ /\ Goto(i, IF home = stream.namespace THEN Got("state")
                   ELSE [sends[i] EXCEPT !.at = "listing"])
        /\ UNCHANGED streamFaults
     \/ CoralFails /\ Goto(i, Got("error"))    \* not an error to recover from
  /\ UNCHANGED <<home, sessionNamespaces, stream, shown, opened>>

(* A slip: the configured namespace is taken to have been asked.           *)
CandidatesMutant(namespace) == Namespaces \ {NS}

Candidates(namespace) == Namespaces \ {namespace}

ListNamespaces(i) ==
  /\ sends[i].at = "listing"
  /\ \/ /\ Goto(i, [sends[i] EXCEPT !.at = "scanning", !.left = Candidates(stream.namespace)])
        /\ UNCHANGED streamFaults
     \/ CoralFails /\ NotFound(i)              \* no namespaces
  /\ UNCHANGED <<home, sessionNamespaces, stream, shown, opened>>

Scan(i) ==
  /\ sends[i].at = "scanning"
  /\ IF sends[i].left = {} THEN NotFound(i) /\ UNCHANGED <<streamFaults, sessionNamespaces>>
     ELSE \E candidate \in sends[i].left :
            \/ /\ home = candidate
               /\ sessionNamespaces' = candidate
               /\ Goto(i, Got("state"))
               /\ UNCHANGED streamFaults
            \/ /\ IF home = candidate THEN CoralFails ELSE UNCHANGED streamFaults
               /\ Goto(i, [sends[i] EXCEPT !.left = @ \ {candidate}])
               /\ UNCHANGED sessionNamespaces
  /\ UNCHANGED <<home, stream, shown, opened>>
-----------------------------------------------------------------------------
(* marketStreamResponse.                                                   *)

(* namespace: of the query, or Nowhere.                                       *)
Requested(namespace) ==
  IF namespace # Nowhere THEN namespace
  ELSE IF sessionNamespaces # Nowhere THEN sessionNamespaces
  ELSE NS

Opens(new) ==
  /\ stream.at = "none" \/ stream.closed
  /\ \A i \in Sends : sends[i] = Idle
  /\ opened < MaxStreams
  /\ opened' = opened + 1
  /\ \E namespace \in Namespaces \cup {Nowhere} :
       stream' = [new EXCEPT !.namespace = Requested(namespace)]
  /\ Goto(1, Asking(1))
  /\ shown' = FALSE
  /\ UNCHANGED <<home, sessionNamespaces, streamFaults>>

OpenStream == Opens([NoStream EXCEPT !.at = "first"])

(* A session's feed, or the status of its market, is read once.            *)
AskOnce == Opens([NoStream EXCEPT !.at = "once", !.there = home # Nowhere])

(* The snapshot is written; after the first the timer is set.  Whoever     *)
(* left before that has left no handler that clears it.                    *)
WriteSnapshot(i) ==
  /\ sends[i].at \in {"state", "error"}
  /\ shown' = (shown \/ (sends[i].at = "state" /\ ~stream.closed))
  /\ Goto(i, Idle)
  /\ stream' = IF stream.at = "once" THEN NoStream ELSE [stream EXCEPT !.at = "timer"]
  /\ UNCHANGED <<home, sessionNamespaces, streamFaults, opened>>

CloseStream ==
  /\ stream.at \notin {"none", "once"} /\ ~stream.closed
  /\ stream' = [stream EXCEPT !.closed = TRUE, !.cleared = stream.at = "timer"]
  /\ UNCHANGED <<home, sessionNamespaces, sends, shown, streamFaults, opened>>

Fire(i) ==
  /\ stream.at = "timer" /\ ~stream.cleared
  /\ ~stream.closed
  /\ sends[i] = Idle
  /\ Goto(i, Asking(1))
  /\ UNCHANGED <<home, sessionNamespaces, stream, shown, streamFaults, opened>>
-----------------------------------------------------------------------------
(* A session is started by this server, which hears of it from the         *)
(* launcher, or else elsewhere, or after the launcher has timed out.       *)
StartSession ==
  /\ home = Nowhere
  /\ home' \in Namespaces
  /\ sessionNamespaces' \in {home', Nowhere}
  /\ UNCHANGED <<stream, sends, shown, streamFaults, opened>>

(* Its stream is gone with it.                                             *)
RestartServer ==
  /\ stream.at # "none" \/ sessionNamespaces # Nowhere
  /\ sessionNamespaces' = Nowhere
  /\ stream' = NoStream
  /\ sends' = [i \in Sends |-> Idle]
  /\ shown' = FALSE
  /\ UNCHANGED <<home, streamFaults, opened>>
-----------------------------------------------------------------------------
Read(i) == ReadStateInNamespace(i) \/ ListNamespaces(i) \/ Scan(i) \/ WriteSnapshot(i)

SendStep == \E i \in Sends : Read(i) \/ Fire(i)

SessionsNext == SendStep \/ OpenStream \/ AskOnce \/ CloseStream \/ StartSession \/ RestartServer

(* Coral answers or fails, and timers fire; nobody need open a stream,     *)
(* close it or start a session.                                            *)
SessionsFairness ==
  /\ \A i \in Sends : WF_sessionsVars(Read(i))
  /\ WF_sessionsVars(\E i \in Sends : Fire(i))

SessionsSpec == SessionsInit /\ [][SessionsNext]_sessionsVars /\ SessionsFairness
-----------------------------------------------------------------------------
(* A stream serves its client and no longer than that: while it stays open *)
(* the session is found, in whatever namespace it is, asked for or         *)
(* remembered; and once it is closed, also during its first snapshot, when *)
(* its timer is never cleared, no more snapshots are read for good unless  *)
(* it is opened again.  A single read of a session that is there finds it, *)
(* too, unless Coral fails (server.ts:91-127, 954-1035).                   *)
StreamServes ==
  /\ (stream.at # "none" /\ home # Nowhere) ~> (shown \/ stream.closed \/ stream.at = "none")
  /\ stream.closed ~> (~stream.closed \/ [](\A i \in Sends : sends[i] = Idle))
  /\ [](stream.at = "once" /\ stream.there /\ sends[1].at = "error" => streamFaults > 0)
=============================================================================
