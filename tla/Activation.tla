----------------------------- MODULE Activation -----------------------------
(***************************************************************************)
(* The handlers of research activation: the dashboard reports what its     *)
(* user does as events, and feedback on a session, which is recorded and   *)
(* then reported as an event too.  Neither log is mirrored, and anybody    *)
(* may post to either.                                                     *)
(***************************************************************************)
EXTENDS Stores

CONSTANTS EventTypes,  \* of the types the store knows, and one it does not
          Ratings,     \* of the ratings that are sent, NotANumber possibly
          Subjects,    \* the sessions they are about, Nothing possibly
          NotANumber

activationEventTypes ==
  {"workspace_selected", "workspace_created", "research_started", "memo_saved",
   "feedback_submitted"}

\* An id is a randomUUID: one to a request.
Event(q, type, subject, t) ==
  [id |-> q, at |-> t, type |-> type, about |-> subject]

\* recordActivationEvent: a type it does not know is refused with 400.
ActivationRequest(q) ==
  \E type \in EventTypes, s \in Subjects :
    Arrive(q, Fresh("activation", Nothing, s, type, "event"))

\* createResearchFeedback
FeedbackRequest(q) ==
  \E rating \in Ratings, s \in Subjects :
    Arrive(q, Fresh("feedback", Nothing, s, rating, "feedback"))

\* A session, and a rating from 1 to 5 before it is rounded.
Acceptable(r) == r.target # Nothing /\ r.ask # NotANumber /\ r.ask \in 1..5

\* A slip: feedback is not reported as an event.
AfterFeedbackMutant(r) == "answered"

AfterFeedback(r) == "event"

Appended(r, c, record, then) ==
  [r EXCEPT !.pc = "append", !.coll = c, !.id = record.id, !.next = record, !.then = then]

RecordFeedback(q) ==
  /\ req[q].pc = "feedback"
  /\ \E t \in Now :
       /\ clock' = t
       /\ Go(q, IF Acceptable(req[q])
                THEN Appended(req[q], "feedback",
                       [id |-> q, at |-> t, about |-> req[q].target, rating |-> req[q].ask],
                       AfterFeedback(req[q]))
                ELSE To(req[q], "refused"))
  /\ UNCHANGED faults

EventType(r) == IF r.op = "feedback" THEN "feedback_submitted" ELSE r.ask

RecordEvent(q) ==
  /\ req[q].pc = "event"
  /\ \E t \in Now :
       /\ clock' = t
       /\ Go(q, IF EventType(req[q]) \in activationEventTypes
                THEN Appended(req[q], "events",
                       Event(q, EventType(req[q]), req[q].target, t), "answered")
                ELSE To(req[q], "refused"))
  /\ UNCHANGED faults

ActivationNext(q) ==
  ActivationRequest(q) \/ FeedbackRequest(q) \/ RecordFeedback(q) \/ RecordEvent(q)

=============================================================================
