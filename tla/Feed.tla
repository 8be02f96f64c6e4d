-------------------------------- MODULE Feed --------------------------------
(***************************************************************************)
(* The feed server's record of a session (marketplace/feed/src): each poll *)
(* reads the thread, folds it (module Transcript) and starts a pass of     *)
(* persistMarketplaceData that nobody waits for, so passes overlap.        *)
(*                                                                         *)
(* A pass is a list of writes, each "once" by a key kept in the process's  *)
(* memory.  A write is two steps, since it marks its key before the await  *)
(* of its append.  Of the files written, three stand for all: memos,       *)
(* settlements, whose key holds the status, and reputations, whose value   *)
(* changes as the round goes on and whose key does not.  The others        *)
(* (sessions, requests, bids, winners, events, decisions, profiles, the    *)
(* graph) are written in one of these ways.                                *)
(* Faults are appends that throw; a restart forgets the keys and the       *)
(* passes, and the files stay.                                             *)
(***************************************************************************)
EXTENDS Transcript, Sums

CONSTANTS
    Polls,          \* polls whose passes overlap
    MaxFaults,      \* bound: appends that throw
    MaxRestarts     \* bound: restarts of the server

VARIABLES
    seen,       \* keys written, or being written, since the server started
    todo,       \* todo[p]: the writes left in the pass of poll p
    writing,    \* writing[p]: its first write waits for its append
    files,      \* files[k]: the records appended under key k
    faults, restarts

feedVars == <<seen, todo, writing, files, faults, restarts>>
allVars == <<talkVars, feedVars>>

Entry(kind, n, of, value) == [key |-> <<kind, n, of>>, value |-> value]
NoValue == [wins |-> 0, jobs |-> 0]
Records(k) == IF k \in DOMAIN files THEN files[k] ELSE <<>>

FeedInit ==
    /\ TalkInit
    /\ seen = {}
    /\ todo = [p \in Polls |-> <<>>]
    /\ writing = [p \in Polls |-> FALSE]
    /\ files = <<>>
    /\ faults = 0
    /\ restarts = 0
-----------------------------------------------------------------------------
(* persistRound: what is to be written for round n, in order.              *)

SettlementKeyMutant(n, r) == Entry("settlement", n, "", NoValue)

SettlementEntry(n, r) == Entry("settlement", n, SettlementStatus(r), NoValue)

WonMutant(r, s) == TRUE

Won(r, s) == r.award = s

Reputation(r, s) ==
    [wins |-> IF Won(r, s) THEN 1 ELSE 0, jobs |-> IF r.release /\ Won(r, s) THEN 1 ELSE 0]

Standing(n, r) ==
    [i \in DOMAIN r.bids |-> Entry("reputation", n, r.bids[i], Reputation(r, r.bids[i]))]

If(cond, entry) == IF cond THEN <<entry>> ELSE <<>>

RoundEntries(n, r) ==
    If(r.delivered, Entry("memo", n, "", NoValue))
    \o If(SettlementStatus(r) # "none", SettlementEntry(n, r))
    \o Standing(n, r)

Pass ==
    FlattenSeq([n \in 1..MaxRounds |->
                  IF n \in DOMAIN rounds THEN RoundEntries(n, rounds[n]) ELSE <<>>])

(* A poll: the state is read, the pass starts, the answer does not wait.   *)
Poll(p) ==
    /\ todo[p] = <<>>
    /\ todo' = [todo EXCEPT ![p] = Pass]
    /\ UNCHANGED <<talkVars, seen, writing, files, faults, restarts>>

MarkMutant(key) == UNCHANGED seen

Mark(key) == seen' = seen \cup {key}

(* writeOnce: the keys that are in the set already pass without a wait; the*)
(* first that is not is marked in the same step, up to the await.          *)
WriteOnce(p) ==
    /\ todo[p] # <<>>
    /\ ~writing[p]
    /\ LET fresh == {i \in DOMAIN todo[p] : todo[p][i].key \notin seen}
           next == IF fresh = {} THEN Len(todo[p]) + 1 ELSE Min(fresh)
       IN /\ todo' = [todo EXCEPT ![p] = SubSeq(@, next, Len(@))]
          /\ IF fresh = {} THEN UNCHANGED <<seen, writing>>
             ELSE Mark(todo[p][next].key) /\ writing' = [writing EXCEPT ![p] = TRUE]
    /\ UNCHANGED <<talkVars, files, faults, restarts>>

Put(entry) == files' = With(files, entry.key, Append(Records(entry.key), entry.value))

(* The append lands and the pass goes on, or it throws, having landed or   *)
(* not, and the pass is over (so it is when the mirror throws).            *)
AppendFile(p) ==
    /\ writing[p]
    /\ writing' = [writing EXCEPT ![p] = FALSE]
    /\ LET entry == Head(todo[p])
       IN \/ /\ Put(entry)
             /\ todo' = [todo EXCEPT ![p] = Tail(@)]
             /\ UNCHANGED faults
          \/ /\ faults < MaxFaults
             /\ faults' = faults + 1
             /\ todo' = [todo EXCEPT ![p] = <<>>]
             /\ UNCHANGED files \/ Put(entry)
    /\ UNCHANGED <<talkVars, seen, restarts>>

Restart ==
    /\ restarts < MaxRestarts
    /\ restarts' = restarts + 1
    /\ seen' = {}
    /\ todo' = [p \in Polls |-> <<>>]
    /\ writing' = [p \in Polls |-> FALSE]
    /\ UNCHANGED <<talkVars, files, faults>>

PollStep(p) == Poll(p) \/ WriteOnce(p) \/ AppendFile(p)

FeedNext ==
    \/ Talk /\ UNCHANGED feedVars
    \/ \E p \in Polls : PollStep(p)
    \/ Restart

(* The dashboard polls once a second while it is open, and each pass goes  *)
(* on by itself; nothing is assumed of the agents.                         *)
FeedSpec == FeedInit /\ [][FeedNext]_allVars /\ \A p \in Polls : WF_allVars(PollStep(p))
-----------------------------------------------------------------------------
FeedTypeOK ==
    /\ \A m \in thread : m.verb \in Verbs /\ m.round \in 1..asked
    /\ asked \in 0..MaxRounds
    /\ stage \in {"idle", "bidding", "terms", "delivery", "releasing"}
    /\ \A p \in Polls : writing[p] => todo[p] # <<>> /\ Head(todo[p]).key \in seen
    /\ DOMAIN files \subseteq seen \/ restarts > 0
    /\ faults \in 0..MaxFaults /\ restarts \in 0..MaxRestarts

(* "Persistence is append-only and deduped per server process"             *)
(* (docs/data_architecture.md:175), however passes overlap.                *)
DedupedPerProcess == \A k \in DOMAIN files : Len(files[k]) <= restarts + 1

(* listAgents: an agent's records are added up (mergeProfile).             *)
Jobs(values) == [i \in DOMAIN values |-> values[i].jobs]

ListedJobs(s) == Total([n \in Rounds |-> Total(Jobs(Records(<<"reputation", n, s>>)))])

(* What is on record happened, although a pass may write what it read long *)
(* ago: a memo was delivered, a settlement got that far, a job counted as  *)
(* done was won and paid, and an agent is listed with no more jobs than    *)
(* that, but for restarts (persistence.ts:131-204, history.ts:58-66).      *)
RecordsHold ==
    /\ \A s \in Sellers :
          ListedJobs(s) <=
             (restarts + 1) * Cardinality({n \in Rounds : Said(Msg("AWARD", n, s))
                                                        /\ Said(Msg("RELEASED", n, NoSeller))})
    /\ \A k \in DOMAIN files :
          LET n == k[2]
              about == k[3]
          IN /\ k[1] = "memo" => \E s \in Sellers : Said(Msg("DELIVERED", n, s))
             /\ k[1] = "settlement" /\ about = "RELEASED" => Said(Msg("RELEASED", n, NoSeller))
             /\ k[1] = "settlement" /\ about = "VERIFIED" =>
                   \E v \in {"PASS", "FAIL"} : Said(Msg("VERIFIED", n, v))
             /\ k[1] \in {"reputation", "profile"} =>
                   \A i \in DOMAIN files[k] :
                      /\ files[k][i].wins = 1 => Said(Msg("AWARD", n, about))
                      /\ files[k][i].jobs = 1 =>
                            Said(Msg("AWARD", n, about)) /\ Said(Msg("RELEASED", n, NoSeller))

(* A release is put on record, through overlapping passes and restarts,    *)
(* unless an append throws (persistence.ts:196-200, 281-299).              *)
ReleaseRecorded ==
    \A n \in Rounds :
       Said(Msg("RELEASED", n, NoSeller))
          ~> (Records(<<"settlement", n, "RELEASED">>) # <<>> \/ faults > 0)

(* A seller that was paid has the job to its name: its reputation counts   *)
(* one job completed (marketLifecycle.smoke.test.ts:61-65).                *)
ReputationSettles ==
    \A n \in Rounds, s \in Sellers :
       Said(Msg("AWARD", n, s)) /\ Said(Msg("RELEASED", n, NoSeller))
          ~> (\E i \in DOMAIN Records(<<"reputation", n, s>>) :
                 Records(<<"reputation", n, s>>)[i].jobs = 1)
=============================================================================
