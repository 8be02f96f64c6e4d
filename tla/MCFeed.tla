------------------------------- MODULE MCFeed -------------------------------
(* Small instances of Feed: sessions of two sellers, one of them late, and *)
(* two rounds, so that messages of the first arrive during the second;     *)
(* those that are polled have one seller, one round and one fault.         *)
EXTENDS Feed

CONSTANTS macro, news

MCSellers == {macro, news}
OneSeller == {macro}

Unpolled == seen = {} /\ files = <<>> /\ restarts = 0 /\ \A p \in Polls : todo[p] = <<>>
Simple == faults + restarts <= 1 /\ \A m \in thread : m.round = 1 /\ m.about # news

PolledAreSimple == Unpolled \/ Simple
=============================================================================
