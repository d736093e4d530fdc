------------------------------ MODULE MCAgent ------------------------------
(***************************************************************************)
(* Two senders who have reached the question about their device.           *)
(***************************************************************************)
EXTENDS Agent

MCKnown == {[Fresh EXCEPT !.step = "platform"]}
MCSaid == {"desktop", "codes"}

\* How far a record is from the end of the tour.
Ahead == [welcome |-> 6, areas |-> 5, words |-> 4, platform |-> 3, mobile |-> 1, complete |-> 0]
Distance(rec) == Ahead[rec.step] - (IF rec.step = "platform" /\ rec.asked THEN 1 ELSE 0)

\* From every step but the last some word leads on, and no word leads back.
ASSUME TourLeadsToTheEnd ==
    \A rec \in Record({1}), w \in Words :
        /\ Distance(Turned(rec, w, {})) <= Distance(rec)
        /\ rec.step # "complete" => \E v \in Words : Distance(Turned(rec, v, {})) < Distance(rec)

=============================================================================
