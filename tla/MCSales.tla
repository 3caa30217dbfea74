------------------------------- MODULE MCSales ------------------------------
(***************************************************************************)
(* Instances of Sales for TLC.  Each scenario is one instance: a worker,   *)
(* two requests at the desk, what each may do and on which prospects.      *)
(***************************************************************************)
EXTENDS Sales, TLC

CONSTANTS ana, bruno, p1, p2, p3, w, d1, d2

\* ana is a prospect of two campaigns.
TwoPeople == {ana, bruno}
Leads == {p1, p2, p3}
OwnedBy == p1 :> ana @@ p2 :> bruno @@ p3 :> ana
Actors == {w, d1, d2}

Acts(x, y, z) == w :> x @@ d1 :> y @@ d2 :> z

\* A worker runs the cadence while people stop, edit, pause, tick and enrol.
Follow == [may |-> Acts({"tick", "outreach"},
                        {"tick", "stop", "edit", "pause", "enroll"},
                        {"enroll", "inbound", "outreach"}),
           on |-> {p1}, requests |-> 3]

\* Two lists enrol the same prospects, and the sequence is deleted.
Race == [may |-> Acts({"tick"}, {"enroll", "delete"}, {"enroll"}),
         on |-> {p1, p2}, requests |-> 3]

\* The worker and a person read the mailbox; the agent answers.
Mailbox == [may |-> Acts({"fetch", "converse"}, {"fetch"}, {}), on |-> {p1}, requests |-> 1]

\* The status of one prospect, written from every side.
Crossing == [may |-> Acts({"send", "converse"},
                          {"review", "unsubscribe", "inbound", "converse", "qualify"},
                          {"outreach", "optout", "score", "meeting", "ask", "reply"}),
             on |-> {p1}, requests |-> 5]

\* An approach crosses a reply, leaves after it, and comes back.
Bounce == [may |-> Acts({"fetch", "converse", "send"}, {"outreach"}, {"review"}),
           on |-> {p1}, requests |-> 2]

Scenarios == {Follow, Race, Mailbox, Crossing, Bounce}

MailFrom == <<p1, p2, p1, p1>>
MailKind == <<"reply", "reply", "soft", "hard">>

=============================================================================
