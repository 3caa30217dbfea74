------------------------------ MODULE Contacts ------------------------------
(***************************************************************************)
(* The people a tenant may write to: import (app/api/v1/prospects.py), the *)
(* contacts kept by hand (api/v1/contacts.py), the descadastro, and the    *)
(* retention that lets cold leads go (app/services/retencao.py).           *)
(*                                                                         *)
(* No index makes an address unique: import and create look first and      *)
(* insert later.  A contact is in one campaign at most, and has an         *)
(* address.  How old rows are is left out: retention takes any of those    *)
(* its other rules let it take.                                            *)
(***************************************************************************)
EXTENDS Integers, FiniteSets

CONSTANTS
  Address,      \* addresses, as they are spelled
  Lower,        \* the spelling in lower case
  Hand,         \* requests in flight
  MaxContacts   \* bound on the rows of contacts

ASSUME ContactsAssumption ==
  /\ Address # {}
  /\ Lower \in [Address -> Address] /\ \A e \in Address : Lower[Lower[e]] = Lower[e]
  /\ MaxContacts \in Nat /\ IsFiniteSet(Hand)

VARIABLES
  contact,   \* rows of contacts
  lead,      \* the prospect of each contact
  hand,      \* what each request has in flight
  round,     \* the cold leads that retention has listed
  asked      \* history: addresses that have asked out

contactVars == <<contact, lead, hand, round, asked>>

Row == 1 .. MaxContacts

\* there: the row exists.  out: opted_out.
ContactRec == [there : BOOLEAN, email : Address, out : BOOLEAN]

Gone(c) == ~contact[c].there

Named(e) == {c \in Row : contact[c].there /\ contact[c].email = e}

\* cold: in a state without history, no meeting, no verdict and no reply.
Lead == {"none", "cold", "warm"}

\* row: the contact found (0: none).  had: whether it had a prospect.
Task == [op : {"none", "import", "create", "delete"}, email : Address,
         row : 0 .. MaxContacts, had : BOOLEAN]

\* The columns of a row that is not there, and a request that does nothing.
NoContact == [there |-> FALSE, email |-> CHOOSE e \in Address : TRUE, out |-> FALSE]

NoTask == [op |-> "none", email |-> NoContact.email, row |-> 0, had |-> FALSE]

NoRound == [runs |-> FALSE, cold |-> {}]

Starts(h, t) == hand[h].op = "none" /\ hand' = [hand EXCEPT ![h] = t]

Ends(h) == hand' = [hand EXCEPT ![h] = NoTask]

Adds(c, e, l) ==
  /\ contact' = [contact EXCEPT ![c] = [there |-> TRUE, email |-> e, out |-> FALSE]]
  /\ lead' = [lead EXCEPT ![c] = l]

\* The first row that is free.  A number is not used again while a request
\* holds it.
FreeRows == {c \in Row : Gone(c) /\ (\A h \in Hand : hand[h].row # c) /\ c \notin round.cold}

NextRow(c) == c \in FreeRows /\ \A d \in FreeRows : c <= d

-----------------------------------------------------------------------------
(***************************************************************************)
(* Coming in.                                                              *)
(***************************************************************************)

\* The address is compared as it is spelled.  Two rows that bear it make the
\* import of anyone who bears it fail (MultipleResultsFound).
ImportRead(h, e) ==
  /\ Cardinality(Named(e)) <= 1
  /\ \E c \in IF Named(e) = {} THEN {0} ELSE Named(e) :
       Starts(h, [op |-> "import", email |-> e, row |-> c, had |-> c # 0 /\ lead[c] # "none"])
  /\ UNCHANGED <<contact, lead, round, asked>>

ImportNew(h) ==
  /\ hand[h].op = "import" /\ hand[h].row = 0
  /\ \E c \in Row : NextRow(c) /\ Adds(c, hand[h].email, "cold")
  /\ Ends(h)
  /\ UNCHANGED <<round, asked>>

ImportKnown(h) ==
  LET c == hand[h].row IN
  /\ hand[h].op = "import" /\ c # 0
  /\ hand[h].had \/ (~Gone(c) /\ lead[c] = "none")
  /\ lead' = IF hand[h].had THEN lead ELSE [lead EXCEPT ![c] = "cold"]
  /\ Ends(h)
  /\ UNCHANGED <<contact, round, asked>>

\* The contact has gone, or has got a prospect, since it was found: the whole
\* import is rolled back.  Or there is no room in this instance.
RequestFails(h) ==
  LET c == hand[h].row IN
  /\ \/ hand[h].op = "import" /\ c # 0 /\ ~hand[h].had /\ (Gone(c) \/ lead[c] # "none")
     \/ hand[h].op \in {"import", "create"} /\ c = 0 /\ FreeRows = {}
  /\ Ends(h)
  /\ UNCHANGED <<contact, lead, round, asked>>

\* By hand the address is put in lower case, and compared so.
CreateRead(h, e) ==
  /\ \A c \in Row : contact[c].there => Lower[contact[c].email] # e
  /\ e = Lower[e]
  /\ Starts(h, [op |-> "create", email |-> e, row |-> 0, had |-> FALSE])
  /\ UNCHANGED <<contact, lead, round, asked>>

CreateCommit(h) ==
  /\ hand[h].op = "create"
  /\ \E c \in Row : NextRow(c) /\ Adds(c, hand[h].email, "none")
  /\ Ends(h)
  /\ UNCHANGED <<round, asked>>

-----------------------------------------------------------------------------
(***************************************************************************)
(* Going out.                                                              *)
(***************************************************************************)

\* The link of an email, or an agent that reads the request in a reply.
OptOut(c) ==
  /\ ~Gone(c) /\ lead[c] # "none"
  /\ contact' = [contact EXCEPT ![c].out = TRUE]
  /\ lead' = [lead EXCEPT ![c] = "warm"]
  /\ asked' = asked \cup {contact[c].email}
  /\ UNCHANGED <<hand, round>>

Reply(c) ==
  /\ ~Gone(c) /\ lead[c] = "cold"
  /\ lead' = [lead EXCEPT ![c] = "warm"]
  /\ UNCHANGED <<contact, hand, round, asked>>

\* history: a person takes back what the row c says.
TakenBack(c) == IF contact[c].out THEN asked \ {contact[c].email} ELSE asked

\* update_contact writes what it is given: nothing checks the address.
UpdateContact(c, e, out) ==
  /\ ~Gone(c)
  /\ contact' = [contact EXCEPT ![c].email = e, ![c].out = out]
  /\ contact' # contact
  /\ asked' = TakenBack(c) \cup (IF out THEN {e} ELSE {})
  /\ UNCHANGED <<lead, hand, round>>

\* Only while it is in no campaign.
DeleteRead(h, c) ==
  /\ ~Gone(c) /\ lead[c] = "none"
  /\ Starts(h, [op |-> "delete", email |-> contact[c].email, row |-> c, had |-> FALSE])
  /\ UNCHANGED <<contact, lead, round, asked>>

\* What has come to hang on the row goes with it.
DeleteCommit(h) ==
  LET c == hand[h].row IN
  /\ hand[h].op = "delete"
  /\ contact' = [contact EXCEPT ![c] = NoContact]
  /\ lead' = [lead EXCEPT ![c] = "none"]
  /\ asked' = TakenBack(c)
  /\ Ends(h)
  /\ UNCHANGED round

-----------------------------------------------------------------------------
(***************************************************************************)
(* Retention.                                                              *)
(***************************************************************************)

\* Who is cold is settled before anything is deleted.
RetentionRead(cold) ==
  /\ ~round.runs
  /\ cold \subseteq {c \in Row : lead[c] = "cold"}
  /\ round' = [runs |-> TRUE, cold |-> cold]
  /\ UNCHANGED <<contact, lead, hand, asked>>

\* Mutant: whoever is in no campaign any more.
AnyOrphan(c) == contact[c].there /\ (lead[c] = "none" \/ c \in round.cold)

\* In no campaign once the cold leads have gone, and has not asked out.
Orphan(c) == /\ contact[c].there /\ ~contact[c].out
             /\ lead[c] = "none" \/ c \in round.cold

RetentionCommit(old) ==
  /\ round.runs
  /\ old \subseteq {c \in Row : Orphan(c)}
  /\ contact' = [c \in Row |-> IF c \in old THEN NoContact ELSE contact[c]]
  /\ lead' = [c \in Row |-> IF c \in round.cold THEN "none" ELSE lead[c]]
  /\ round' = NoRound
  /\ UNCHANGED <<hand, asked>>

ContactsInit ==
  /\ contact = [c \in Row |-> NoContact]
  /\ lead = [c \in Row |-> "none"]
  /\ hand = [h \in Hand |-> NoTask]
  /\ round = NoRound
  /\ asked = {}

ContactsNext ==
  \/ \E h \in Hand :
       \/ \E e \in Address : ImportRead(h, e) \/ CreateRead(h, e)
       \/ \E c \in Row : DeleteRead(h, c)
       \/ ImportNew(h) \/ ImportKnown(h) \/ RequestFails(h) \/ CreateCommit(h) \/ DeleteCommit(h)
  \/ \E c \in Row :
       \/ OptOut(c) \/ Reply(c)
       \/ \E e \in {contact[c].email} \cup {Lower[x] : x \in Address}, out \in BOOLEAN :
            UpdateContact(c, e, out)
  \/ \E s \in SUBSET Row : RetentionRead(s) \/ RetentionCommit(s)

-----------------------------------------------------------------------------
\* Who has asked out stays out: the address keeps a row with opted_out, which
\* the next import of the same list finds, until a person takes it back on the
\* row or deletes it.  No round of retention removes it, whatever it had listed
\* before the request came (retencao.py, _rodar; contacts.py, delete_contact).
OptOutSurvives == \A e \in asked : \E c \in Named(e) : contact[c].out

=============================================================================
