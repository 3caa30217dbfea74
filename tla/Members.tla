------------------------------- MODULE Members ------------------------------
(***************************************************************************)
(* Who belongs to a tenant: invitations (app/services/invitations.py), the *)
(* limit of the plan (app/services/limits.py) and the changes of members   *)
(* (app/api/v1/tenants.py).                                                *)
(*                                                                         *)
(* Each request counts or reads, and writes at the end of its transaction; *)
(* nothing is locked in between.  A row that is gone when it is to be      *)
(* updated undoes the request (StaleDataError); one that is to be deleted  *)
(* is only missed.                                                         *)
(*                                                                         *)
(***************************************************************************)
EXTENDS Integers, FiniteSets

CONSTANTS
  Person,
  Founder,      \* who registered the tenant
  Role,         \* "owner", and those of the others who may change members
  Desk,         \* requests in flight
  Seats,        \* limit of users of the plan
  MaxInvites,   \* bound on the invitations that are open at one time
  MaxExtra      \* bound on the seats taken unchecked

ASSUME MembersAssumption ==
  /\ Founder \in Person /\ "owner" \in Role
  /\ {MaxInvites, MaxExtra} \subseteq Nat /\ Seats \in Nat \ {0}
  /\ IsFiniteSet(Person) /\ IsFiniteSet(Desk) /\ Desk # {}

Invite == 1 .. MaxInvites

VARIABLES
  member,   \* memberships
  invite,   \* invitations
  desk,     \* what each request has in flight
  extra     \* history: seats taken by a way that does not count them

membersVars == <<member, invite, desk, extra>>

Membership == [role : Role \cup {"none"}, active : BOOLEAN]

Stranger == [role |-> "none", active |-> FALSE]

Invitation == [to : Person, role : Role,
               status : {"absent", "pending", "expired", "accepted"}]

NoInvite == [to |-> Founder, role |-> "owner", status |-> "absent"]

\* on: the person concerned.  saw, new: the membership read, and as it is to
\* be.  held: the invitations read.
Request == [op : {"none", "invite", "accept", "update", "remove"}, on : Person,
            saw : Membership, new : Membership, held : SUBSET Invite]

NoRequest == [op |-> "none", on |-> Founder, saw |-> Stranger, new |-> Stranger, held |-> {}]

Belongs(p) == member[p].role # "none"

ActiveMembers == {p \in Person : member[p].active}

Pending == {i \in Invite : invite[i].status = "pending"}

OwnersAtivos == {p \in ActiveMembers : member[p].role = "owner"}

Ask(d, r) == desk[d].op = "none" /\ desk' = [desk EXCEPT ![d] = r]

Answer(d) == desk' = [desk EXCEPT ![d] = NoRequest]

-----------------------------------------------------------------------------
(***************************************************************************)
(* Inviting.                                                               *)
(***************************************************************************)

\* Mutant: who has accepted is not counted any more.
SeatsOfInvites(p) == Cardinality({i \in Pending : invite[i].to # p})

\* Active members and pending invitations, but for the ones to be replaced.
SeatsTaken(p) ==
  Cardinality(ActiveMembers) + Cardinality({i \in Pending : invite[i].to # p})

\* check_can_add_user, and what criar finds to replace.
InviteCheck(d, p, role) ==
  /\ SeatsTaken(p) < Seats
  /\ ActiveMembers # {}
  /\ Ask(d, [NoRequest EXCEPT !.op = "invite", !.on = p,
               !.new = [role |-> role, active |-> TRUE],
               !.held = {i \in Invite : /\ invite[i].status \in {"pending", "expired"}
                                        /\ invite[i].to = p}])
  /\ UNCHANGED <<member, invite, extra>>

\* Held by another request than d.
Held(d, i) == \E e \in Desk \ {d} : i \in desk[e].held

\* A row that is closed and that no request holds is used for the next.
Unused(d) == {i \in Invite : /\ ~Held(d, i)
                             /\ \/ invite[i].status \in {"absent", "accepted"}
                                \/ i \in desk[d].held}

\* The invitation to be replaced has been accepted since it was found.
Overtaken(r) == \E i \in r.held : invite[i].status = "accepted"

InviteCommit(d) ==
  LET r == desk[d] IN
  /\ r.op = "invite"
  /\ Overtaken(r) => extra < MaxExtra
  /\ extra' = IF Overtaken(r) THEN extra + 1 ELSE extra
  /\ \E i \in Unused(d) :
       /\ \A j \in Unused(d) : i <= j
       /\ invite' = [j \in Invite |->
            IF j = i THEN [to |-> r.on, role |-> r.new.role, status |-> "pending"]
            ELSE IF j \in r.held THEN NoInvite ELSE invite[j]]
  /\ Answer(d)
  /\ UNCHANGED member

\* No room for another row in this instance.
InviteDropped(d) ==
  /\ desk[d].op = "invite" /\ Unused(d) = {}
  /\ Answer(d)
  /\ UNCHANGED <<member, invite, extra>>

Revogar(i) ==
  /\ invite[i].status \in {"pending", "expired"} /\ ActiveMembers # {}
  /\ invite' = [invite EXCEPT ![i] = NoInvite]
  /\ UNCHANGED <<member, desk, extra>>

\* VALIDADE has passed.
Expire(i) ==
  /\ invite[i].status = "pending"
  /\ invite' = [invite EXCEPT ![i].status = "expired"]
  /\ UNCHANGED <<member, desk, extra>>

-----------------------------------------------------------------------------
(***************************************************************************)
(* Accepting.                                                              *)
(***************************************************************************)

\* The token leads to the invitation: pending, not past its date.
AcceptRead(d, i) ==
  /\ invite[i].status = "pending"
  /\ LET p == invite[i].to IN
     Ask(d, [op |-> "accept", on |-> p, saw |-> member[p],
             new |-> [role |-> invite[i].role, active |-> TRUE], held |-> {i}])
  /\ UNCHANGED <<member, invite, extra>>

\* The columns of the membership that differ from what was read.
Changed(saw, new) == {f \in {"role", "active"} : new[f] # saw[f]}

Upsert(p, saw, new) ==
  member' = [member EXCEPT ![p] =
    [f \in {"role", "active"} |-> IF f \in Changed(saw, new) THEN new[f] ELSE @[f]]]

\* The invitation is there; so is the membership it found, or none is.
MayAccept(r) ==
  /\ \A i \in r.held : invite[i].status # "absent"
  /\ (r.saw.role = "none") = ~Belongs(r.on) \/ Changed(r.saw, r.new) = {}

\* A seat that was not counted: the invitation had gone out of date, or been
\* accepted by another request, since it was read.
Unchecked(r) == /\ \A i \in r.held : invite[i].status # "pending"
                /\ ~member[r.on].active

AcceptCommit(d) ==
  LET r == desk[d] IN
  /\ r.op = "accept" /\ MayAccept(r)
  /\ Unchecked(r) => extra < MaxExtra
  /\ Upsert(r.on, r.saw, r.new)
  /\ extra' = IF Unchecked(r) THEN extra + 1 ELSE extra
  /\ invite' = [i \in Invite |->
       IF i \notin r.held THEN invite[i]
       ELSE [NoInvite EXCEPT !.status = IF Held(d, i) THEN "accepted" ELSE "absent"]]
  /\ Answer(d)

AcceptFails(d) ==
  /\ desk[d].op = "accept" /\ ~MayAccept(desk[d])
  /\ Answer(d)
  /\ UNCHANGED <<member, invite, extra>>

-----------------------------------------------------------------------------
(***************************************************************************)
(* Changing a member, by another one who is active.                        *)
(***************************************************************************)

ByAnother(p) == Belongs(p) /\ ActiveMembers \ {p} # {}

\* The last active owner is neither demoted nor let go.
LastOwner(p) == member[p].role = "owner" /\ Cardinality(OwnersAtivos) <= 1

UpdateRead(d, p, new) ==
  /\ ByAnother(p)
  /\ new.role # member[p].role \/ new.active # member[p].active
  /\ new.role # "owner" \/ ~new.active => ~LastOwner(p)
  /\ Ask(d, [op |-> "update", on |-> p, saw |-> member[p], new |-> new, held |-> {}])
  /\ UNCHANGED <<member, invite, extra>>

\* An activation is not counted against the plan.
Activates(r) == r.new.active /\ ~r.saw.active /\ ~member[r.on].active

UpdateCommit(d) ==
  LET r == desk[d] IN
  /\ r.op = "update" /\ Belongs(r.on)
  /\ Activates(r) => extra < MaxExtra
  /\ Upsert(r.on, r.saw, r.new)
  /\ extra' = IF Activates(r) THEN extra + 1 ELSE extra
  /\ Answer(d)
  /\ UNCHANGED invite

UpdateFails(d) ==
  /\ desk[d].op = "update" /\ ~Belongs(desk[d].on)
  /\ Answer(d)
  /\ UNCHANGED <<member, invite, extra>>

RemoveRead(d, p) ==
  /\ ByAnother(p) /\ ~LastOwner(p)
  /\ Ask(d, [NoRequest EXCEPT !.op = "remove", !.on = p])
  /\ UNCHANGED <<member, invite, extra>>

RemoveCommit(d) ==
  /\ desk[d].op = "remove"
  /\ member' = [member EXCEPT ![desk[d].on] = Stranger]
  /\ Answer(d)
  /\ UNCHANGED <<invite, extra>>

MembersInit ==
  /\ member = [p \in Person |-> IF p = Founder THEN [role |-> "owner", active |-> TRUE]
                                ELSE Stranger]
  /\ invite = [i \in Invite |-> NoInvite]
  /\ desk = [d \in Desk |-> NoRequest]
  /\ extra = 0

MembersNext ==
  \/ \E d \in Desk :
       \/ \E p \in Person, role \in Role : InviteCheck(d, p, role)
       \/ \E i \in Invite : AcceptRead(d, i)
       \/ \E p \in Person :
            \/ \E new \in Membership : new.role # "none" /\ UpdateRead(d, p, new)
            \/ RemoveRead(d, p)
       \/ InviteCommit(d) \/ InviteDropped(d) \/ AcceptCommit(d) \/ AcceptFails(d)
       \/ UpdateCommit(d) \/ UpdateFails(d) \/ RemoveCommit(d)
  \/ \E i \in Invite : Revogar(i) \/ Expire(i)

-----------------------------------------------------------------------------
\* The plan is exceeded by no more than the requests that count side by side,
\* and by the seats taken in ways that do not count: a member activated again,
\* an invitation accepted late, twice or while it is replaced (limits.py, check_can_add_user).
SeatsOvershootIsBounded ==
  Cardinality(ActiveMembers) + Cardinality(Pending) <= Seats + (Cardinality(Desk) - 1) + extra

\* "o último owner ativo não sai nem é rebaixado" (tenants.py, update_member): a
\* tenant is never left without an active owner.
TenantKeepsAnOwner == OwnersAtivos # {}

=============================================================================
