------------------------------- MODULE SignIn --------------------------------
(***************************************************************************)
(* Signing in with a second factor: login (app/api/v1/auth.py) and the     *)
(* TOTP service it calls (app/services/mfa.py), for one account, with the  *)
(* pool of administrative connections both draw from (app/db/session.py).  *)
(*                                                                         *)
(* login keeps its session open while mfa.verificar opens one of its own,  *)
(* so a sign-in holds a connection and asks for a second.  verificar reads *)
(* the account, decides, and writes the columns that changed; nothing      *)
(* locks the row.  Accepting an invitation with an existing account goes   *)
(* the same way and is a login here.                                       *)
(*                                                                         *)
(* Time counts steps of thirty seconds.  A code is the step it belongs to, *)
(* a recovery code, or a wrong one: what is typed belongs to the secret in *)
(* force.                                                                  *)
(***************************************************************************)
EXTENDS Integers, FiniteSets

CONSTANTS
  Visitor,        \* requests that may be in flight
  PoolSizes,      \* the sizes of the pool, one for each instance
  Recovery,       \* the recovery codes handed out by a confirmation
  wrong, missing, \* a code that never holds, and no code at all
  TENTATIVAS,     \* wrong codes before the account rests
  MaxStep         \* bound on the steps of the clock

\* A code of the application is a number, and the others are not.
ASSUME SignInAssumption ==
  /\ \A c \in Recovery \cup {wrong, missing} : c \notin Int
  /\ wrong \notin Recovery /\ missing \notin Recovery
  /\ TENTATIVAS \in Nat \ {0} /\ MaxStep \in Nat

VARIABLES
  pool,       \* size of the pool
  step,       \* time
  account,    \* the columns mfa_* of the user
  visit,      \* what each request has in flight
  spent,      \* history: codes that have let someone in, as far as the row knows
  reused      \* history: one of them has let someone in again

signInVars == <<pool, step, account, visit, spent, reused>>

Code == 1 .. MaxStep \cup Recovery \cup {wrong, missing}

Account == [secret : BOOLEAN, enabled : BOOLEAN, last : 0 .. MaxStep,
            recovery : SUBSET Recovery, failed : 0 .. TENTATIVAS, resting : BOOLEAN]

NoFactor == [secret |-> FALSE, enabled |-> FALSE, last |-> 0,
             recovery |-> {}, failed |-> 0, resting |-> FALSE]

\* at: login has read the user; verify has read the account in a session of
\* its own; in has been let in; edit is a session of the settings.  worn: the
\* code was spent before the session that decides on it began (history).
Visit == [at : {"away", "login", "verify", "in", "edit"}, code : Code, saw : Account,
          worn : BOOLEAN]

Away == [at |-> "away", code |-> missing, saw |-> NoFactor, worn |-> FALSE]

Connections(v) == CASE visit[v].at = "away" -> 0
                    [] visit[v].at = "verify" -> 2
                    [] OTHER -> 1

InUse == LET size[n \in 0 .. 2] == n * Cardinality({v \in Visitor : Connections(v) = n})
         IN  size[1] + size[2]

Leave(v) == visit' = [visit EXCEPT ![v] = Away]

\* A session opens, and reads the account.
Opens(v, at, code) ==
  /\ InUse < pool
  /\ visit' = [visit EXCEPT ![v] = [at |-> at, code |-> code, saw |-> account,
                                     worn |-> code \in spent]]

-----------------------------------------------------------------------------
(***************************************************************************)
(* The service.                                                            *)
(***************************************************************************)

\* A code of the application holds one step around its own, and only if no
\* step as late has been accepted; a recovery code holds once (_aceita).
Holds(saw, code) ==
  /\ saw.secret
  /\ \/ code \in step - 1 .. step + 1 /\ saw.last < code
     \/ code \in saw.recovery

\* Mutant: the recovery code is taken off the list in place, which the ORM does
\* not see.
SpendInPlace(saw, code) ==
  IF code \in Recovery THEN saw ELSE [saw EXCEPT !.last = code]

Spend(saw, code) ==
  IF code \in Recovery THEN [saw EXCEPT !.recovery = @ \ {code}]
  ELSE [saw EXCEPT !.last = code]

\* The ORM writes the columns that differ from what was read.
Store(saw, new) ==
  account' = [f \in DOMAIN account |-> IF new[f] # saw[f] THEN new[f] ELSE account[f]]

\* history: what the row knows of the codes that have let someone in, after a
\* session that leaves codes to know; nothing, if the row had changed since the
\* session read it.
Fresh(saw) == \A f \in {"secret", "enabled", "last", "recovery"} : account[f] = saw[f]

Knows(v, codes) == spent' = IF Fresh(visit[v].saw) THEN codes ELSE {}

Record(v) ==
  /\ Knows(v, spent \cup {visit[v].code})
  /\ reused' = (reused \/ visit[v].worn)

Untouched == UNCHANGED <<account, spent, reused>>

-----------------------------------------------------------------------------
(***************************************************************************)
(* Signing in.                                                             *)
(***************************************************************************)

\* login finds the user, the password holds and there is a membership.
LoginReads(v) ==
  /\ visit[v].at = "away" /\ InUse < pool
  /\ visit' = [visit EXCEPT ![v] = [Away EXCEPT !.at = "login"]]
  /\ Untouched /\ UNCHANGED <<pool, step>>

\* mfa.verificar opens its own.  What is refused without a write, or has no
\* factor to check, ends with the reading.
VerifyReads(v, code) ==
  /\ visit[v].at = "login"
  /\ account.enabled /\ ~account.resting /\ code # missing
  /\ Opens(v, "verify", code)
  /\ Untouched /\ UNCHANGED <<pool, step>>

Enters(v) == visit' = [visit EXCEPT ![v] = [Away EXCEPT !.at = "in"]]

VerifySkips(v) ==
  /\ visit[v].at = "login" /\ InUse < pool
  /\ ~account.enabled
  /\ Enters(v)
  /\ Untouched /\ UNCHANGED <<pool, step>>

\* The account rests, or no code came: nothing is counted.
VerifyTurnsAway(v, code) ==
  /\ visit[v].at = "login" /\ InUse < pool
  /\ account.enabled
  /\ account.resting \/ code = missing
  /\ Leave(v)
  /\ Untouched /\ UNCHANGED <<pool, step>>

\* Mutant: whoever has a connection waits for the second as long as it takes.
PoolWaits(v) == FALSE /\ UNCHANGED signInVars

\* No connection in thirty seconds (the default of the pool): the sign-in
\* fails and gives back the one it holds.
PoolTimesOut(v) ==
  /\ visit[v].at = "login" /\ InUse >= pool
  /\ Leave(v)
  /\ Untouched /\ UNCHANGED <<pool, step>>

VerifyAccepts(v) ==
  LET saw == visit[v].saw
      code == visit[v].code
  IN  /\ visit[v].at = "verify"
      /\ Holds(saw, code)
      /\ Store(saw, [Spend(saw, code) EXCEPT !.failed = 0])
      /\ Record(v)
      /\ Enters(v)
      /\ UNCHANGED <<pool, step>>

VerifyRefuses(v) ==
  LET saw == visit[v].saw
      last == saw.failed + 1 >= TENTATIVAS
  IN  /\ visit[v].at = "verify"
      /\ ~Holds(saw, visit[v].code)
      /\ Store(saw, [saw EXCEPT !.failed = IF last THEN 0 ELSE @ + 1, !.resting = last])
      /\ Leave(v)
      /\ UNCHANGED <<pool, step, spent, reused>>

\* login writes last_login_at and answers with a token.
LoginEnds(v) ==
  /\ visit[v].at = "in"
  /\ Leave(v)
  /\ Untouched /\ UNCHANGED <<pool, step>>

-----------------------------------------------------------------------------
(***************************************************************************)
(* The settings of the account, and time.                                  *)
(***************************************************************************)

\* iniciar takes no code, confirmar one of the secret that waits for it,
\* desativar the password and a code.  A wrong code is refused, not counted.
EditReads(v, code) ==
  /\ visit[v].at = "away"
  /\ \/ code = missing /\ ~account.enabled
     \/ code \in step - 1 .. step + 1 /\ account.secret /\ ~account.enabled
     \/ account.enabled /\ Holds(account, code)
  /\ Opens(v, "edit", code)
  /\ Untouched /\ UNCHANGED <<pool, step>>

\* A new secret: codes of the one before mean nothing any more.
Iniciar(v) ==
  LET saw == visit[v].saw IN
  /\ visit[v].at = "edit" /\ visit[v].code = missing
  /\ Store(saw, [saw EXCEPT !.secret = TRUE, !.last = 0, !.failed = 0, !.resting = FALSE])
  /\ Knows(v, {})
  /\ Leave(v)
  /\ UNCHANGED <<pool, step, reused>>

Confirmar(v) ==
  LET saw == visit[v].saw IN
  /\ visit[v].at = "edit" /\ visit[v].code # missing /\ ~saw.enabled
  /\ Store(saw, [saw EXCEPT !.enabled = TRUE, !.last = visit[v].code, !.recovery = Recovery,
                            !.failed = 0, !.resting = FALSE])
  /\ Knows(v, {visit[v].code})
  /\ Leave(v)
  /\ UNCHANGED <<pool, step, reused>>

Desativar(v) ==
  /\ visit[v].at = "edit" /\ visit[v].saw.enabled
  /\ Store(visit[v].saw, NoFactor)
  /\ Record(v)
  /\ Leave(v)
  /\ UNCHANGED <<pool, step>>

Later ==
  /\ step < MaxStep /\ step' = step + 1
  /\ UNCHANGED <<pool, account, visit, spent, reused>>

\* CASTIGO has passed.
Rested ==
  /\ account.resting
  /\ account' = [account EXCEPT !.resting = FALSE]
  /\ UNCHANGED <<pool, step, visit, spent, reused>>

SignInInit ==
  /\ pool \in PoolSizes
  /\ step = 1
  /\ account = [NoFactor EXCEPT !.secret = TRUE, !.enabled = TRUE, !.recovery = Recovery]
  /\ visit = [v \in Visitor |-> Away]
  /\ spent = {} /\ reused = FALSE

SignInNext ==
  \/ \E v \in Visitor :
       \/ LoginReads(v)
       \/ \E code \in Code : \/ VerifyReads(v, code) \/ VerifyTurnsAway(v, code)
                             \/ EditReads(v, code)
       \/ PoolTimesOut(v)
       \/ VerifySkips(v) \/ VerifyAccepts(v) \/ VerifyRefuses(v) \/ LoginEnds(v)
       \/ Iniciar(v) \/ Confirmar(v) \/ Desativar(v)
  \/ Later \/ Rested

-----------------------------------------------------------------------------
\* A code that has let someone in is not accepted from a session that begins
\* afterwards, whatever was in flight, unless a session has meanwhile
\* written over a row that had changed since it read it: the last step and the
\* list of recovery codes are absolute values (mfa.py, _aceita).
SpentCodeStaysSpent == ~reused

\* Every request ends: sign-ins that hold all the connections and wait for one
\* another are let go by the timeout of the pool (session.py, admin_engine).
EverySignInEnds == \A v \in Visitor : (visit[v].at # "away") ~> (visit[v].at = "away")

SignInGoesOn(v) ==
  \/ \E code \in Code : VerifyReads(v, code) \/ VerifyTurnsAway(v, code)
  \/ PoolTimesOut(v) \/ VerifySkips(v) \/ VerifyAccepts(v) \/ VerifyRefuses(v)
  \/ LoginEnds(v) \/ Iniciar(v) \/ Confirmar(v) \/ Desativar(v)

SignInFairness == \A v \in Visitor : WF_signInVars(SignInGoesOn(v))

=============================================================================
