------------------------------- MODULE Limiter ------------------------------
(***************************************************************************)
(* The brake on requests, for one client: app/core/limitador.py behind the *)
(* middleware of app/api/middleware.py.                                    *)
(*                                                                         *)
(* The replicas share a bucket in Redis.  When it does not answer, a       *)
(* replica turns to a bucket of its own in memory, and back.  A bucket     *)
(* holds what it let through in the window; clocks of replicas agree.      *)
(***************************************************************************)
EXTENDS Integers, FiniteSets

CONSTANTS
  Replica,
  Teto,         \* rate_limit_requests
  Janela,       \* rate_limit_window_seconds, in ticks
  MaxRestarts   \* bound on the restarts within one window

ASSUME LimiterAssumption ==
  /\ IsFiniteSet(Replica) /\ {Teto, MaxRestarts} \subseteq Nat /\ Janela \in Nat \ {0}

VARIABLES
  up,         \* Redis answers
  shared,     \* the bucket in Redis
  reserva,    \* the bucket in the memory of each replica
  passed,     \* history: requests let through in the window
  restarts    \* history: buckets lost in the window

limiterVars == <<up, shared, reserva, passed, restarts>>

\* A bucket is a set of requests: how old each is, and an id, which tells apart
\* those of one age.  Redis forgets a request as old as the window, the memory of
\* a replica only one that is older.
Newest(bucket) == {s \in bucket : s[1] = 0}

Add(bucket) == bucket \cup {<<0, Cardinality(Newest(bucket))>>}

Older(bucket, last) == {<<s[1] + 1, s[2]>> : s \in {s \in bucket : s[1] < last}}

Room(bucket) == Cardinality(bucket) < Teto

\* The script, in one step: counts, and adds if there is room.
Consumed(bucket) == IF Room(bucket) THEN Add(bucket) ELSE bucket

\* Mutant: the reserve is made anew for each outage.
ReserveAnew(r) == [reserva EXCEPT ![r] = {}]

AfterAnswer(r) == reserva

\* consumir, when Redis answers.
ConsumirRedis(r) ==
  /\ up /\ Room(shared)
  /\ shared' = Consumed(shared)
  /\ reserva' = AfterAnswer(r)
  /\ passed' = Add(passed)
  /\ UNCHANGED <<up, restarts>>

\* It does not, or not within 250 ms: the script may have run all the same.
NoAnswer == \/ UNCHANGED shared
            \/ up /\ shared' = Consumed(shared)

ConsumirReserva(r) ==
  /\ NoAnswer
  /\ Room(reserva[r])
  /\ reserva' = [reserva EXCEPT ![r] = Add(@)]
  /\ passed' = Add(passed)
  /\ UNCHANGED <<up, restarts>>

\* No room in the bucket that is asked: 429.
Recusar(r) ==
  /\ \/ up /\ ~Room(shared) /\ UNCHANGED shared
     \/ ~Room(reserva[r]) /\ NoAnswer
  /\ UNCHANGED <<up, reserva, passed, restarts>>

RedisFails == up /\ up' = FALSE /\ UNCHANGED <<shared, reserva, passed, restarts>>

RedisReturns == ~up /\ up' = TRUE /\ UNCHANGED <<shared, reserva, passed, restarts>>

Lost == Cardinality(restarts) < MaxRestarts /\ restarts' = Add(restarts)

\* Redis comes back with nothing: its bucket is not kept on disk.
RedisRestarts ==
  /\ Lost
  /\ shared' = {}
  /\ UNCHANGED <<up, reserva, passed>>

ReplicaRestarts(r) ==
  /\ Lost
  /\ reserva' = [reserva EXCEPT ![r] = {}]
  /\ UNCHANGED <<up, shared, passed>>

Tick ==
  /\ shared' = Older(shared, Janela - 1)
  /\ reserva' = [r \in Replica |-> Older(reserva[r], Janela)]
  /\ passed' = Older(passed, Janela - 1)
  /\ restarts' = Older(restarts, Janela - 1)
  /\ UNCHANGED up

LimiterInit ==
  /\ up \in BOOLEAN
  /\ shared = {} /\ passed = {} /\ restarts = {}
  /\ reserva = [r \in Replica |-> {}]

LimiterNext ==
  \/ \E r \in Replica : ConsumirRedis(r) \/ ConsumirReserva(r) \/ Recusar(r) \/ ReplicaRestarts(r)
  \/ RedisFails \/ RedisReturns \/ RedisRestarts
  \/ Tick

-----------------------------------------------------------------------------
\* In any window a client gets through at most the limit for each bucket there
\* is, the shared one and one in each replica, and once more for each bucket
\* lost in that window: an outage, or many, opens no other door (limitador.py,
\* LimitadorRedis; its log counts one bucket less).
WindowIsBounded ==
  Cardinality(passed) <= Teto * (1 + Cardinality(Replica) + Cardinality(restarts))

=============================================================================
