---------------------------- MODULE DeviceScope ----------------------------
(***************************************************************************)
(* Device scopes (delulu-broker/src/device_scope.rs): what a holder may    *)
(* command a machine to do, how often, and for how long without a sign of  *)
(* life.  The dimensions are a whitelist: naming one more is wider.        *)
(*                                                                         *)
(* Bounds are whole numbers here and finite doubles in the code, which     *)
(* refuses the rest when it parses them; nothing but their order is used.  *)
(***************************************************************************)
EXTENDS Integers

NoRate == -1                \* no bound on the rate

MicrosPerSecond == 1000000

FailStates == {"hold", "coast", "safe-park"}

Ranges == {r \in Int \X Int : r[1] <= r[2]}

IsMap(f) == f = [x \in DOMAIN f |-> f[x]]

\* An envelope `parse` accepts, but for its refusal of one that bounds nothing,
\* which a meet may be: ranges by dimension, and the terms every device has.
IsEnvelope(e) ==
  /\ e = [dims |-> e.dims, rate |-> e.rate, heartbeat |-> e.heartbeat,
           ttl |-> e.ttl, fail |-> e.fail]
  /\ IsMap(e.dims)
  /\ \A d \in DOMAIN e.dims : e.dims[d] \in Ranges
  /\ e.rate \in Nat \cup {NoRate}
  /\ e.heartbeat \in Nat \ {0}
  /\ e.ttl \in Nat
  /\ e.heartbeat <= e.ttl
  /\ e.fail \in FailStates

\* One envelope for each device named.
AreDevices(D) == IsMap(D) /\ \A d \in DOMAIN D : IsEnvelope(D[d])

-----------------------------------------------------------------------------
(* What the runtime makes of an envelope.                                  *)

\* `envelope_check`: a field, a dimension and its setpoint, that the envelope
\* does not name is refused.
InEnvelope(e, fields) ==
  \A f \in fields :
    f[1] \in DOMAIN e.dims /\ e.dims[f[1]][1] <= f[2] /\ f[2] <= e.dims[f[1]][2]

\* A command that comes sooner than a period after the last is refused: sooner
\* than MicrosPerSecond \div rate, a rate of zero being no bound at all.
InRate(e, gap) ==
  e.rate \notin {NoRate, 0} => (gap + 1) * e.rate > MicrosPerSecond

\* `due`, in milliseconds: a lease is lost past its heartbeat or its end.
Holds(e, silent, held) == silent <= e.heartbeat /\ held <= e.ttl

-----------------------------------------------------------------------------
(* The order.                                                              *)

\* (mutant) dimensions read as constraints: the child may add some, not drop any.
DimsWithinConstraints(child, parent) ==
  \A d \in DOMAIN parent : d \in DOMAIN child /\ parent[d][1] <= child[d][1]
                                              /\ child[d][2] <= parent[d][2]

DimsWithin(child, parent) ==
  \A d \in DOMAIN child : d \in DOMAIN parent /\ parent[d][1] <= child[d][1]
                                              /\ child[d][2] <= parent[d][2]

RateWithin(child, parent) == parent # NoRate => child # NoRate /\ child <= parent

EnvelopeWithin(child, parent) ==
  /\ child.fail = parent.fail
  /\ DimsWithin(child.dims, parent.dims)
  /\ RateWithin(child.rate, parent.rate)
  /\ child.heartbeat <= parent.heartbeat
  /\ child.ttl <= parent.ttl

DevicesWithin(child, parent) ==
  \A d \in DOMAIN child : d \in DOMAIN parent /\ EnvelopeWithin(child[d], parent[d])

-----------------------------------------------------------------------------
(* The meet.                                                               *)

Lesser(a, b) == IF a <= b THEN a ELSE b
Greater(a, b) == IF a <= b THEN b ELSE a

Overlap(a, b) == <<Greater(a[1], b[1]), Lesser(a[2], b[2])>>

\* The dimensions both name, where their ranges overlap.
DimsMeet(a, b) ==
  [d \in {d \in DOMAIN a \cap DOMAIN b : Overlap(a[d], b[d])[1] <= Overlap(a[d], b[d])[2]}
     |-> Overlap(a[d], b[d])]

RateMeet(a, b) == IF a = NoRate THEN b ELSE IF b = NoRate THEN a ELSE Lesser(a, b)

EnvelopeMeet(a, b) ==
  [dims      |-> DimsMeet(a.dims, b.dims),
   rate      |-> RateMeet(a.rate, b.rate),
   heartbeat |-> Lesser(a.heartbeat, b.heartbeat),
   ttl       |-> Lesser(a.ttl, b.ttl),
   fail      |-> a.fail]

\* Fail-states have no order: two devices that fail differently do not meet.
DevicesMeet(A, B) ==
  [d \in {d \in DOMAIN A \cap DOMAIN B : A[d].fail = B[d].fail}
     |-> EnvelopeMeet(A[d], B[d])]
=============================================================================
