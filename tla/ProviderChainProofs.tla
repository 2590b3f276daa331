------------------------- MODULE ProviderChainProofs ------------------------
(***************************************************************************)
(* Theorems about ProviderChain for any number of providers, any finite    *)
(* set of concurrent requests and any threshold.                           *)
(***************************************************************************)
EXTENDS ProviderChain, FiniteSetTheorems, TLAPS

-----------------------------------------------------------------------------
(* The breaker *)

LEMMA BreakerTypes ==
    /\ Fresh \in Breakers
    /\ \A b \in Breakers : /\ RecordSuccess(b) \in Breakers
                           /\ RecordFailure(b) \in Breakers
                           /\ Elapse(b) \in Breakers
  BY ThresholdAssumption DEF Fresh, Breakers, RecordSuccess, RecordFailure, Elapse

\* Which requests a breaker admits, in terms of its fields.
LEMMA StateOf ==
  ASSUME NEW b \in Breakers
  PROVE  /\ State(b) = "open" <=> b.opened = "waiting"
         /\ AllowRequest(b) <=> b.opened # "waiting"
<1>1. b.opened \in {"no", "waiting", "elapsed"}
  BY DEF Breakers
<1>2. CASE b.opened = "no"
  <2>1. State(b) = "closed"
    BY <1>2 DEF State
  <2> QED
    BY <1>2, <2>1 DEF AllowRequest
<1>3. CASE b.opened = "waiting"
  <2>1. State(b) = "open"
    BY <1>3 DEF State
  <2> QED
    BY <1>3, <2>1 DEF AllowRequest
<1>4. CASE b.opened = "elapsed"
  <2>1. State(b) = "half_open"
    BY <1>4 DEF State
  <2> QED
    BY <1>4, <2>1 DEF AllowRequest
<1> QED
  BY <1>1, <1>2, <1>3, <1>4

-----------------------------------------------------------------------------
(* Looking for the next provider *)

\* Why the loop at x has come this far: every suitable provider it has left
\* behind failed this request or had its circuit open.
Spent(x) == x.tried \union x.barred
Accounted(x) ==
    /\ x.pc = "failed" => \A p \in Providers : Suits(x.kind, p) => p \in Spent(x)
    /\ x.pc \in {"call", "record", "answered"} =>
          /\ x.at \in Providers
          /\ \A p \in Providers : p < x.at /\ Suits(x.kind, p) => p \in Spent(x)
    /\ x.pc \in {"call", "answered"} => Suits(x.kind, x.at)
    /\ x.pc = "record" => x.at \in x.tried

\* What a search that starts at q may come to.
Onward(x, q, brk) ==
    /\ x \in Loops
    /\ Accounted(x)
    /\ x.pc \in {"call", "failed"}
    /\ x.pc = "call" => x.at > q.at /\ brk[x.at].opened # "waiting"

LEMMA SeekGoesOnward ==
  ASSUME NEW r \in Requests, NEW q \in Loops, NEW brk \in [Providers -> Breakers],
         Seek(r, q, brk),
         \A p \in Providers : p <= q.at /\ Suits(q.kind, p) => p \in Spent(q)
  PROVE  \E x : Onward(x, q, brk) /\ req' = [req EXCEPT ![r] = x]
<1> DEFINE left == Candidates(q, brk)
           seen == [q EXCEPT !.barred = @ \union Barred(q, brk)]
<1>1. q.at \in 0 .. Last /\ Last \in Nat
  BY ChainAssumption DEF Loops
<1>2. /\ seen \in Loops /\ seen.kind = q.kind /\ seen.at = q.at
      /\ seen.tried = q.tried /\ seen.barred = q.barred \union Barred(q, brk)
  BY DEF Loops, Barred
<1>3. left \subseteq Providers /\ \A p \in left : p > q.at /\ AllowRequest(brk[p])
  BY DEF Candidates, Admits
<1>4. ASSUME NEW p \in Providers, Suits(q.kind, p), p \notin left
      PROVE  p \in Spent(seen)
  <2>1. CASE p <= q.at
    <3>1. p \in Spent(q)
      BY <1>4, <2>1
    <3> QED
      BY <1>2, <3>1 DEF Spent
  <2>2. CASE p > q.at
    <3>1. p \in Barred(q, brk)
      BY <1>4, <2>2 DEF Candidates, Barred
    <3> QED
      BY <1>2, <3>1 DEF Spent
  <2> QED
    BY <1>1, <2>1, <2>2 DEF Providers
<1> HIDE DEF seen
<1>5. CASE left = {} /\ req' = [req EXCEPT ![r] = [seen EXCEPT !.pc = "failed"]]
  <2> DEFINE x == [seen EXCEPT !.pc = "failed"]
  <2>1. /\ x \in Loops /\ x.pc = "failed" /\ x.kind = q.kind
        /\ Spent(x) = Spent(seen)
    BY <1>2 DEF Loops, Ended, Spent
  <2> HIDE DEF x
  <2>2. Accounted(x)
    BY <1>4, <1>5, <2>1 DEF Accounted
  <2>3. req' = [req EXCEPT ![r] = x]
    BY <1>5 DEF x
  <2>4. Onward(x, q, brk)
    BY <2>1, <2>2 DEF Onward
  <2> QED
    BY <2>3, <2>4
<1>6. ASSUME NEW p \in left, \A m \in left : p <= m,
             req' = [req EXCEPT ![r] = [seen EXCEPT !.pc = "call", !.at = p]]
      PROVE  \E x : Onward(x, q, brk) /\ req' = [req EXCEPT ![r] = x]
  <2>1. p \in Providers /\ p > q.at /\ brk[p].opened # "waiting" /\ Suits(q.kind, p)
    BY <1>3, StateOf DEF Candidates
  <2> DEFINE x == [seen EXCEPT !.pc = "call", !.at = p]
  <2>3. /\ x \in Loops /\ x.pc = "call" /\ x.at = p /\ x.kind = q.kind
        /\ Spent(x) = Spent(seen)
    <3>1. p \in 0 .. Last
      BY <2>1, <1>1 DEF Providers
    <3>2. x \in Loops
      BY <1>2, <3>1 DEF Loops, Busy
    <3>3. Spent(x) = Spent(seen)
      BY <1>2 DEF Loops, Spent
    <3> QED
      BY <1>2, <3>2, <3>3 DEF Loops
  <2> HIDE DEF x
  <2>4. ASSUME NEW m \in Providers, m < p, Suits(q.kind, m)  PROVE m \in Spent(x)
    <3>1. m \notin left
      BY <1>3, <1>6, <2>1, <2>4 DEF Providers
    <3> QED
      BY <1>4, <2>3, <2>4, <3>1
  <2>5. Accounted(x)
    BY <2>1, <2>3, <2>4 DEF Accounted
  <2>6. req' = [req EXCEPT ![r] = x]
    BY <1>6 DEF x
  <2>7. Onward(x, q, brk)
    BY <2>1, <2>3, <2>5 DEF Onward
  <2> QED
    BY <2>6, <2>7
<1> QED
  BY <1>5, <1>6 DEF Seek, seen

-----------------------------------------------------------------------------
(* The inductive invariant *)

\* What a provider has cost since it last answered or was last given a chance:
\* a closed circuit counts it exactly; behind an open one the calls that may
\* still fail are those in flight, and they only become fewer.
Counted(p) ==
    LET b == breaker[p] IN
    /\ b.opened = "no" => b.failures < Threshold /\ wasted[p] = b.failures
    /\ b.opened # "no" => b.failures = Threshold
    /\ b.opened = "elapsed" => wasted[p] = 0
    /\ b.opened = "waiting" =>
          wasted[p] + Cardinality(Calling(p)) <= Threshold - 1 + Cardinality(Requests)

IInv ==
    /\ TypeOK
    /\ \A p \in Providers : Counted(p)
    /\ \A r \in Requests : Accounted(req[r])

LEMMA BeginIsLoop ==
  ASSUME NEW k \in Kinds
  PROVE  Begin(k) \in Loops /\ Begin(k).at = 0 /\ Begin(k).pc = "idle" /\ Begin(k).kind = k
  BY ChainAssumption DEF Begin, Loops

LEMMA InvInit == Init => IInv
<1> SUFFICES ASSUME Init  PROVE IInv
  OBVIOUS
<1>1. TypeOK
  BY BreakerTypes, BeginIsLoop DEF Init, TypeOK
<1>2. ASSUME NEW p \in Providers  PROVE Counted(p)
  BY ThresholdAssumption DEF Init, Counted, Fresh
<1>3. ASSUME NEW r \in Requests  PROVE Accounted(req[r])
  BY BeginIsLoop DEF Init, Accounted
<1> QED
  BY <1>1, <1>2, <1>3 DEF IInv

-----------------------------------------------------------------------------
(* Counting calls in flight *)

LEMMA CallingIsFinite ==
  ASSUME NEW p \in Providers
  PROVE  /\ Calling(p) \subseteq Requests /\ IsFiniteSet(Calling(p))
         /\ Cardinality(Calling(p)) \in Nat /\ Cardinality(Requests) \in Nat
         /\ Cardinality(Calling(p)) <= Cardinality(Requests)
<1>1. Calling(p) \subseteq Requests
  BY DEF Calling
<1> QED
  BY <1>1, ChainAssumption, FS_Subset, FS_CardinalityType

\* The request whose call ends no longer counts.
LEMMA OneCallLess ==
  ASSUME NEW p \in Providers, NEW r \in Calling(p)
  PROVE  /\ Cardinality(Calling(p) \ {r}) = Cardinality(Calling(p)) - 1
         /\ Cardinality(Calling(p) \ {r}) \in Nat
<1>1. IsFiniteSet(Calling(p))
  BY CallingIsFinite
<1>2. /\ IsFiniteSet(Calling(p) \ {r})
      /\ Cardinality(Calling(p) \ {r}) = Cardinality(Calling(p)) - 1
  BY <1>1, FS_RemoveElement
<1> QED
  BY <1>2, FS_CardinalityType

\* A provider that a step does not record anything for stays accounted for.
LEMMA CountedWhenLeftAlone ==
  ASSUME NEW p \in Providers, TypeOK, Counted(p),
         breaker'[p] = breaker[p], wasted'[p] = wasted[p],
         breaker[p].opened = "waiting" => Calling(p)' \subseteq Calling(p)
  PROVE  Counted(p)'
<1>1. wasted[p] \in Nat
  BY DEF TypeOK
<1>2. CASE breaker[p].opened = "waiting"
  <2>1. IsFiniteSet(Calling(p)) /\ Cardinality(Calling(p)) \in Nat /\ Cardinality(Requests) \in Nat
    BY CallingIsFinite
  <2>2. Calling(p)' \in SUBSET Calling(p)
    BY <1>2
  <2>3. IsFiniteSet(Calling(p)') /\ Cardinality(Calling(p)') <= Cardinality(Calling(p))
    BY <2>1, <2>2, FS_Subset
  <2>4. Cardinality(Calling(p)') \in Nat
    BY <2>3, FS_CardinalityType
  <2>5. wasted[p] + Cardinality(Calling(p)) <= Threshold - 1 + Cardinality(Requests)
    BY <1>2 DEF Counted
  <2>6. wasted[p] + Cardinality(Calling(p)') <= Threshold - 1 + Cardinality(Requests)
    BY <1>1, <2>1, <2>3, <2>4, <2>5, ThresholdAssumption
  <2> QED
    BY <1>2, <2>6 DEF Counted
<1>3. CASE breaker[p].opened # "waiting"
  BY <1>3 DEF Counted
<1> QED
  BY <1>2, <1>3

\* A request's loop moves to x.
LEMMA LoopMoves ==
  ASSUME IInv, NEW r \in Requests, NEW x \in Loops, Accounted(x),
         req' = [req EXCEPT ![r] = x]
  PROVE  /\ req' \in [Requests -> Loops]
         /\ \A s \in Requests : Accounted(req[s])'
         /\ \A p \in Providers : ~(x.pc = "call" /\ x.at = p) => Calling(p)' = Calling(p) \ {r}
<1>1. req \in [Requests -> Loops] /\ \A s \in Requests : Accounted(req[s])
  BY DEF IInv, TypeOK
<1>2. req' \in [Requests -> Loops]
  BY <1>1
<1>3. ASSUME NEW s \in Requests  PROVE Accounted(req'[s])
  BY <1>1
<1>4. ASSUME NEW p \in Providers, ~(x.pc = "call" /\ x.at = p)
      PROVE  Calling(p)' = Calling(p) \ {r}
  BY <1>1, <1>4 DEF Calling
<1> QED
  BY <1>2, <1>3, <1>4

-----------------------------------------------------------------------------
(* Every step preserves the invariant *)

\* Steps that only move the loop of one request, to a provider that is not
\* open or to none.
LEMMA MoveKeepsInv ==
  ASSUME IInv, NEW r \in Requests, NEW x \in Loops, Accounted(x),
         req' = [req EXCEPT ![r] = x],
         x.pc = "call" => breaker[x.at].opened # "waiting",
         UNCHANGED <<breaker, wasted>>
  PROVE  IInv'
<1>1. TypeOK'
  BY LoopMoves DEF IInv, TypeOK
<1>2. ASSUME NEW p \in Providers  PROVE Counted(p)'
  <2>1. ASSUME breaker[p].opened = "waiting"  PROVE Calling(p)' \subseteq Calling(p)
    <3>1. ~(x.pc = "call" /\ x.at = p)
      BY <2>1
    <3>2. Calling(p)' = Calling(p) \ {r}
      BY <3>1, LoopMoves
    <3> QED
      BY <3>2
  <2> QED
    BY <2>1, CountedWhenLeftAlone DEF IInv
<1>3. \A s \in Requests : Accounted(req[s])'
  BY LoopMoves
<1> QED
  BY <1>1, <1>2, <1>3 DEF IInv

LEMMA ArriveKeepsInv ==
  ASSUME IInv, NEW r \in Requests, NEW k \in Kinds, Arrive(r, k)  PROVE IInv'
<1>1. Begin(k) \in Loops /\ \A p \in Providers : ~(p <= Begin(k).at)
  BY BeginIsLoop, ChainAssumption DEF Providers
<1>2. breaker \in [Providers -> Breakers]
  BY DEF IInv, TypeOK
<1>3. PICK x : Onward(x, Begin(k), breaker) /\ req' = [req EXCEPT ![r] = x]
  BY <1>1, <1>2, SeekGoesOnward DEF Arrive
<1> QED
  BY <1>3, MoveKeepsInv DEF Onward, Arrive

LEMMA RecordedKeepsInv ==
  ASSUME IInv, NEW r \in Requests, Recorded(r)  PROVE IInv'
<1>1. req[r] \in Loops /\ breaker \in [Providers -> Breakers]
  BY DEF IInv, TypeOK
<1>2. \A p \in Providers : p <= req[r].at /\ Suits(req[r].kind, p) => p \in Spent(req[r])
  BY <1>1 DEF IInv, Accounted, Recorded, Spent, Providers, Loops
<1>3. PICK x : Onward(x, req[r], breaker) /\ req' = [req EXCEPT ![r] = x]
  BY <1>1, <1>2, SeekGoesOnward DEF Recorded
<1> QED
  BY <1>3, MoveKeepsInv DEF Onward, Recorded

LEMMA CutKeepsInv ==
  ASSUME IInv, NEW r \in Requests, Cut(r)  PROVE IInv'
<1> DEFINE x == [Begin(req[r].kind) EXCEPT !.pc = "cut"]
<1>1. req[r] \in Loops
  BY DEF IInv, TypeOK
<1>2. x \in Loops /\ x.pc = "cut"
  <2>1. req[r].kind \in Kinds
    BY <1>1 DEF Loops
  <2>2. Begin(req[r].kind) \in Loops
    BY <2>1, BeginIsLoop
  <2> QED
    BY <2>2 DEF Loops, Ended
<1>3. req' = [req EXCEPT ![r] = x]
  BY DEF Cut, IInv, TypeOK
<1> HIDE DEF x
<1>4. Accounted(x)
  BY <1>2 DEF Accounted
<1> QED
  BY <1>2, <1>3, <1>4, MoveKeepsInv DEF Cut

LEMMA SucceedsKeepsInv ==
  ASSUME IInv, NEW r \in Requests, Succeeds(r)  PROVE IInv'
<1> DEFINE x == [req[r] EXCEPT !.pc = "answered"]
<1>1. /\ req \in [Requests -> Loops] /\ breaker \in [Providers -> Breakers]
      /\ wasted \in [Providers -> Nat]
  BY DEF IInv, TypeOK
<1>2. /\ x \in Loops /\ x.pc = "answered" /\ x.kind = req[r].kind /\ x.at = req[r].at
      /\ Spent(x) = Spent(req[r])
  BY <1>1 DEF Loops, Ended, Spent
<1>3. req' = [req EXCEPT ![r] = x]
  BY <1>1 DEF Succeeds
<1> HIDE DEF x
<1>4. Accounted(x) /\ req[r].at \in Providers
  BY <1>1, <1>2 DEF IInv, Accounted, Succeeds
<1>5. PICK p \in Providers : p = req[r].at
  BY <1>4
<1>6. /\ breaker' = [breaker EXCEPT ![p] = RecordSuccess(@)]
      /\ wasted' = [wasted EXCEPT ![p] = 0]
  BY <1>5 DEF Succeeds
<1>7. TypeOK'
  <2>1. breaker' \in [Providers -> Breakers] /\ wasted' \in [Providers -> Nat]
    BY <1>1, <1>6, BreakerTypes
  <2> QED
    BY <1>2, <1>3, <1>4, <2>1, LoopMoves DEF TypeOK
<1>8. ASSUME NEW o \in Providers  PROVE Counted(o)'
  <2>1. Calling(o)' \subseteq Calling(o)
    <3>1. Calling(o)' = Calling(o) \ {r}
      BY <1>2, <1>3, <1>4, LoopMoves
    <3> QED
      BY <3>1
  <2>2. CASE o # p
    BY <1>1, <1>6, <2>1, <2>2, CountedWhenLeftAlone DEF IInv
  <2>3. CASE o = p
    <3>1. breaker'[p] = Fresh /\ wasted'[p] = 0
      BY <1>1, <1>6 DEF RecordSuccess
    <3> QED
      BY <2>3, <3>1, ThresholdAssumption DEF Counted, Fresh
  <2> QED
    BY <2>2, <2>3
<1>9. \A s \in Requests : Accounted(req[s])'
  BY <1>2, <1>3, <1>4, LoopMoves
<1> QED
  BY <1>7, <1>8, <1>9 DEF IInv

\* One more failure of a provider whose call has ended is within its budget:
\* a failure that opens the circuit was the Threshold-th in a row, or a probe.
LEMMA FailureIsCounted ==
  ASSUME IInv, NEW p \in Providers, NEW r \in Calling(p),
         Calling(p)' = Calling(p) \ {r},
         breaker'[p] = RecordFailure(breaker[p]), wasted'[p] = wasted[p] + 1
  PROVE  Counted(p)'
<1>1. /\ breaker[p] \in Breakers /\ wasted[p] \in Nat /\ Counted(p)
  BY DEF IInv, TypeOK
<1>2. /\ breaker[p].failures \in 0 .. Threshold
      /\ breaker[p].opened \in {"no", "waiting", "elapsed"}
  BY <1>1 DEF Breakers
<1>3. PICK c \in Nat, n \in Nat :
         /\ n = Cardinality(Requests) /\ c = Cardinality(Calling(p))
         /\ c <= n /\ Cardinality(Calling(p)') = c - 1 /\ c - 1 \in Nat
  BY CallingIsFinite, OneCallLess
<1>4. CASE breaker[p].failures + 1 >= Threshold
  <2>1. breaker'[p].opened = "waiting" /\ breaker'[p].failures = Threshold
    BY <1>4 DEF RecordFailure
  <2>2. wasted[p] + 1 + (c - 1) <= Threshold - 1 + n
    <3>1. CASE breaker[p].opened = "no"
      BY <1>1, <1>2, <1>3, <3>1, ThresholdAssumption DEF Counted
    <3>2. CASE breaker[p].opened = "waiting"
      <4>1. wasted[p] + c <= Threshold - 1 + n
        BY <1>1, <1>3, <3>2 DEF Counted
      <4> QED
        BY <1>1, <1>3, <4>1, ThresholdAssumption
    <3>3. CASE breaker[p].opened = "elapsed"
      <4>1. wasted[p] = 0
        BY <1>1, <3>3 DEF Counted
      <4> QED
        BY <1>3, <4>1, ThresholdAssumption
    <3> QED
      BY <1>2, <3>1, <3>2, <3>3
  <2> QED
    BY <1>3, <2>1, <2>2 DEF Counted
<1>5. CASE ~(breaker[p].failures + 1 >= Threshold)
  <2>1. breaker[p].opened = "no" /\ wasted[p] = breaker[p].failures
    BY <1>1, <1>2, <1>5, ThresholdAssumption DEF Counted
  <2>2. /\ breaker'[p].opened = "no" /\ breaker'[p].failures = breaker[p].failures + 1
    BY <1>1, <1>5, <2>1 DEF RecordFailure, Breakers
  <2> QED
    BY <1>2, <1>5, <2>1, <2>2, ThresholdAssumption DEF Counted
<1> QED
  BY <1>4, <1>5

\* A failed call moves the loop on, to a provider whose circuit is not open
\* after the failure was recorded, or to the usage row.
LEMMA FailsMoves ==
  ASSUME IInv, NEW r \in Requests, Fails(r)
  PROVE  \E x \in Loops : /\ Accounted(x) /\ req' = [req EXCEPT ![r] = x]
                          /\ x.pc \in {"call", "record", "failed"}
                          /\ x.pc = "record" => x.at = req[r].at
                          /\ x.pc = "call" => x.at > req[r].at /\ breaker'[x.at].opened # "waiting"
<1> DEFINE q == [req[r] EXCEPT !.tried = @ \union {req[r].at}]
<1>1. /\ req \in [Requests -> Loops] /\ breaker \in [Providers -> Breakers]
      /\ wasted \in [Providers -> Nat] /\ req[r].pc = "call" /\ Accounted(req[r])
  BY DEF IInv, TypeOK, Fails
<1>2. PICK p \in Providers : p = req[r].at
  BY <1>1 DEF Accounted
<1>3. /\ q \in Loops /\ q.kind = req[r].kind /\ q.at = p /\ q.tried = req[r].tried \union {p}
      /\ Spent(q) = Spent(req[r]) \union {p}
  BY <1>1, <1>2 DEF Loops, Spent
<1>4. /\ breaker' = [breaker EXCEPT ![p] = RecordFailure(@)]
      /\ wasted' = [wasted EXCEPT ![p] = @ + 1]
      /\ \/ Seek(r, q, breaker')
         \/ req' = [req EXCEPT ![r] = [q EXCEPT !.pc = "record"]]
  BY <1>2 DEF Fails
<1> HIDE DEF q
<1>5. breaker' \in [Providers -> Breakers] /\ wasted' \in [Providers -> Nat]
  BY <1>1, <1>4, BreakerTypes
<1>6. \A o \in Providers : o <= p /\ Suits(q.kind, o) => o \in Spent(q)
  BY <1>1, <1>2, <1>3 DEF Accounted, Providers
<1>7. \E x : /\ x \in Loops /\ Accounted(x) /\ req' = [req EXCEPT ![r] = x]
             /\ x.pc \in {"call", "record", "failed"}
             /\ x.pc = "record" => x.at = p
             /\ x.pc = "call" => x.at > p /\ breaker'[x.at].opened # "waiting"
  <2>1. CASE Seek(r, q, breaker')
    <3>1. \E x : Onward(x, q, breaker') /\ req' = [req EXCEPT ![r] = x]
      BY <1>3, <1>5, <1>6, <2>1, SeekGoesOnward
    <3> QED
      BY <1>3, <3>1 DEF Onward
  <2>2. CASE req' = [req EXCEPT ![r] = [q EXCEPT !.pc = "record"]]
    <3> DEFINE x == [q EXCEPT !.pc = "record"]
    <3>1. /\ x \in Loops /\ x.pc = "record" /\ x.kind = q.kind /\ x.at = p /\ p \in x.tried
          /\ Spent(x) = Spent(q)
      BY <1>3 DEF Loops, Busy, Spent
    <3>2. req' = [req EXCEPT ![r] = x]
      BY <2>2
    <3> HIDE DEF x
    <3>3. Accounted(x)
      BY <1>6, <3>1 DEF Accounted, Providers
    <3> QED
      BY <3>1, <3>2, <3>3
  <2> QED
    BY <1>4, <2>1, <2>2
<1> QED
  BY <1>2, <1>7

LEMMA FailsKeepsInv ==
  ASSUME IInv, NEW r \in Requests, Fails(r)  PROVE IInv'
<1>1. /\ req \in [Requests -> Loops] /\ breaker \in [Providers -> Breakers]
      /\ wasted \in [Providers -> Nat] /\ req[r].pc = "call" /\ Accounted(req[r])
  BY DEF IInv, TypeOK, Fails
<1>2. PICK p \in Providers : p = req[r].at
  BY <1>1 DEF Accounted
<1>4. /\ breaker' = [breaker EXCEPT ![p] = RecordFailure(@)]
      /\ wasted' = [wasted EXCEPT ![p] = @ + 1]
  BY <1>2 DEF Fails
<1>5. breaker' \in [Providers -> Breakers] /\ wasted' \in [Providers -> Nat]
  BY <1>1, <1>4, BreakerTypes
<1>8. PICK x \in Loops : /\ Accounted(x) /\ req' = [req EXCEPT ![r] = x]
                         /\ x.pc = "call" => x.at > p /\ breaker'[x.at].opened # "waiting"
  BY <1>2, FailsMoves
<1>9. TypeOK'
  BY <1>5, <1>8, LoopMoves DEF TypeOK
<1>10. ASSUME NEW o \in Providers  PROVE Counted(o)'
  <2>1. CASE o # p
    <3>1. breaker'[o] = breaker[o] /\ wasted'[o] = wasted[o]
      BY <1>1, <1>4, <2>1
    <3>2. breaker[o].opened = "waiting" => Calling(o)' \subseteq Calling(o)
      BY <1>8, <3>1, LoopMoves
    <3> QED
      BY <3>1, <3>2, CountedWhenLeftAlone DEF IInv
  <2>2. CASE o = p
    <3>1. r \in Calling(p)
      BY <1>1, <1>2 DEF Calling
    <3>2. ~(x.pc = "call" /\ x.at = p)
      BY <1>8 DEF Providers
    <3>3. Calling(p)' = Calling(p) \ {r}
      BY <1>8, <3>2, LoopMoves
    <3>4. breaker'[p] = RecordFailure(breaker[p]) /\ wasted'[p] = wasted[p] + 1
      BY <1>1, <1>4
    <3> QED
      BY <2>2, <3>1, <3>3, <3>4, FailureIsCounted
  <2> QED
    BY <2>1, <2>2
<1>11. \A s \in Requests : Accounted(req[s])'
  BY <1>8, LoopMoves
<1> QED
  BY <1>9, <1>10, <1>11 DEF IInv

LEMMA TimeoutKeepsInv ==
  ASSUME IInv, NEW p \in Providers, RecoveryTimeout(p)  PROVE IInv'
<1>1. /\ breaker \in [Providers -> Breakers] /\ wasted \in [Providers -> Nat]
      /\ req' = req /\ breaker' = [breaker EXCEPT ![p] = Elapse(@)]
      /\ wasted' = [wasted EXCEPT ![p] = 0]
  BY DEF IInv, TypeOK, RecoveryTimeout
<1>2. TypeOK'
  BY <1>1, BreakerTypes DEF IInv, TypeOK
<1>3. ASSUME NEW o \in Providers  PROVE Counted(o)'
  <2>1. Calling(o)' = Calling(o)
    BY <1>1 DEF Calling
  <2>2. CASE o # p
    BY <1>1, <2>1, <2>2, CountedWhenLeftAlone DEF IInv
  <2>3. CASE o = p
    <3>1. breaker[p].opened = "waiting" /\ breaker[p] \in Breakers
      BY <1>1, StateOf DEF RecoveryTimeout
    <3>2. breaker[p].failures = Threshold
      BY <3>1 DEF IInv, Counted
    <3>3. breaker'[p].opened = "elapsed" /\ breaker'[p].failures = Threshold /\ wasted'[p] = 0
      BY <1>1, <3>1, <3>2 DEF Elapse, Breakers
    <3> QED
      BY <2>3, <3>3 DEF Counted
  <2> QED
    BY <2>2, <2>3
<1> QED
  BY <1>1, <1>2, <1>3 DEF IInv

LEMMA IInvInductive == IInv /\ [Next]_vars => IInv'
<1> SUFFICES ASSUME IInv, [Next]_vars  PROVE IInv'
  OBVIOUS
<1>1. CASE \E r \in Requests, k \in Kinds : Arrive(r, k)
  BY <1>1, ArriveKeepsInv
<1>2. ASSUME NEW r \in Requests, Succeeds(r) \/ Fails(r) \/ Recorded(r) \/ Cut(r)
      PROVE  IInv'
  BY <1>2, SucceedsKeepsInv, FailsKeepsInv, RecordedKeepsInv, CutKeepsInv
<1>3. CASE \E p \in Providers : RecoveryTimeout(p)
  BY <1>3, TimeoutKeepsInv
<1>4. CASE UNCHANGED vars
  BY <1>4 DEF vars, IInv, TypeOK, Counted, Calling
<1> QED
  BY <1>1, <1>2, <1>3, <1>4 DEF Next

LEMMA Invariance == Spec => []IInv
  BY InvInit, IInvInductive, PTL DEF Spec

-----------------------------------------------------------------------------
(* Theorems *)

\* Every variable keeps its shape.
THEOREM TypeCorrect == Spec => []TypeOK
<1>1. IInv => TypeOK
  BY DEF IInv
<1> QED
  BY <1>1, Invariance, PTL

\* A provider that is down costs a bounded number of failed calls, however many
\* requests overlap (LLMService and TTSService with their circuit breakers).
THEOREM WasteBounded == Spec => []WasteIsBounded
<1>1. ASSUME IInv, NEW p \in Providers
      PROVE  wasted[p] <= Threshold - 1 + Cardinality(Requests)
  <2>1. /\ breaker[p] \in Breakers /\ wasted[p] \in Nat /\ Counted(p)
    BY <1>1 DEF IInv, TypeOK
  <2>2. breaker[p].failures \in 0 .. Threshold /\ breaker[p].opened \in {"no", "waiting", "elapsed"}
    BY <2>1 DEF Breakers
  <2>3. Cardinality(Calling(p)) \in Nat /\ Cardinality(Requests) \in Nat
    BY CallingIsFinite
  <2> QED
    BY <2>1, <2>2, <2>3, ThresholdAssumption DEF Counted
<1>2. IInv => WasteIsBounded
  BY <1>1 DEF WasteIsBounded
<1> QED
  BY <1>2, Invariance, PTL

\* A request passes over a suitable provider only for a reason, and is
\* answered by one that suits it: a cloned voice by a clone provider, and
\* nothing else (TTSService.synthesize).
THEOREM Exhaustive == Spec => []FallbackIsExhaustive
<1>1. IInv => FallbackIsExhaustive
  <2> SUFFICES ASSUME IInv, NEW r \in Requests
               PROVE  LET q == req[r]
                          spent == q.tried \union q.barred IN
                      /\ q.pc = "failed" => \A p \in Providers : Suits(q.kind, p) => p \in spent
                      /\ q.pc = "answered" =>
                            /\ q.kind = "cloned" <=> q.at \in Clones
                            /\ \A p \in Providers : p < q.at /\ Suits(q.kind, p) => p \in spent
    BY DEF FallbackIsExhaustive
  <2>1. req[r].pc = "answered" => (req[r].kind = "cloned" <=> req[r].at \in Clones)
    BY DEF IInv, Accounted, Suits
  <2> QED
    BY <2>1 DEF IInv, Accounted, Spent
<1> QED
  BY <1>1, Invariance, PTL

\* While a circuit is open nobody new calls its provider.
LEMMA OnwardDrains ==
  ASSUME IInv, NEW r \in Requests, NEW q, NEW brk, NEW x,
         Onward(x, q, brk), req' = [req EXCEPT ![r] = x],
         NEW p \in Providers, brk[p].opened = "waiting"
  PROVE  Calling(p)' \subseteq Calling(p)
<1>1. x \in Loops /\ Accounted(x) /\ ~(x.pc = "call" /\ x.at = p)
  BY DEF Onward
<1>2. Calling(p)' = Calling(p) \ {r}
  BY <1>1, LoopMoves
<1> QED
  BY <1>2

THEOREM OpenDrains == Spec => OpenCircuitDrains
<1> DEFINE Drains == \A p \in Providers :
                        State(breaker[p]) = "open" => Calling(p)' \subseteq Calling(p)
<1>1. IInv /\ [Next]_vars => Drains
  <2> SUFFICES ASSUME IInv, [Next]_vars, NEW p \in Providers, State(breaker[p]) = "open"
               PROVE  Calling(p)' \subseteq Calling(p)
    OBVIOUS
  <2>1. /\ breaker \in [Providers -> Breakers] /\ req \in [Requests -> Loops]
        /\ breaker[p].opened = "waiting"
    BY StateOf DEF IInv, TypeOK
  <2>2. ASSUME NEW r \in Requests, NEW k \in Kinds, Arrive(r, k)
        PROVE  Calling(p)' \subseteq Calling(p)
    <3>1. Begin(k) \in Loops /\ \A o \in Providers : ~(o <= Begin(k).at)
      BY BeginIsLoop, ChainAssumption DEF Providers
    <3>2. PICK x : Onward(x, Begin(k), breaker) /\ req' = [req EXCEPT ![r] = x]
      BY <2>1, <2>2, <3>1, SeekGoesOnward DEF Arrive
    <3> QED
      BY <2>1, <3>2, OnwardDrains
  <2>3. ASSUME NEW r \in Requests, Recorded(r)  PROVE Calling(p)' \subseteq Calling(p)
    <3>1. req[r] \in Loops
      BY <2>1
    <3>2. \A o \in Providers : o <= req[r].at /\ Suits(req[r].kind, o) => o \in Spent(req[r])
      BY <2>3, <3>1 DEF IInv, Accounted, Recorded, Spent, Providers, Loops
    <3>3. PICK x : Onward(x, req[r], breaker) /\ req' = [req EXCEPT ![r] = x]
      BY <2>1, <2>3, <3>1, <3>2, SeekGoesOnward DEF Recorded
    <3> QED
      BY <2>1, <3>3, OnwardDrains
  <2>4. ASSUME NEW r \in Requests, Fails(r)  PROVE Calling(p)' \subseteq Calling(p)
    <3>1. PICK x \in Loops : /\ Accounted(x) /\ req' = [req EXCEPT ![r] = x]
                             /\ x.pc = "call" => x.at > req[r].at /\ breaker'[x.at].opened # "waiting"
      BY <2>4, FailsMoves
    <3>2. breaker'[p].opened = "waiting"
      <4>1. breaker' = [breaker EXCEPT ![req[r].at] = RecordFailure(@)]
        BY <2>4 DEF Fails
      <4>2. breaker[p].failures = Threshold
        BY <2>1 DEF IInv, Counted
      <4>3. RecordFailure(breaker[p]).opened = "waiting"
        BY <4>2, ThresholdAssumption DEF RecordFailure
      <4> QED
        BY <2>1, <4>1, <4>3
    <3>3. ~(x.pc = "call" /\ x.at = p)
      BY <3>1, <3>2
    <3>4. Calling(p)' = Calling(p) \ {r}
      BY <3>1, <3>3, LoopMoves
    <3> QED
      BY <3>4
  <2>5. ASSUME NEW r \in Requests, Succeeds(r) \/ Cut(r)  PROVE Calling(p)' \subseteq Calling(p)
    <3>1. req'[r].pc # "call" /\ \A s \in Requests : s # r => req'[s] = req[s]
      BY <2>1, <2>5 DEF Succeeds, Cut, Loops, Begin
    <3> QED
      BY <2>1, <3>1 DEF Calling
  <2>6. CASE UNCHANGED req
    BY <2>6 DEF Calling
  <2> QED
    BY <2>2, <2>3, <2>4, <2>5, <2>6 DEF Next, vars, RecoveryTimeout
<1> HIDE DEF Drains
<1>2. [][Drains]_vars => OpenCircuitDrains
  BY PTL DEF Drains, OpenCircuitDrains
<1> QED
  BY <1>1, Invariance, PTL DEF Spec, OpenCircuitDrains, Drains

-----------------------------------------------------------------------------
(* How long a request can take *)

\* What a request has left: the providers after the one it is at, two steps
\* for each, and its own.
Left(q) == CASE q.pc = "call" -> 2 * (Last - q.at) + 2
             [] q.pc = "record" -> 2 * (Last - q.at) + 1
             [] OTHER -> 0

LEMMA LeftValues ==
  ASSUME NEW q \in Loops, Accounted(q)
  PROVE  /\ q.pc = "call" => Left(q) = 2 * (Last - q.at) + 2 /\ q.at \in 1 .. Last
         /\ q.pc = "record" => Left(q) = 2 * (Last - q.at) + 1 /\ q.at \in 1 .. Last
         /\ q.pc \notin Busy => Left(q) = 0
         /\ Left(q) \in 0 .. 2 * Last /\ Last \in Nat
<1>1. Last \in Nat
  BY ChainAssumption
<1>2. q.pc \in {"call", "record"} => q.at \in 1 .. Last
  BY DEF Accounted, Providers
<1>3. q.pc = "call" => Left(q) = 2 * (Last - q.at) + 2
  BY DEF Left
<1>4. q.pc = "record" => Left(q) = 2 * (Last - q.at) + 1
  BY DEF Left
<1>5. q.pc \notin Busy => Left(q) = 0
  BY DEF Left, Busy
<1>6. Left(q) \in 0 .. 2 * Last
  BY <1>1, <1>2, <1>3, <1>4, <1>5 DEF Busy
<1> QED
  BY <1>1, <1>2, <1>3, <1>4, <1>5, <1>6

\* Every step of a request's own, or its end from outside, leaves it less.
LEMMA AnswerRunsDown ==
  ASSUME IInv, NEW r \in Requests, Answer(r) \/ Cut(r)
  PROVE  Left(req'[r]) < Left(req[r])
<1>1. /\ req \in [Requests -> Loops] /\ breaker \in [Providers -> Breakers]
      /\ Accounted(req[r]) /\ req[r] \in Loops
  BY DEF IInv, TypeOK
<1>2. ASSUME NEW x \in Loops, Accounted(x), req'[r] = x, x.pc \notin Busy, req[r].pc \in Busy
      PROVE  Left(req'[r]) < Left(req[r])
  <2>1. Left(x) = 0
    BY <1>2, LeftValues
  <2>2. Left(req[r]) > 0
    BY <1>1, <1>2, LeftValues DEF Busy
  <2> QED
    BY <1>2, <2>1, <2>2
<1>3. CASE Succeeds(r)
  <2> DEFINE x == [req[r] EXCEPT !.pc = "answered"]
  <2>1. req'[r] = x
    BY <1>1, <1>3 DEF Succeeds, Loops
  <2>2. /\ x \in Loops /\ x.pc = "answered" /\ x.kind = req[r].kind /\ x.at = req[r].at
        /\ Spent(x) = Spent(req[r]) /\ req[r].pc = "call"
    BY <1>1, <1>3 DEF Succeeds, Loops, Ended, Spent
  <2> HIDE DEF x
  <2>3. Accounted(x)
    BY <1>1, <2>2 DEF Accounted
  <2> QED
    BY <1>2, <2>1, <2>2, <2>3 DEF Busy
<1>4. CASE Cut(r)
  <2> DEFINE x == [Begin(req[r].kind) EXCEPT !.pc = "cut"]
  <2>1. req'[r] = x /\ req[r].pc \in Busy
    BY <1>1, <1>4 DEF Cut
  <2>2. x \in Loops /\ x.pc = "cut"
    <3>1. Begin(req[r].kind) \in Loops
      BY <1>1, BeginIsLoop DEF Loops
    <3> QED
      BY <3>1 DEF Loops, Ended
  <2>3. Accounted(x)
    BY <2>2 DEF Accounted
  <2> QED
    BY <1>2, <2>1, <2>2, <2>3 DEF Busy
<1>5. CASE Fails(r)
  <2>1. PICK x \in Loops : /\ Accounted(x) /\ req' = [req EXCEPT ![r] = x]
                           /\ x.pc \in {"call", "record", "failed"}
                           /\ x.pc = "record" => x.at = req[r].at
                           /\ x.pc = "call" => x.at > req[r].at
    BY <1>5, FailsMoves
  <2>2. req'[r] = x /\ req[r].pc = "call"
    BY <1>1, <1>5, <2>1 DEF Fails
  <2> QED
    BY <1>1, <1>2, <2>1, <2>2, LeftValues DEF Busy
<1>6. CASE Recorded(r)
  <2>1. \A o \in Providers : o <= req[r].at /\ Suits(req[r].kind, o) => o \in Spent(req[r])
    BY <1>1, <1>6 DEF Accounted, Recorded, Spent, Providers, Loops
  <2>2. PICK x : Onward(x, req[r], breaker) /\ req' = [req EXCEPT ![r] = x]
    BY <1>1, <1>6, <2>1, SeekGoesOnward DEF Recorded
  <2>3. /\ req'[r] = x /\ req[r].pc = "record" /\ x \in Loops /\ Accounted(x)
        /\ x.pc \in {"call", "failed"} /\ (x.pc = "call" => x.at > req[r].at)
    BY <1>1, <1>6, <2>2 DEF Recorded, Onward
  <2> QED
    BY <1>1, <1>2, <2>3, LeftValues DEF Busy
<1> QED
  BY <1>3, <1>4, <1>5, <1>6 DEF Answer

\* A request has at most two steps for each provider before it, and what others
\* do - failures that open a circuit, timeouts that close one - gives it none:
\* no provider is asked twice for one request.
RunDown ==
    [][\A r \in Requests :
          /\ Left(req[r]) \in 0 .. 2 * Last
          /\ Answer(r) => Left(req'[r]) < Left(req[r])
          /\ (\A k \in Kinds : ~Arrive(r, k)) => Left(req'[r]) <= Left(req[r])]_vars

\* The fallback loops of LLMService and TTSService end (RunDown): the half of
\* RequestEnds that needs no fairness, for any providers and requests.
THEOREM RequestsRunDown == Spec => RunDown
<1> DEFINE Falls == \A r \in Requests :
                       /\ Left(req[r]) \in 0 .. 2 * Last
                       /\ Answer(r) => Left(req'[r]) < Left(req[r])
                       /\ (\A k \in Kinds : ~Arrive(r, k)) => Left(req'[r]) <= Left(req[r])
<1>1. ASSUME IInv, [Next]_vars, NEW r \in Requests
      PROVE  /\ Left(req[r]) \in 0 .. 2 * Last
             /\ Answer(r) => Left(req'[r]) < Left(req[r])
             /\ (\A k \in Kinds : ~Arrive(r, k)) => Left(req'[r]) <= Left(req[r])
  <2>1. req[r] \in Loops /\ Left(req[r]) \in 0 .. 2 * Last /\ Last \in Nat
    BY <1>1, LeftValues DEF IInv, TypeOK
  <2>2. IInv'
    BY <1>1, IInvInductive
  <2>3. Left(req'[r]) \in 0 .. 2 * Last
    BY <2>2, LeftValues DEF IInv, TypeOK
  <2>4. Answer(r) \/ Cut(r) => Left(req'[r]) < Left(req[r])
    BY <1>1, AnswerRunsDown
  <2>5. \/ Answer(r) \/ Cut(r) \/ req'[r] = req[r]
        \/ \E k \in Kinds : Arrive(r, k)
    <3>1. \A s \in Requests, k \in Kinds : Arrive(s, k) /\ s # r => req'[r] = req[r]
      BY <1>1 DEF Arrive, Seek, IInv, TypeOK
    <3>2. \A s \in Requests :
            (Succeeds(s) \/ Fails(s) \/ Recorded(s) \/ Cut(s)) /\ s # r => req'[r] = req[r]
      BY <1>1 DEF Succeeds, Fails, Recorded, Cut, Seek, IInv, TypeOK
    <3>3. (UNCHANGED vars) \/ (\E p \in Providers : RecoveryTimeout(p)) => req'[r] = req[r]
      BY DEF vars, RecoveryTimeout
    <3> QED
      BY <1>1, <3>1, <3>2, <3>3 DEF Next, Answer
  <2> QED
    BY <2>1, <2>3, <2>4, <2>5
<1>2. IInv /\ [Next]_vars => Falls
  BY <1>1
<1> HIDE DEF Falls
<1>3. [][Falls]_vars => RunDown
  BY PTL DEF Falls, RunDown
<1> QED
  BY <1>2, Invariance, PTL DEF Spec, RunDown, Falls
=============================================================================
