---------------------------- MODULE ProviderChain ---------------------------
(***************************************************************************)
(* A service that answers a request with the first provider of a fixed     *)
(* list that can: LLMService (generate_script, complete_json_raw) and      *)
(* TTSService (synthesize), which share this loop and its circuit          *)
(* breakers.  One service object serves every request of its process, so   *)
(* requests interleave wherever the loop awaits: the provider's call, and  *)
(* the usage row written after a failure.  Between two awaits the loop     *)
(* runs alone: looking for the next provider is one step with whatever     *)
(* precedes it.                                                            *)
(***************************************************************************)
EXTENDS CircuitBreaker, FiniteSets

CONSTANTS Requests,    \* requests in progress at the same time
          Last,        \* the providers are 1 .. Last, in the order of the list
          Configured,  \* those that have their credentials (provider.available)
          Clones,      \* those that speak with a cloned voice only (chatterbox_fal)
          Kinds        \* "script", "raw" (LLMService), "speech", "cloned" (TTSService)

Providers == 1 .. Last

ASSUME ChainAssumption ==
    /\ Last \in Nat
    /\ Configured \subseteq Providers
    /\ Clones \subseteq Providers
    /\ Kinds \subseteq {"script", "raw", "speech", "cloned"}
    /\ IsFiniteSet(Requests)

VARIABLES breaker,  \* the circuit breaker of each provider
          req,      \* the loop of each request
          wasted    \* history: a provider's failed calls since it last answered
                    \* or last outlasted a recovery timeout

vars == <<breaker, req, wasted>>

\* pc: "call" awaits the provider "at"; "record" awaits the usage row of its
\* failure; the rest are ways to end.  tried: providers that failed this
\* request; barred: circuits it found open.
Ended == {"answered", "failed", "cut"}
Busy == {"call", "record"}
Loops == [kind : Kinds, pc : {"idle"} \union Busy \union Ended, at : 0 .. Last,
          tried : SUBSET Providers, barred : SUBSET Providers]

-----------------------------------------------------------------------------
\* The loop's filters before the breaker.  complete_json_raw does not look
\* whether the provider is configured: the call then fails.  A language model
\* clones no voices.
Suits(kind, p) ==
    /\ kind # "raw" => p \in Configured
    /\ kind = "cloned" <=> p \in Clones

Admits(brk, p) == AllowRequest(brk[p])

\* The providers the loop can still turn to.
Candidates(q, brk) == {p \in Providers : p > q.at /\ Suits(q.kind, p) /\ Admits(brk, p)}

Barred(q, brk) == {p \in Providers : p > q.at /\ Suits(q.kind, p) /\ ~Admits(brk, p)}

\* Faulty form: an open circuit ends the loop instead of being skipped.
SeekStopsAtOpen(r, q, brk) ==
    LET left == {p \in Providers : p > q.at /\ Suits(q.kind, p)}
        seen == [q EXCEPT !.barred = @ \union Barred(q, brk)] IN
    \/ /\ \A p \in left : (\E m \in left : m < p) \/ ~Admits(brk, p)
       /\ req' = [req EXCEPT ![r] = [seen EXCEPT !.pc = "failed"]]
    \/ \E p \in left :
          /\ \A m \in left : p <= m
          /\ Admits(brk, p)
          /\ req' = [req EXCEPT ![r] = [seen EXCEPT !.pc = "call", !.at = p]]

\* Faulty form: a failed provider is asked again as long as it is admitted.
SeekAsksAgain(r, q, brk) ==
    LET left == Candidates([q EXCEPT !.at = IF @ = 0 THEN 0 ELSE @ - 1], brk)
        seen == [q EXCEPT !.barred = @ \union Barred(q, brk)] IN
    \/ /\ left = {}
       /\ req' = [req EXCEPT ![r] = [seen EXCEPT !.pc = "failed"]]
    \/ \E p \in left :
          /\ \A m \in left : p <= m
          /\ req' = [req EXCEPT ![r] = [seen EXCEPT !.pc = "call", !.at = p]]

\* Request r, whose loop is at q, goes on to the next provider under the
\* breakers brk, or raises AllProvidersFailedError.
Seek(r, q, brk) ==
    LET left == Candidates(q, brk)
        seen == [q EXCEPT !.barred = @ \union Barred(q, brk)] IN
    \/ /\ left = {}
       /\ req' = [req EXCEPT ![r] = [seen EXCEPT !.pc = "failed"]]
    \/ \E p \in left :
          /\ \A m \in left : p <= m
          /\ req' = [req EXCEPT ![r] = [seen EXCEPT !.pc = "call", !.at = p]]

-----------------------------------------------------------------------------
Begin(kind) == [kind |-> kind, pc |-> "idle", at |-> 0, tried |-> {}, barred |-> {}]

\* An object is an LLMService or a TTSService, and is asked accordingly.
SameService(k, l) == k \in {"script", "raw"} <=> l \in {"script", "raw"}

Init ==
    /\ breaker = [p \in Providers |-> Fresh]
    /\ req \in [Requests -> {Begin(k) : k \in Kinds}]
    /\ \A r, s \in Requests : SameService(req[r].kind, req[s].kind)
    /\ wasted = [p \in Providers |-> 0]

\* A request comes in; the slot of one that ended is used again.
Arrive(r, kind) ==
    /\ req[r].pc \notin Busy
    /\ \A s \in Requests : SameService(kind, req[s].kind)
    /\ Seek(r, Begin(kind), breaker)
    /\ UNCHANGED <<breaker, wasted>>

\* The provider answers and the answer can be used (the script parses, the
\* audio is normalised and stored).  The usage row and the response that
\* follow touch nothing another request sees.
Succeeds(r) ==
    LET p == req[r].at IN
    /\ req[r].pc = "call"
    /\ p \in Configured
    /\ breaker' = [breaker EXCEPT ![p] = RecordSuccess(@)]
    /\ wasted' = [wasted EXCEPT ![p] = 0]
    /\ req' = [req EXCEPT ![r].pc = "answered"]

\* The provider fails, or answers with something that cannot be parsed.
\* complete_json_raw goes on at once, the others await the usage row.
Fails(r) ==
    LET p == req[r].at
        q == [req[r] EXCEPT !.tried = @ \union {p}] IN
    /\ req[r].pc = "call"
    /\ breaker' = [breaker EXCEPT ![p] = RecordFailure(@)]
    /\ wasted' = [wasted EXCEPT ![p] = @ + 1]
    /\ IF q.kind = "raw"
       THEN Seek(r, q, breaker')
       ELSE req' = [req EXCEPT ![r] = [q EXCEPT !.pc = "record"]]

\* The usage row is written, or could not be: _record swallows the error.
Recorded(r) ==
    /\ req[r].pc = "record"
    /\ Seek(r, req[r], breaker)
    /\ UNCHANGED <<breaker, wasted>>

\* An exception no except clause names leaves the loop, and no breaker hears
\* of it: the request is cancelled, or a good synthesis cannot be normalised
\* (AudioProcessingError) or stored.
Cut(r) ==
    /\ req[r].pc \in Busy
    /\ req' = [req EXCEPT ![r] = [Begin(@.kind) EXCEPT !.pc = "cut"]]
    /\ UNCHANGED <<breaker, wasted>>

RecoveryTimeout(p) ==
    /\ State(breaker[p]) = "open"
    /\ breaker' = [breaker EXCEPT ![p] = Elapse(@)]
    /\ wasted' = [wasted EXCEPT ![p] = 0]
    /\ UNCHANGED req

-----------------------------------------------------------------------------
Answer(r) == Succeeds(r) \/ Fails(r) \/ Recorded(r)

Next ==
    \/ \E r \in Requests, k \in Kinds : Arrive(r, k)
    \/ \E r \in Requests : Succeeds(r) \/ Fails(r) \/ Recorded(r) \/ Cut(r)
    \/ \E p \in Providers : RecoveryTimeout(p)

Spec == Init /\ [][Next]_vars

\* Calls return (the SDK clients have timeouts) and time passes.  Nothing is
\* assumed of clients, of cancellations or of what providers answer.
Fairness ==
    /\ \A r \in Requests : WF_vars(Answer(r))
    /\ \A p \in Providers : WF_vars(RecoveryTimeout(p))

FairSpec == Spec /\ Fairness

-----------------------------------------------------------------------------
(* Properties *)

\* Every variable keeps its shape.
TypeOK ==
    /\ breaker \in [Providers -> Breakers]
    /\ req \in [Requests -> Loops]
    /\ wasted \in [Providers -> Nat]

Calling(p) == {r \in Requests : req[r].pc = "call" /\ req[r].at = p}

\* A provider that is down costs at most Threshold - 1 failed calls, and one
\* more for each request that may be in flight, before its circuit opens or
\* after it is probed again, however the calls overlap.
WasteIsBounded ==
    \A p \in Providers : wasted[p] <= Threshold - 1 + Cardinality(Requests)

\* While a circuit is open the calls at its provider only drain away: neither
\* a new request nor one that falls back from another provider is admitted.
OpenCircuitDrains ==
    [][\A p \in Providers :
          State(breaker[p]) = "open" => Calling(p)' \subseteq Calling(p)]_vars

\* A request that fails has tried every provider that suits it, but for those
\* whose circuit it found open; one that is answered was answered by a provider
\* that suits it - a cloned voice by a clone provider and a preset never, also
\* when every other provider is down - and had no such reason to pass over one
\* before it in the list.
FallbackIsExhaustive ==
    \A r \in Requests :
        LET q == req[r]
            spent == q.tried \union q.barred IN
        /\ q.pc = "failed" => \A p \in Providers : Suits(q.kind, p) => p \in spent
        /\ q.pc = "answered" =>
              /\ q.kind = "cloned" <=> q.at \in Clones
              /\ \A p \in Providers : p < q.at /\ Suits(q.kind, p) => p \in spent

\* Every request ends, whatever the providers and the other requests do.
RequestEnds ==
    \A r \in Requests : req[r].pc \in Busy ~> req[r].pc \in Ended

\* Once the preferred provider answers every call, its circuit closes for good,
\* if requests it suits keep coming and are not cut any more: no half-open circuit is
\* stuck, and no open one is forgotten.
PrimaryRecovers ==
    /\ <>[][\A r \in Requests : ~Cut(r) /\ ~(Fails(r) /\ req[r].at = 1)]_vars
    /\ []<><<\E r \in Requests, k \in Kinds : Suits(k, 1) /\ Arrive(r, k)>>_vars
    => <>[](State(breaker[1]) = "closed")
=============================================================================
