------------------------- MODULE RenderEnginesProofs -------------------------
(***************************************************************************)
(* Proofs about RenderEngines, for any callers, tries, engines, timeouts   *)
(* and rate limits.  The inductive invariant says of every try which job   *)
(* and how much time each place of its client allows, how tries of one     *)
(* caller follow each other, and that a try which is not shared has its    *)
(* model server to itself.  With it, every step is one of RenderContract.  *)
(***************************************************************************)
EXTENDS RenderEngines, TLAPS

\* The job that goes with each place of the client.
Placed(t, r) ==
    /\ r.at = "new" => r.engine = "none" /\ r.job = "none"
    /\ r.at = "posted" => r.engine \in Servers /\ r.job \in Unfinished
    /\ r.at \in {"submit", "backoff"} => r.engine \notin Servers /\ r.job = "none"
    /\ r.at \in {"poll", "fetch"} => r.engine \notin Servers
    /\ r.at = "fetch" /\ r.engine # "lenient" => r.job = "completed"
    /\ r.at \in {"package", "clip"} => r.clip = t /\ r.job = "completed"
    /\ r.at = "failed" => r.job \in {"none", "failed"}
    /\ r.at = "lost" /\ r.engine \in Avatars => r.job = "completed"

\* The latest end of a queue client's step.
TimedAt(e, place, end) ==
    /\ place = "submit" => end <= IF e = "sora2" THEN Timeout + Cap + 1 ELSE 1
    /\ place = "backoff" => e = "sora2" /\ end <= Timeout + Cap
    /\ place \in {"poll", "fetch"} => end <= Timeout + Slack(e)

\* What the client may still wait, for each of its places.
Timed(r) ==
    /\ r.at = "posted" => r.age + r.wait = Timeout
    /\ TimedAt(r.engine, r.at, r.age + r.wait)
    /\ r.at = "package" => r.age = 0

\* Without company and with a process that prints, the client has waited as
\* long as the process has run.
Served(r) ==
    /\ r.job = "running" => r.engine \in Servers
    /\ r.job # "running" => r.ran = 0
    /\ r.job \in {"none", "queued"} => ~r.silent
    /\ r.job = "running" /\ ~r.silent => r.ran <= ServerTimeout(r.engine)
    /\ r.at = "posted" /\ ~r.shared /\ r.job = "queued" => r.age = 0
    /\ r.at = "posted" /\ ~r.shared /\ ~r.silent /\ r.job = "running" => r.age = r.ran
    /\ r.at = "timeout" /\ r.engine \in Servers /\ ServerTimeout(r.engine) < Timeout
         => r.shared \/ r.silent

Sound(t, r) == r \in TryStates /\ Placed(t, r) /\ Timed(r) /\ Served(r)

Retryable == {"failed", "lost", "timeout", "outage"}

\* A caller's tries follow each other, each after the failure of the last.
Ordered ==
    \A t \in Tries, m \in 1 .. MaxTries :
        m < t[2] /\ try[t].at # "new" => try[<<t[1], m>>].at \in Retryable

Lonely(r) == r.at = "posted" /\ r.job = "queued" /\ ~r.shared

\* A queued request that is not shared is the only one at its server.
Undisturbed ==
    \A t, s \in Tries :
        s # t /\ Lonely(try[t]) /\ try[s].engine = try[t].engine => try[s].job \notin Unfinished

IInv ==
    /\ try \in [Tries -> TryStates]
    /\ \A t \in Tries : Sound(t, try[t])
    /\ Ordered
    /\ Undisturbed

-----------------------------------------------------------------------------
\* What a step of one try must not do to keep the invariant.
Minds(t, r) ==
    /\ r.at = try[t].at \/ (Active(t) /\ r.at # "new")
    /\ r.engine = try[t].engine
    /\ r.job \in Unfinished /\ r.engine \in Servers => try[t].job \in Unfinished
    /\ Lonely(r) => Lonely(try[t])

\* A step of one try that keeps it sound and minds the others.
LEMMA OneTry ==
    ASSUME IInv, NEW t \in Tries, NEW r, Sound(t, r), Minds(t, r),
           try' = [try EXCEPT ![t] = r]
    PROVE  IInv'
<1>1. try' \in [Tries -> TryStates] /\ \A s \in Tries : try'[s] = IF s = t THEN r ELSE try[s]
  BY DEF IInv, Sound
<1>2. ASSUME NEW s \in Tries PROVE Sound(s, try'[s])
  <2>1. CASE s = t
    BY <1>1, <2>1
  <2>2. CASE s # t
    BY <1>1, <2>2 DEF IInv
  <2> QED
    BY <2>1, <2>2
<1>3. ASSUME NEW s \in Tries, NEW m \in 1 .. MaxTries, m < s[2], try'[s].at # "new"
      PROVE  try'[<<s[1], m>>].at \in Retryable
  <2>1. <<s[1], m>> \in Tries
    BY DEF Tries
  <2>2. try[s].at # "new"
    <3>1. r.at = try[t].at \/ try[t].at # "new"
      BY DEF Minds, Active, Waiting
    <3> QED
      BY <1>1, <1>3, <3>1
  <2>3. try[<<s[1], m>>].at \in Retryable
    BY <1>3, <2>2 DEF IInv, Ordered
  <2>4. CASE <<s[1], m>> = t
    <3>1. r.at = try[t].at
      BY <2>3, <2>4 DEF Minds, Active, Waiting, Retryable
    <3> QED
      BY <1>1, <2>3, <2>4, <3>1
  <2>5. CASE <<s[1], m>> # t
    BY <1>1, <2>1, <2>3, <2>5
  <2> QED
    BY <2>4, <2>5
<1>4. ASSUME NEW q \in Tries, NEW s \in Tries, s # q, Lonely(try'[q]),
             try'[s].engine = try'[q].engine
      PROVE  try'[s].job \notin Unfinished
  <2>1. Lonely(try[q])
    BY <1>1, <1>4 DEF Minds
  <2>2. try'[q].engine = try[q].engine /\ try'[s].engine = try[s].engine
    BY <1>1 DEF Minds
  <2>3. try[s].job \notin Unfinished
    BY <1>4, <2>1, <2>2 DEF IInv, Undisturbed
  <2>4. try[q].engine \in Servers
    BY <2>1 DEF IInv, Sound, Placed, Lonely
  <2> QED
    BY <1>1, <1>4, <2>2, <2>3, <2>4 DEF Minds
<1> QED
  BY <1>1, <1>2, <1>3, <1>4 DEF IInv, Ordered, Undisturbed, Lonely, Sound, Placed, Timed, Served

-----------------------------------------------------------------------------
(* The updates the steps of a client are made of *)

\* A try that ends, whatever its engine does later.
LEMMA Ending ==
    ASSUME IInv, NEW t \in Tries, NEW how \in Ends \ {"clip"}, Active(t),
           NEW job, job = try[t].job \/ (At(t, "submit") /\ job = "queued"),
           how = "failed" => job \in {"none", "failed"},
           how = "lost" /\ try[t].engine \in Avatars => job = "completed",
           /\ how = "timeout" /\ try[t].engine \in Servers
           /\ ServerTimeout(try[t].engine) < Timeout
           => try[t].shared \/ try[t].silent
    PROVE  LET r == [Ended(try[t], how) EXCEPT !.job = job] IN Sound(t, r) /\ Minds(t, r)
<1> DEFINE r == [Ended(try[t], how) EXCEPT !.job = job]
<1>1. try[t] \in TryStates /\ Sound(t, try[t])
  BY DEF IInv
<1>2. job \in {"none", "completed", "failed"} \union Unfinished
  BY <1>1 DEF TryStates, Unfinished
<1>3. /\ r \in TryStates /\ r.at = how /\ r.age = 0 /\ r.wait = 0 /\ r.job = job
      /\ r.engine = try[t].engine /\ r.ran = try[t].ran /\ r.silent = try[t].silent
      /\ r.shared = try[t].shared /\ r.clip = try[t].clip
  BY <1>1, <1>2, ZenonT(30) DEF TryStates, Ended, Ends
<1> HIDE DEF r
<1>4. job # try[t].job => try[t].job = "none" /\ try[t].engine \notin Servers
  BY <1>1 DEF Sound, Placed, At
<1>5. Placed(t, r) /\ Timed(r)
  BY <1>3 DEF Placed, Timed, TimedAt, Ends
<1>6. Served(r)
  BY <1>1, <1>3, <1>4 DEF Served, Sound, Ends
<1>7. Minds(t, r)
  BY <1>3, <1>4 DEF Minds, Lonely, Ends, Servers
<1> QED
  BY <1>3, <1>5, <1>6, <1>7 DEF Sound, r

\* A queue client that goes on to another of its places.
Moved(t, place, wait, job) == [try[t] EXCEPT !.at = place, !.wait = wait, !.job = job]

LEMMA Going ==
    ASSUME IInv, NEW t \in Tries, NEW place \in {"submit", "backoff", "poll", "fetch"},
           NEW wait \in Nat, Active(t), ~At(t, "posted"), ~At(t, "package"),
           NEW job \in {"none", "queued", "completed", "failed"},
           job # try[t].job => At(t, "submit"),
           place \in {"submit", "backoff"} => job = "none",
           place = "fetch" /\ try[t].engine # "lenient" => job = "completed",
           TimedAt(try[t].engine, place, try[t].age + wait)
    PROVE  LET r == Moved(t, place, wait, job)
           IN  Sound(t, r) /\ Minds(t, r)
<1> DEFINE r == Moved(t, place, wait, job)
<1>1. try[t] \in TryStates /\ Sound(t, try[t])
  BY DEF IInv
<1>2. /\ r \in TryStates /\ r.at = place /\ r.age = try[t].age /\ r.wait = wait /\ r.job = job
      /\ r.engine = try[t].engine /\ r.ran = try[t].ran /\ r.silent = try[t].silent
      /\ r.shared = try[t].shared /\ r.clip = try[t].clip
  BY <1>1, ZenonT(30) DEF Moved, TryStates, Waiting, Unfinished
<1>3. Timed(r)
  BY <1>1, <1>2 DEF Timed
<1> HIDE DEF r
<1>4. try[t].engine \notin Servers /\ (job # try[t].job => try[t].job = "none")
  BY <1>1 DEF Sound, Placed, At, Active, Waiting
<1>5. Placed(t, r)
  BY <1>2, <1>4 DEF Placed
<1>6. Served(r)
  BY <1>1, <1>2, <1>4 DEF Served, Sound
<1>7. Minds(t, r)
  BY <1>2, <1>4 DEF Minds, Lonely
<1> QED
  BY <1>2, <1>3, <1>5, <1>6, <1>7 DEF Sound, r

\* A render that reaches its caller, or the packaging.
LEMMA Arriving ==
    ASSUME IInv, NEW t \in Tries, NEW how \in {"package", "clip"}, Active(t), ~At(t, "package")
    PROVE  LET r == [try[t] EXCEPT !.at = how, !.age = 0, !.wait = 0, !.clip = t,
                                   !.job = "completed", !.ran = 0]
           IN  Sound(t, r) /\ Minds(t, r)
<1> DEFINE r == [try[t] EXCEPT !.at = how, !.age = 0, !.wait = 0, !.clip = t,
                               !.job = "completed", !.ran = 0]
<1>1. try[t] \in TryStates /\ Sound(t, try[t])
  BY DEF IInv
<1>2. /\ r \in TryStates /\ r.at = how /\ r.age = 0 /\ r.wait = 0 /\ r.job = "completed"
      /\ r.engine = try[t].engine /\ r.ran = 0 /\ r.silent = try[t].silent
      /\ r.shared = try[t].shared /\ r.clip = t
  BY <1>1 DEF TryStates, Ends
<1> HIDE DEF r
<1>3. Placed(t, r) /\ Timed(r)
  BY <1>2 DEF Placed, Timed, TimedAt
<1>4. Served(r)
  BY <1>1, <1>2 DEF Served, Sound
<1>5. Minds(t, r)
  BY <1>2 DEF Minds, Lonely, Unfinished
<1> QED
  BY <1>2, <1>3, <1>4, <1>5 DEF Sound, r

\* A model server that answers a client which waits: no clip.
LEMMA Refusing ==
    ASSUME IInv, NEW t \in Tries, At(t, "posted")
    PROVE  LET r == [try[t] EXCEPT !.at = "failed", !.age = 0, !.wait = 0,
                                   !.job = "failed", !.ran = 0]
           IN  Sound(t, r) /\ Minds(t, r)
<1> DEFINE r == [try[t] EXCEPT !.at = "failed", !.age = 0, !.wait = 0,
                               !.job = "failed", !.ran = 0]
<1>1. try[t] \in TryStates /\ Sound(t, try[t])
  BY DEF IInv
<1>2. /\ r \in TryStates /\ r.at = "failed" /\ r.age = 0 /\ r.wait = 0 /\ r.job = "failed"
      /\ r.engine = try[t].engine /\ r.ran = 0 /\ r.silent = try[t].silent
      /\ r.shared = try[t].shared /\ r.clip = try[t].clip
  BY <1>1 DEF TryStates, Ends
<1> HIDE DEF r
<1>3. Placed(t, r) /\ Timed(r)
  BY <1>2 DEF Placed, Timed, TimedAt
<1>4. Served(r)
  BY <1>1, <1>2 DEF Served, Sound
<1>5. Minds(t, r)
  BY <1>2 DEF Minds, Lonely, Unfinished, At, Active, Waiting
<1> QED
  BY <1>2, <1>3, <1>4, <1>5 DEF Sound, r

\* An engine that goes on with a job, or ends it, while its client stays
\* where it is.
LEMMA Working ==
    ASSUME IInv, NEW t \in Tries, NEW job \in {"running", "completed", "failed"},
           NEW silent \in BOOLEAN,
           try[t].job \in Unfinished,
           job = "running" => try[t].engine \in Servers /\ try[t].job = "queued",
           job # "running" => ~At(t, "posted") /\ silent = try[t].silent
    PROVE  LET r == [try[t] EXCEPT !.job = job, !.ran = 0, !.silent = silent]
           IN  Sound(t, r) /\ Minds(t, r)
<1> DEFINE r == [try[t] EXCEPT !.job = job, !.ran = 0, !.silent = silent]
<1>1. try[t] \in TryStates /\ Sound(t, try[t])
  BY DEF IInv
<1>2. /\ r \in TryStates /\ r.at = try[t].at /\ r.age = try[t].age /\ r.wait = try[t].wait
      /\ r.job = job /\ r.engine = try[t].engine /\ r.ran = 0 /\ r.silent = silent
      /\ r.shared = try[t].shared /\ r.clip = try[t].clip
  BY <1>1 DEF TryStates, Unfinished
<1> HIDE DEF r
<1>3. Placed(t, r)
  BY <1>1, <1>2 DEF Placed, Sound, Unfinished, At
<1>4. Timed(r)
  BY <1>1, <1>2 DEF Timed, Sound
<1>5. Served(r)
  <2>1. try[t].job = "queued" => ~try[t].silent
    BY <1>1 DEF Sound, Served
  <2>2. ServerTimeout(r.engine) \in Nat
    BY EngineAssumption DEF ServerTimeout
  <2> QED
    BY <1>1, <1>2, <2>1, <2>2 DEF Served, Sound, Unfinished, At
<1>6. Minds(t, r)
  BY <1>2 DEF Minds, Lonely
<1> QED
  BY <1>2, <1>3, <1>4, <1>5, <1>6 DEF Sound, r

-----------------------------------------------------------------------------
(* The steps of a client *)

\* End(t, how) is the update of lemma Ending.
LEMMA EndKeeps ==
    ASSUME IInv, NEW t \in Tries, NEW how \in Ends \ {"clip"}, Active(t), End(t, how),
           how = "failed" => try[t].job \in {"none", "failed"},
           how = "lost" /\ try[t].engine \in Avatars => try[t].job = "completed",
           /\ how = "timeout" /\ try[t].engine \in Servers
           /\ ServerTimeout(try[t].engine) < Timeout
           => try[t].shared \/ try[t].silent
    PROVE  IInv'
<1> DEFINE r == [Ended(try[t], how) EXCEPT !.job = try[t].job]
<1>1. Sound(t, r) /\ Minds(t, r)
  BY Ending
<1>2. try[t] \in TryStates /\ try \in [Tries -> TryStates]
  BY DEF IInv
<1>3. r = Ended(try[t], how)
  BY <1>2 DEF TryStates, Ended
<1>4. try' = [try EXCEPT ![t] = r]
  BY <1>3 DEF End
<1> QED
  BY <1>1, <1>4, OneTry

\* An answer that is not heard, or cannot be read, is one too.
LEMMA UnheardKeeps ==
    ASSUME IInv, NEW t \in Tries, NEW how \in {"lost", "outage", "broken"}, Active(t),
           Unheard(t, how), how = "lost" => try[t].engine \notin Avatars
    PROVE  IInv'
<1>1. PICK job : /\ job = try[t].job \/ (At(t, "submit") /\ job = "queued")
                 /\ try' = [try EXCEPT ![t] = [Ended(@, how) EXCEPT !.job = job]]
  BY DEF Unheard
<1> DEFINE r == [Ended(try[t], how) EXCEPT !.job = job]
<1>2. Sound(t, r) /\ Minds(t, r)
  BY <1>1, Ending DEF Ends
<1>3. try' = [try EXCEPT ![t] = r]
  BY <1>1
<1> QED
  BY <1>2, <1>3, OneTry

\* A queue client's step is an update of lemma Going.
LEMMA GoKeeps ==
    ASSUME IInv, NEW t \in Tries, NEW place \in {"submit", "backoff", "poll", "fetch"},
           NEW wait \in Nat, Active(t), ~At(t, "posted"), ~At(t, "package"),
           NEW job \in {"none", "queued", "completed", "failed"},
           job # try[t].job => At(t, "submit"),
           place \in {"submit", "backoff"} => job = "none",
           place = "fetch" /\ try[t].engine # "lenient" => job = "completed",
           TimedAt(try[t].engine, place, try[t].age + wait),
           \/ try' = [try EXCEPT ![t].at = place, ![t].wait = wait, ![t].job = job]
           \/ Go(t, place, wait) /\ job = try[t].job
    PROVE  IInv'
<1> DEFINE r == Moved(t, place, wait, job)
<1>1. Sound(t, r) /\ Minds(t, r)
  BY Going
<1>2. try[t] \in TryStates /\ try \in [Tries -> TryStates]
  BY DEF IInv
<1>3. CASE try' = [try EXCEPT ![t].at = place, ![t].wait = wait, ![t].job = job]
  <2>1. try' = [try EXCEPT ![t] = r]
    BY <1>2, <1>3 DEF Moved
  <2> QED
    BY <1>1, <2>1, OneTry
<1>4. CASE Go(t, place, wait) /\ job = try[t].job
  <2>1. r = [try[t] EXCEPT !.at = place, !.wait = wait]
    BY <1>2, <1>4 DEF Moved, TryStates
  <2>2. try' = [try EXCEPT ![t] = r]
    BY <1>2, <1>4, <2>1 DEF Go
  <2> QED
    BY <1>1, <2>2, OneTry
<1> QED
  BY <1>3, <1>4

\* What lemma Going asks of the time, and what it asks of a client's place.
LEMMA QueueFacts ==
    ASSUME IInv, NEW t \in Tries, try[t].at \in {"submit", "backoff", "poll", "fetch"}
    PROVE  /\ Active(t) /\ ~At(t, "posted") /\ ~At(t, "package")
           /\ try[t].engine \notin Servers
           /\ try[t].job \in {"none", "queued", "completed", "failed"}
           /\ try[t].at \in {"submit", "backoff"} => try[t].job = "none"
           /\ try[t].age \in Nat /\ try[t].wait \in Nat
           /\ Timeout \in Nat \ {0} /\ Cap \in Nat
<1>1. try[t] \in TryStates /\ Sound(t, try[t])
  BY DEF IInv
<1>2. Active(t) /\ ~At(t, "posted") /\ ~At(t, "package")
  BY DEF Active, At, Waiting
<1>3. try[t].engine \notin Servers /\ (try[t].at \in {"submit", "backoff"} => try[t].job = "none")
  BY <1>1 DEF Sound, Placed
<1>4. try[t].job \in {"none", "queued", "completed", "failed"}
  BY <1>1, <1>3 DEF Sound, Served, TryStates, Unfinished
<1>5. try[t].age \in Nat /\ try[t].wait \in Nat
  BY <1>1 DEF TryStates
<1> QED
  BY <1>2, <1>3, <1>4, <1>5, EngineAssumption

\* Refused, late, or waiting for a rate limit.
LEMMA Submitting ==
    ASSUME IInv, NEW t \in Tries, StrictSubmit(t) \/ SoraSubmit(t) \/ LenientSubmit(t)
    PROVE  IInv'
<1>1. At(t, "submit")
  BY DEF StrictSubmit, SoraSubmit, LenientSubmit, Submits
<1>2. /\ try[t].at = "submit" /\ try[t].job = "none"
      /\ try[t].age + try[t].wait <= IF try[t].engine = "sora2" THEN Timeout + Cap + 1 ELSE 1
  BY <1>1, QueueFacts DEF At, IInv, Sound, Timed, TimedAt
<1>3. CASE End(t, "failed") \/ End(t, "timeout")
  BY <1>2, <1>3, QueueFacts, EndKeeps DEF Ends
<1>4. CASE Accepted(t)
  <2>1. TimedAt(try[t].engine, "poll", try[t].age + 1)
    BY <1>2, QueueFacts DEF TimedAt, Slack, Strict
  <2> QED
    BY <1>1, <1>2, <1>4, <2>1, QueueFacts, GoKeeps DEF Accepted, At
<1>5. CASE /\ try[t].engine = "lenient"
           /\ try' = [try EXCEPT ![t].at = "fetch", ![t].wait = 1, ![t].job = "completed"]
  <2>1. TimedAt(try[t].engine, "fetch", try[t].age + 1)
    BY <1>2, <1>5, QueueFacts DEF TimedAt, Slack, Strict
  <2> QED
    BY <1>1, <1>2, <1>5, <2>1, QueueFacts, GoKeeps
<1>6. CASE /\ try[t].engine = "sora2" /\ ~Late(t)
           /\ \E seconds \in RetryAfters : Go(t, "backoff", RetryWait(seconds))
  <2>1. PICK seconds \in RetryAfters : Go(t, "backoff", RetryWait(seconds))
    BY <1>6
  <2>2. RetryWait(seconds) \in Nat /\ RetryWait(seconds) <= Cap
    BY EngineAssumption DEF RetryWait
  <2>3. TimedAt(try[t].engine, "backoff", try[t].age + RetryWait(seconds))
    BY <1>2, <1>6, <2>2, QueueFacts DEF TimedAt, Late
  <2> QED
    BY <1>1, <1>2, <2>1, <2>2, <2>3, QueueFacts, GoKeeps
<1>7. CASE try[t].engine \in {"sora2", "lenient"} /\ Unheard(t, "lost")
  BY <1>2, <1>7, QueueFacts, UnheardKeeps DEF Avatars
<1> QED
  BY <1>3, <1>4, <1>5, <1>6, <1>7 DEF StrictSubmit, SoraSubmit, LenientSubmit, Submits

\* A round of a poll loop: the deadline, an answer, the next round.
LEMMA Polling ==
    ASSUME IInv, NEW t \in Tries, StrictPoll(t) \/ SoraPoll(t) \/ LenientPoll(t)
    PROVE  IInv'
<1>1. At(t, "poll") /\ try[t].engine \in Strict \union {"lenient", "sora2"}
  BY DEF StrictPoll, SoraPoll, LenientPoll, Polls
<1>2. CASE End(t, "timeout") \/ End(t, "outage")
  BY <1>1, <1>2, QueueFacts, EndKeeps DEF At, Ends
<1>3. CASE try[t].job = "failed" /\ End(t, "failed")
  BY <1>1, <1>3, QueueFacts, EndKeeps DEF At, Ends
<1>4. CASE ~Late(t) /\ Go(t, "poll", 1)
  <2>1. TimedAt(try[t].engine, "poll", try[t].age + 1)
    BY <1>1, <1>4, QueueFacts DEF At, TimedAt, Slack, Strict, Late
  <2> QED
    BY <1>1, <1>4, <2>1, QueueFacts, GoKeeps DEF At
<1>5. ASSUME NEW wait \in Nat, ~Late(t), Go(t, "fetch", wait),
             try[t].job = "completed" \/ try[t].engine = "lenient",
             wait = 1 \/ (try[t].engine \in Strict /\ wait = Timeout)
      PROVE  IInv'
  <2>1. TimedAt(try[t].engine, "fetch", try[t].age + wait)
    BY <1>1, <1>5, QueueFacts DEF At, TimedAt, Slack, Strict, Late
  <2> QED
    BY <1>1, <1>5, <2>1, QueueFacts, GoKeeps DEF At
<1>6. \A a \in Answers(t) : /\ a = "done" => try[t].job = "completed"
                            /\ a = "failed" => try[t].job = "failed"
  BY DEF Answers
<1>7. Timeout \in Nat
  BY EngineAssumption
<1>8. CASE StrictPoll(t)
  BY <1>2, <1>3, <1>4, <1>5, <1>6, <1>7, <1>8 DEF StrictPoll, Polls
<1>9. CASE SoraPoll(t)
  BY <1>2, <1>3, <1>4, <1>5, <1>6, <1>9 DEF SoraPoll, Polls
<1>10. CASE LenientPoll(t)
  BY <1>2, <1>4, <1>5, <1>6, <1>10 DEF LenientPoll, Polls
<1> QED
  BY <1>8, <1>9, <1>10

\* The download of a render, and what becomes of it.
LEMMA Fetching ==
    ASSUME IInv, NEW t \in Tries, StrictFetch(t) \/ SoraFetch(t) \/ LenientFetch(t)
    PROVE  IInv'
<1>1. At(t, "fetch")
  BY DEF StrictFetch, SoraFetch, LenientFetch, Fetches
<1>2. try[t] \in TryStates /\ Sound(t, try[t]) /\ try \in [Tries -> TryStates]
  BY DEF IInv
<1>3. ASSUME NEW how \in {"package", "clip"}, try[t].job = "completed",
             \/ try' = [try EXCEPT ![t].clip = t, ![t].at = how, ![t].age = 0, ![t].wait = 0]
             \/ try' = [try EXCEPT ![t] = [Ended(@, how) EXCEPT !.clip = t]]
      PROVE  IInv'
  <2> DEFINE r == [try[t] EXCEPT !.at = how, !.age = 0, !.wait = 0, !.clip = t,
                                 !.job = "completed", !.ran = 0]
  <2>1. Sound(t, r) /\ Minds(t, r)
    BY <1>1, QueueFacts, Arriving DEF At
  <2>2. try[t].ran = 0
    BY <1>2, <1>3 DEF Sound, Served
  <2>3. r = [try[t] EXCEPT !.clip = t, !.at = how, !.age = 0, !.wait = 0]
    BY <1>2, <1>3, <2>2 DEF TryStates
  <2>4. r = [Ended(try[t], how) EXCEPT !.clip = t]
    BY <1>2, <1>3, <2>2 DEF TryStates, Ended
  <2>5. try' = [try EXCEPT ![t] = r]
    BY <1>2, <1>3, <2>3, <2>4
  <2> QED
    BY <2>1, <2>5, OneTry
<1>4. CASE SoraFetch(t) \/ StrictFetch(t)
  <2>1. try[t].job = "completed"
    BY <1>1, <1>2, <1>4 DEF SoraFetch, StrictFetch, Fetches, Strict, At, Sound, Placed
  <2>2. CASE End(t, "lost")
    BY <1>1, <2>1, <2>2, QueueFacts, EndKeeps DEF At, Ends
  <2> QED
    BY <1>3, <1>4, <2>1, <2>2 DEF SoraFetch, StrictFetch, Delivered
<1>5. CASE LenientFetch(t)
  <2>1. CASE End(t, "lost")
    BY <1>1, <1>5, <2>1, QueueFacts, EndKeeps DEF At, Ends, LenientFetch, Fetches, Avatars
  <2> QED
    BY <1>3, <1>5, <2>1 DEF LenientFetch, Delivered
<1> QED
  BY <1>4, <1>5

\* The other steps of a client.
LEMMA Concluding ==
    ASSUME IInv, NEW t \in Tries,
           GiveUp(t) \/ Wake(t) \/ Packaged(t) \/ Unpackaged(t) \/ Unreachable(t) \/ Cut(t)
    PROVE  IInv'
<1>1. try[t] \in TryStates /\ Sound(t, try[t]) /\ try \in [Tries -> TryStates]
  BY DEF IInv
<1>2. CASE GiveUp(t)
  <2>1. /\ try[t].engine \in Servers /\ ServerTimeout(try[t].engine) < Timeout
        => try[t].shared \/ try[t].silent
    <3>1. try[t].at = "posted" /\ try[t].wait = 0 /\ try[t].job \in {"queued", "running"}
      BY <1>1, <1>2 DEF GiveUp, At, Sound, Placed, Unfinished
    <3>2. try[t].age = Timeout /\ Timeout \in Nat \ {0}
      BY <1>1, <3>1, EngineAssumption DEF Sound, Timed, TryStates
    <3>3. ServerTimeout(try[t].engine) \in Nat /\ try[t].ran \in Nat
      BY <1>1, EngineAssumption DEF ServerTimeout, TryStates
    <3>4. ~try[t].shared => try[t].job = "running"
      BY <1>1, <3>1, <3>2 DEF Sound, Served
    <3>5. ~try[t].shared /\ ~try[t].silent => Timeout <= ServerTimeout(try[t].engine)
      BY <1>1, <3>1, <3>2, <3>4 DEF Sound, Served
    <3> QED
      BY <3>2, <3>3, <3>5
  <2> QED
    BY <1>2, <2>1, EndKeeps DEF GiveUp, Active, At, Waiting, Ends
<1>3. CASE Wake(t)
  <2>1. TimedAt(try[t].engine, "submit", try[t].age + 1)
    <3>1. try[t].at = "backoff" /\ try[t].wait = 0
      BY <1>3 DEF Wake, At
    <3>2. try[t].engine = "sora2" /\ try[t].age + 0 <= Timeout + Cap
      BY <1>1, <3>1 DEF TimedAt, Sound, Timed
    <3> QED
      BY <3>1, <3>2, QueueFacts DEF TimedAt
  <2> QED
    BY <1>3, <2>1, QueueFacts, GoKeeps DEF Wake, At
<1>4. CASE Packaged(t)
  <2> DEFINE r == [try[t] EXCEPT !.at = "clip", !.age = 0, !.wait = 0]
  <2>1. /\ r \in TryStates /\ r.at = "clip" /\ r.age = 0 /\ r.wait = 0 /\ r.job = try[t].job
        /\ r.engine = try[t].engine /\ r.ran = try[t].ran /\ r.silent = try[t].silent
        /\ r.shared = try[t].shared /\ r.clip = try[t].clip
    BY <1>1 DEF TryStates, Ends
  <2>2. try' = [try EXCEPT ![t] = r]
    BY <1>1, <1>4 DEF Packaged, End, Ended
  <2> HIDE DEF r
  <2>3. Sound(t, r)
    BY <1>1, <1>4, <2>1 DEF Packaged, At, Sound, Placed, Timed, TimedAt, Served
  <2>4. Minds(t, r)
    BY <1>4, <2>1 DEF Packaged, At, Minds, Active, Lonely
  <2> QED
    BY <2>2, <2>3, <2>4, OneTry
<1>5. CASE Unpackaged(t)
  BY <1>5, EndKeeps DEF Unpackaged, Active, At, Ends
<1>6. CASE Cut(t)
  BY <1>6, EndKeeps DEF Cut, Ends
<1>7. CASE Unreachable(t)
  BY <1>7, UnheardKeeps DEF Unreachable, Active, Waiting
<1> QED
  BY <1>2, <1>3, <1>4, <1>5, <1>6, <1>7

-----------------------------------------------------------------------------
(* The steps of an engine *)

LEMMA JobKeeps ==
    ASSUME IInv, NEW t \in Tries, NEW job \in {"completed", "failed"},
           try[t].job \in Unfinished, ~At(t, "posted"), NEW r,
           r = [try[t] EXCEPT !.job = job, !.ran = 0], try' = [try EXCEPT ![t] = r]
    PROVE  IInv'
<1> DEFINE w == [try[t] EXCEPT !.job = job, !.ran = 0, !.silent = try[t].silent]
<1>1. try[t] \in TryStates
  BY DEF IInv
<1>2. try[t].silent \in BOOLEAN
  BY <1>1 DEF TryStates
<1>3. Sound(t, w) /\ Minds(t, w)
  BY <1>2, Working
<1>4. w = r
  BY <1>1 DEF TryStates
<1> QED
  BY <1>3, <1>4, OneTry

\* A server's answer, whether or not its client still waits.
LEMMA Replying ==
    ASSUME IInv, NEW t \in Tries, try[t].job \in Unfinished,
           \/ Reply(t, "completed", "package", Newest(t))
           \/ Reply(t, "failed", "failed", NoClip)
    PROVE  IInv'
<1>1. try[t] \in TryStates /\ try \in [Tries -> TryStates]
  BY DEF IInv
<1>2. CASE ~At(t, "posted")
  <2>1. PICK job \in {"completed", "failed"} :
              try' = [try EXCEPT ![t] = [try[t] EXCEPT !.job = job, !.ran = 0]]
    <3>1. CASE Reply(t, "completed", "package", Newest(t))
      BY <1>1, <1>2, <3>1 DEF Reply, At, TryStates
    <3>2. CASE Reply(t, "failed", "failed", NoClip)
      BY <1>1, <1>2, <3>2 DEF Reply, At, TryStates
    <3> QED
      BY <3>1, <3>2
  <2> QED
    BY <1>2, <2>1, JobKeeps
<1>3. CASE At(t, "posted") /\ Reply(t, "completed", "package", Newest(t))
  <2> DEFINE r == [try[t] EXCEPT !.at = "package", !.age = 0, !.wait = 0, !.clip = t,
                                 !.job = "completed", !.ran = 0]
  <2>1. Sound(t, r) /\ Minds(t, r)
    BY <1>3, Arriving DEF At, Active, Waiting
  <2>2. [[try[t] EXCEPT !.job = "completed", !.ran = 0]
           EXCEPT !.at = "package", !.age = 0, !.wait = 0, !.clip = t] = r
    BY <1>1 DEF TryStates
  <2>3. try' = [try EXCEPT ![t] = r]
    BY <1>1, <1>3, <2>2 DEF Reply, At, Newest, TryStates
  <2> QED
    BY <2>1, <2>3, OneTry
<1>4. CASE At(t, "posted") /\ Reply(t, "failed", "failed", NoClip)
  <2> DEFINE r == [try[t] EXCEPT !.at = "failed", !.age = 0, !.wait = 0,
                                 !.job = "failed", !.ran = 0]
  <2>1. Sound(t, r) /\ Minds(t, r)
    BY <1>4, Refusing
  <2>2. Ended([try[t] EXCEPT !.job = "failed", !.ran = 0], "failed") = r
    BY <1>1 DEF Ended, TryStates
  <2>3. try' = [try EXCEPT ![t] = r]
    BY <1>1, <1>4, <2>2 DEF Reply, At, TryStates
  <2> QED
    BY <2>1, <2>3, OneTry
<1> QED
  BY <1>2, <1>3, <1>4

LEMMA Serving ==
    ASSUME IInv, NEW t \in Tries, Manages(t) \/ Exits(t) \/ EngineEnds(t)
    PROVE  IInv'
<1>1. try[t] \in TryStates /\ Sound(t, try[t]) /\ try \in [Tries -> TryStates]
  BY DEF IInv
<1>2. CASE EngineEnds(t)
  <2>1. PICK job \in {"completed", "failed"} : try' = [try EXCEPT ![t].job = job]
    BY <1>2 DEF EngineEnds
  <2>2. try[t].job = "queued" /\ ~At(t, "posted") /\ try[t].ran = 0
    BY <1>1, <1>2 DEF EngineEnds, At, Sound, Placed, Served
  <2>3. [try[t] EXCEPT !.job = job] = [try[t] EXCEPT !.job = job, !.ran = 0]
    BY <1>1, <2>2 DEF TryStates
  <2> QED
    BY <2>1, <2>2, <2>3, JobKeeps DEF Unfinished
<1>3. CASE Starts(t)
  <2>1. PICK silent \in BOOLEAN : try' = [try EXCEPT ![t].job = "running", ![t].silent = silent]
    BY <1>3 DEF Starts
  <2>2. try[t].job = "queued" /\ try[t].engine \in Servers /\ try[t].ran = 0
    BY <1>1, <1>3 DEF Starts, Sound, Served
  <2> DEFINE r == [try[t] EXCEPT !.job = "running", !.ran = 0, !.silent = silent]
  <2>3. r = [try[t] EXCEPT !.job = "running", !.silent = silent]
    BY <1>1, <2>2 DEF TryStates
  <2>4. try' = [try EXCEPT ![t] = r]
    BY <1>1, <2>1, <2>3
  <2>5. Sound(t, r) /\ Minds(t, r)
    BY <2>2, Working DEF Unfinished
  <2> QED
    BY <2>4, <2>5, OneTry
<1>4. CASE Declines(t) \/ Killed(t) \/ Exits(t)
  BY <1>4, Replying DEF Declines, Killed, Overdue, Runs, Exits, Unfinished
<1> QED
  BY <1>2, <1>3, <1>4 DEF Manages

-----------------------------------------------------------------------------
(* The first step of a try, and the clock *)

\* A try follows the failures of all the earlier ones.
LEMMA Following ==
    ASSUME IInv, NEW t \in Tries, NEW e, MayBegin(t, e), try' \in [Tries -> TryStates],
           \A s \in Tries \ {t} : try'[s].at = try[s].at
    PROVE  Ordered'
<1> SUFFICES ASSUME NEW s \in Tries, NEW m \in 1 .. MaxTries, m < s[2], try'[s].at # "new"
             PROVE  try'[<<s[1], m>>].at \in Retryable
  BY DEF Ordered
<1>1. /\ <<s[1], m>> \in Tries /\ s[2] \in 1 .. MaxTries /\ s[1] \in Callers /\ s = <<s[1], s[2]>>
      /\ t[2] \in 1 .. MaxTries /\ t[1] \in Callers /\ t = <<t[1], t[2]>> /\ MaxTries \in Nat
  BY EngineAssumption DEF Tries
<1>2. CASE s = t
  <2>1. t[2] > 1 /\ try[<<t[1], t[2] - 1>>].at \in Retryable
    BY <1>1, <1>2 DEF MayBegin, Retryable
  <2>2. <<t[1], t[2] - 1>> \in Tries
    BY <1>1, <2>1 DEF Tries
  <2>3. CASE m = t[2] - 1
    BY <1>1, <1>2, <2>1, <2>3
  <2>4. CASE m # t[2] - 1
    <3> DEFINE last == <<t[1], t[2] - 1>>
    <3>1. m < last[2] /\ last[1] = t[1]
      BY <1>1, <1>2, <2>4
    <3>2. try[last].at # "new"
      BY <2>1 DEF Retryable
    <3>3. try[<<t[1], m>>].at \in Retryable
      BY <2>2, <3>1, <3>2 DEF IInv, Ordered
    <3> QED
      BY <1>1, <1>2, <3>3
  <2> QED
    BY <2>3, <2>4
<1>3. CASE s # t
  <2>1. try[<<s[1], m>>].at \in Retryable
    BY <1>3 DEF IInv, Ordered
  <2>2. <<s[1], m>> # t
    BY <2>1 DEF MayBegin, At, Retryable
  <2> QED
    BY <1>1, <2>1, <2>2
<1> QED
  BY <1>2, <1>3

\* A request to a queue.
LEMMA Beginning ==
    ASSUME IInv, NEW t \in Tries, NEW e \in Engines, Begin(t, e)
    PROVE  IInv'
<1> DEFINE r == [Fresh EXCEPT !.engine = e, !.at = "submit", !.wait = 1]
<1>1. try \in [Tries -> TryStates] /\ e \notin Servers /\ MayBegin(t, e)
  BY DEF IInv, Begin
<1>2. /\ r \in TryStates /\ r.at = "submit" /\ r.age = 0 /\ r.wait = 1 /\ r.job = "none"
      /\ r.engine = e /\ r.ran = 0 /\ r.silent = FALSE
  BY DEF Fresh, TryStates, Waiting
<1>3. try' \in [Tries -> TryStates] /\ \A s \in Tries : try'[s] = IF s = t THEN r ELSE try[s]
  BY <1>1, <1>2 DEF Begin
<1> HIDE DEF r
<1>4. Sound(t, r)
  BY <1>1, <1>2, EngineAssumption DEF Sound, Placed, Timed, TimedAt, Served, Servers
<1>5. ASSUME NEW s \in Tries PROVE Sound(s, try'[s])
  BY <1>3, <1>4 DEF IInv
<1>6. Ordered'
  BY <1>1, <1>3, Following
<1>7. ASSUME NEW q \in Tries, NEW s \in Tries, s # q, Lonely(try'[q]),
             try'[s].engine = try'[q].engine
      PROVE  try'[s].job \notin Unfinished
  BY <1>2, <1>3, <1>7 DEF IInv, Undisturbed, Lonely, Unfinished
<1> QED
  BY <1>3, <1>5, <1>6, <1>7 DEF IInv, Undisturbed, Lonely, Sound, Placed, Timed, TimedAt, Served

\* A request to a model server: whoever is there already has company now.
LEMMA Posting ==
    ASSUME IInv, NEW t \in Tries, NEW e \in Engines, Post(t, e)
    PROVE  IInv'
<1> DEFINE r == [Fresh EXCEPT !.engine = e, !.at = "posted", !.wait = Timeout,
                              !.job = "queued", !.shared = Others(t, e) # {}]
           Crowded(s) == [try[s] EXCEPT !.shared =
                            @ \/ (s \in Others(t, e) /\ try[s].job = "queued")]
<1>1. try \in [Tries -> TryStates] /\ e \in Servers /\ MayBegin(t, e)
  BY DEF IInv, Post
<1>2. /\ r \in TryStates /\ r.at = "posted" /\ r.age = 0 /\ r.wait = Timeout /\ r.job = "queued"
      /\ r.engine = e /\ r.ran = 0 /\ r.silent = FALSE /\ r.shared = (Others(t, e) # {})
  BY EngineAssumption DEF Fresh, TryStates, Waiting, Unfinished
<1>2a. ~r.shared => Others(t, e) = {}
  BY DEF Fresh
<1>2b. \A s \in Others(t, e) : try[s].job = "queued" => Crowded(s).shared
  BY <1>1 DEF TryStates, Others
<1>3. \A s \in Tries :
        /\ Crowded(s) \in TryStates
        /\ Crowded(s).at = try[s].at /\ Crowded(s).age = try[s].age
        /\ Crowded(s).wait = try[s].wait /\ Crowded(s).job = try[s].job
        /\ Crowded(s).engine = try[s].engine /\ Crowded(s).ran = try[s].ran
        /\ Crowded(s).silent = try[s].silent /\ Crowded(s).clip = try[s].clip
        /\ Crowded(s).shared = (try[s].shared \/ (s \in Others(t, e) /\ try[s].job = "queued"))
  BY <1>1, ZenonT(30) DEF TryStates
<1>4. \A s \in Tries : try'[s] = IF s = t THEN r ELSE Crowded(s)
  BY DEF Post
<1>5. try' \in [Tries -> TryStates]
  BY <1>1, <1>2, <1>3, <1>4 DEF Post
<1> HIDE DEF r, Crowded
<1>6. Sound(t, r)
  BY <1>1, <1>2, EngineAssumption DEF Sound, Placed, Timed, TimedAt, Served, Unfinished
<1>7. ASSUME NEW s \in Tries PROVE Sound(s, Crowded(s))
  <2>1. Sound(s, try[s])
    BY DEF IInv
  <2>2. Placed(s, Crowded(s))
    BY <1>3, <2>1 DEF Sound, Placed
  <2>3. Timed(Crowded(s))
    BY <1>3, <2>1 DEF Sound, Timed
  <2>4. Served(Crowded(s))
    BY <1>3, <2>1 DEF Sound, Served
  <2> QED
    BY <1>3, <2>2, <2>3, <2>4 DEF Sound
<1>8. ASSUME NEW s \in Tries PROVE Sound(s, try'[s])
  BY <1>4, <1>6, <1>7
<1>9. Ordered'
  BY <1>1, <1>3, <1>4, <1>5, Following
<1>10. ASSUME NEW q \in Tries, NEW s \in Tries, s # q, Lonely(try'[q]),
              try'[s].engine = try'[q].engine
       PROVE  try'[s].job \notin Unfinished
  <2>1. CASE q = t
    <3>1. Others(t, e) = {}
      BY <1>4, <1>10, <1>2a, <2>1 DEF Lonely
    <3>2. try[s].engine = e /\ try'[s].job = try[s].job /\ s \in Tries \ {t}
      BY <1>2, <1>3, <1>4, <1>10, <2>1
    <3> QED
      BY <3>1, <3>2 DEF Others
  <2>2. CASE s = t
    <3>1. try[q].engine = e /\ try[q].job = "queued" /\ q \in Tries \ {t} /\ ~Crowded(q).shared
      BY <1>2, <1>3, <1>4, <1>10, <2>2 DEF Lonely
    <3>2. q \in Others(t, e)
      BY <3>1 DEF Others, Unfinished
    <3> QED
      BY <1>2b, <3>1, <3>2
  <2>3. CASE q # t /\ s # t
    <3>1. Lonely(try[q]) /\ try[s].engine = try[q].engine
      BY <1>3, <1>4, <1>10, <2>3 DEF Lonely
    <3>2. try[s].job \notin Unfinished
      BY <1>10, <3>1 DEF IInv, Undisturbed
    <3> QED
      BY <1>3, <1>4, <2>3, <3>2
  <2> QED
    BY <2>1, <2>2, <2>3
<1> QED
  BY <1>5, <1>8, <1>9, <1>10 DEF IInv, Undisturbed, Lonely, Sound, Placed, Timed, TimedAt, Served

\* Nobody is due, so no wait is over and a server has started what it can.
LEMMA Ticking ==
    ASSUME IInv, Tick
    PROVE  IInv'
<1> DEFINE w(s) == [try[s] EXCEPT
                      !.age = IF try[s].at \in Waiting THEN @ + 1 ELSE @,
                      !.wait = Waited(@),
                      !.ran = IF Runs(s) /\ @ < ServerTimeout(try[s].engine) THEN @ + 1 ELSE @]
<1>1. try \in [Tries -> TryStates] /\ \A s \in Tries : try[s] \in TryStates /\ ~Due(s)
  BY DEF IInv, Tick
<1>2. \A s \in Tries :
        /\ w(s) \in TryStates
        /\ w(s).at = try[s].at /\ w(s).job = try[s].job /\ w(s).engine = try[s].engine
        /\ w(s).silent = try[s].silent /\ w(s).shared = try[s].shared
        /\ w(s).clip = try[s].clip
        /\ w(s).age = IF try[s].at \in Waiting THEN try[s].age + 1 ELSE try[s].age
        /\ w(s).wait = Waited(try[s].wait)
        /\ w(s).ran = IF Runs(s) /\ try[s].ran < ServerTimeout(try[s].engine)
                      THEN try[s].ran + 1 ELSE try[s].ran
  <2> SUFFICES ASSUME NEW s \in Tries PROVE
        /\ w(s) \in TryStates
        /\ w(s).at = try[s].at /\ w(s).job = try[s].job /\ w(s).engine = try[s].engine
        /\ w(s).silent = try[s].silent /\ w(s).shared = try[s].shared
        /\ w(s).clip = try[s].clip
        /\ w(s).age = IF try[s].at \in Waiting THEN try[s].age + 1 ELSE try[s].age
        /\ w(s).wait = Waited(try[s].wait)
        /\ w(s).ran = IF Runs(s) /\ try[s].ran < ServerTimeout(try[s].engine)
                      THEN try[s].ran + 1 ELSE try[s].ran
    OBVIOUS
  <2> DEFINE age == IF try[s].at \in Waiting THEN try[s].age + 1 ELSE try[s].age
             ran == IF Runs(s) /\ try[s].ran < ServerTimeout(try[s].engine)
                    THEN try[s].ran + 1 ELSE try[s].ran
  <2>1. try[s] \in TryStates
    BY <1>1
  <2>2. age \in Nat /\ ran \in Nat /\ Waited(try[s].wait) \in Nat
    BY <2>1 DEF TryStates, Waited
  <2>3. w(s) = [try[s] EXCEPT !.age = age, !.wait = Waited(try[s].wait), !.ran = ran]
    BY <2>1 DEF TryStates
  <2> HIDE DEF w, age, ran
  <2>4. /\ w(s) \in TryStates
        /\ w(s).at = try[s].at /\ w(s).job = try[s].job /\ w(s).engine = try[s].engine
        /\ w(s).silent = try[s].silent /\ w(s).shared = try[s].shared
        /\ w(s).clip = try[s].clip
        /\ w(s).age = age /\ w(s).wait = Waited(try[s].wait) /\ w(s).ran = ran
    BY <2>1, <2>2, <2>3 DEF TryStates
  <2> QED
    BY <2>4 DEF age, ran
<1>3. try' = [s \in Tries |-> w(s)]
  BY DEF Tick
<1> HIDE DEF w
<1>4. ASSUME NEW s \in Tries PROVE Sound(s, w(s))
  <2>1. Sound(s, try[s]) /\ ~Due(s) /\ try[s] \in TryStates
    BY <1>1 DEF IInv
  <2>2. Placed(s, w(s))
    BY <1>2, <2>1 DEF Sound, Placed
  <2>3. /\ try[s].age \in Nat /\ try[s].wait \in Nat /\ try[s].ran \in Nat
        /\ ServerTimeout(try[s].engine) \in Nat /\ Timeout \in Nat
    BY <2>1, EngineAssumption DEF TryStates, ServerTimeout
  <2>4. try[s].at \in Waiting => w(s).age + w(s).wait = try[s].age + try[s].wait
    BY <1>2, <2>1, <2>3 DEF Due, Waited
  <2>5. Timed(w(s))
    <3>1. try[s].at = "package" => w(s).age = 0
      BY <1>2, <2>1 DEF Sound, Timed, Waiting
    <3>2. try[s].at \in Waiting => TimedAt(w(s).engine, w(s).at, w(s).age + w(s).wait)
      BY <1>2, <2>1, <2>4 DEF Sound, Timed
    <3>3. try[s].at \notin Waiting => TimedAt(w(s).engine, w(s).at, w(s).age + w(s).wait)
      BY <1>2 DEF TimedAt, Waiting
    <3>4. try[s].at = "posted" => w(s).age + w(s).wait = Timeout
      BY <2>1, <2>4 DEF Sound, Timed, Waiting
    <3> QED
      BY <1>2, <3>1, <3>2, <3>3, <3>4 DEF Timed
  <2>6. Served(w(s))
    <3>1. try[s].job = "running" => try[s].engine \in Servers
      BY <2>1 DEF Sound, Served
    <3>2. try[s].job # "running" => w(s).ran = 0
      BY <1>2, <2>1 DEF Sound, Served, Runs
    <3>3. try[s].job = "running" /\ ~try[s].silent => w(s).ran = try[s].ran + 1
      BY <1>2, <2>1, <2>3, <3>1 DEF Due, Overdue, Runs
    <3>4. try[s].job = "running" /\ ~try[s].silent => try[s].ran < ServerTimeout(try[s].engine)
      BY <2>1, <2>3, <3>1 DEF Due, Overdue, Runs
    <3>5. ~(try[s].at = "posted" /\ ~try[s].shared /\ try[s].job = "queued")
      <4> SUFFICES ASSUME Lonely(try[s]) PROVE FALSE
        BY DEF Lonely
      <4>1. try[s].engine \in Servers /\ ~Free(try[s].engine)
        BY <2>1 DEF Lonely, Due, At, Sound, Placed
      <4>2. PICK q \in Tries : try[q].engine = try[s].engine /\ try[q].job = "running"
        BY <4>1 DEF Free
      <4> QED
        BY <4>2 DEF Lonely, IInv, Undisturbed, Unfinished
    <3>6. try[s].at = "posted" => w(s).age = try[s].age + 1
      BY <1>2 DEF Waiting
    <3> QED
      BY <1>2, <2>1, <2>3, <3>2, <3>3, <3>4, <3>5, <3>6 DEF Sound, Served
  <2> QED
    BY <1>2, <2>2, <2>5, <2>6 DEF Sound
<1>5. try' \in [Tries -> TryStates] /\ \A s \in Tries : try'[s] = w(s) /\ Sound(s, try'[s])
  BY <1>2, <1>3, <1>4
<1>6. ASSUME NEW s \in Tries, NEW m \in 1 .. MaxTries, m < s[2], try'[s].at # "new"
      PROVE  try'[<<s[1], m>>].at \in Retryable
  <2>1. <<s[1], m>> \in Tries
    BY DEF Tries
  <2> QED
    BY <1>2, <1>5, <1>6, <2>1 DEF IInv, Ordered
<1>7. ASSUME NEW q \in Tries, NEW s \in Tries, s # q, Lonely(try'[q]),
             try'[s].engine = try'[q].engine
      PROVE  try'[s].job \notin Unfinished
  BY <1>2, <1>5, <1>7 DEF IInv, Undisturbed, Lonely
<1> QED
  BY <1>5, <1>6, <1>7 DEF IInv, Ordered, Undisturbed, Lonely, Sound, Placed, Timed, TimedAt, Served

-----------------------------------------------------------------------------
(* The theorems *)

LEMMA Base == Init => IInv
<1> SUFFICES ASSUME Init PROVE IInv
  OBVIOUS
<1>1. /\ Fresh \in TryStates /\ Fresh.at = "new" /\ Fresh.engine = "none" /\ Fresh.job = "none"
      /\ Fresh.ran = 0 /\ Fresh.silent = FALSE
  BY DEF Fresh, TryStates
<1>2. try \in [Tries -> TryStates] /\ \A t \in Tries : try[t] = Fresh
  BY <1>1 DEF Init
<1> HIDE DEF Fresh
<1>3. \A t \in Tries : Sound(t, Fresh)
  BY <1>1 DEF Sound, Placed, Timed, TimedAt, Served, Servers
<1>4. Undisturbed
  BY <1>1, <1>2 DEF Undisturbed, Lonely
<1>5. Ordered
  BY <1>1, <1>2 DEF Ordered
<1> QED
  BY <1>2, <1>3, <1>4, <1>5 DEF IInv

LEMMA Step == IInv /\ [Next]_try => IInv'
<1> SUFFICES ASSUME IInv, [Next]_try PROVE IInv'
  OBVIOUS
<1>1. CASE UNCHANGED try
  BY <1>1 DEF IInv, Ordered, Undisturbed, Lonely, Sound, Placed, Timed, TimedAt, Served
<1>2. CASE Tick
  BY <1>2, Ticking
<1>3. ASSUME NEW t \in Tries, NEW e \in Engines, Post(t, e) \/ Begin(t, e) PROVE IInv'
  BY <1>3, Posting, Beginning
<1>4. ASSUME NEW t \in Tries, Proceed(t) PROVE IInv'
  BY <1>4, Submitting, Polling, Fetching, Concluding DEF Proceed
<1>5. ASSUME NEW t \in Tries, Unreachable(t) \/ Cut(t) PROVE IInv'
  BY <1>5, Concluding
<1>6. ASSUME NEW t \in Tries, Manages(t) \/ Exits(t) \/ EngineEnds(t) PROVE IInv'
  BY <1>6, Serving
<1> QED
  BY <1>1, <1>2, <1>3, <1>4, <1>5, <1>6 DEF Next

LEMMA Inductive == Spec => []IInv
BY Base, Step, PTL DEF Spec

\* The state of every try has its type, for any callers and timeouts.
THEOREM TypeCorrect == Spec => []TypeOK
<1>1. IInv => TypeOK
  BY DEF IInv, TypeOK
<1> QED
  BY <1>1, Inductive, PTL

\* A caller gets the clip of its own last try (Newest, the packaging, the
\* node's retry), never the late render of an abandoned one.
THEOREM ClipOwn == Spec => []ClipIsOwn
<1>1. IInv => ClipIsOwn
  <2> SUFFICES ASSUME IInv, NEW t \in Tries
               PROVE  /\ At(t, "clip") \/ At(t, "package") => try[t].clip = t /\ try[t].job = "completed"
                      /\ At(t, "clip") => \A n \in t[2] + 1 .. MaxTries : At(<<t[1], n>>, "new")
    BY DEF ClipIsOwn
  <2>1. At(t, "clip") \/ At(t, "package") => try[t].clip = t /\ try[t].job = "completed"
    BY DEF IInv, Sound, Placed, At
  <2>2. ASSUME At(t, "clip"), NEW n \in t[2] + 1 .. MaxTries PROVE At(<<t[1], n>>, "new")
    <3>1. /\ t[1] \in Callers /\ t[2] \in 1 .. MaxTries /\ t = <<t[1], t[2]>>
          /\ MaxTries \in Nat
      BY EngineAssumption DEF Tries
    <3>2. n \in 1 .. MaxTries /\ t[2] < n
      BY <3>1
    <3>3. <<t[1], n>> \in Tries
      BY <3>1, <3>2 DEF Tries
    <3> DEFINE s == <<t[1], n>>
    <3>4. s[1] = t[1] /\ s[2] = n
      OBVIOUS
    <3>5. try[s].at # "new" => try[<<s[1], t[2]>>].at \in Retryable
      BY <3>1, <3>2, <3>3, <3>4 DEF IInv, Ordered
    <3> QED
      BY <2>2, <3>1, <3>4, <3>5 DEF At, Retryable
  <2> QED
    BY <2>1, <2>2
<1> QED
  BY <1>1, Inductive, PTL

\* An avatar client that has heard the engine and reports its error leaves no
\* job that still goes on, and one that is billed only if it was rendered and
\* its result could not be had (StrictFetch): for any engines and timeouts.
THEOREM FailureOver == Spec => []FailureIsOver
<1>1. IInv => FailureIsOver
  BY DEF IInv, FailureIsOver, Sound, Placed, At
<1> QED
  BY <1>1, Inductive, PTL

\* A model server that has one client, a limit below that client's timeout
\* and a process that prints answers before the client gives up.
THEOREM AnswersFirst == Spec => []ServerAnswersFirst
<1>1. IInv => ServerAnswersFirst
  BY DEF IInv, ServerAnswersFirst, Sound, Served, At
<1> QED
  BY <1>1, Inductive, PTL

\* A client is done at most Slack after its timeout, whatever Retry-After the
\* engine sends and however often it answers "pending".
THEOREM Deadline == Spec => []WithinDeadline
<1>1. IInv => WithinDeadline
  <2> SUFFICES ASSUME IInv, NEW t \in Tries, Active(t)
               PROVE  try[t].age <= Timeout + Slack(try[t].engine)
    BY DEF WithinDeadline
  <2>1. /\ try[t].age \in Nat /\ try[t].wait \in Nat /\ Timeout \in Nat \ {0} /\ Cap \in Nat
        /\ Timed(try[t])
    BY EngineAssumption DEF IInv, TryStates, Sound
  <2>2. Slack(try[t].engine) \in Nat
    BY <2>1 DEF Slack
  <2>3. CASE try[t].at \in {"posted", "package", "poll", "fetch"}
    BY <2>1, <2>2, <2>3 DEF Timed, TimedAt
  <2>4. CASE try[t].at \in {"submit", "backoff"}
    BY <2>1, <2>2, <2>4 DEF Timed, TimedAt, Slack, Strict
  <2> QED
    BY <2>3, <2>4 DEF Active, Waiting
<1> QED
  BY <1>1, Inductive, PTL

-----------------------------------------------------------------------------
(* The contract *)

\* Where the contract sees a try, and whether it is billed.
Place(r) ==
    IF r.at = "new" THEN "new"
    ELSE IF r.at \in Waiting \union {"package"} THEN "open"
    ELSE IF r.at = "failed" THEN "refused"
    ELSE IF r.at \in Retryable THEN "lost"
    ELSE IF r.at \in {"broken", "cut"} THEN "dropped"
    ELSE "delivered"
Paid(r) == r.job = "completed"

\* The steps the contract allows a try that is at place p and paid for or not.
Allowed(t, p, q, paid, pays) ==
    \/ p = q /\ paid = pays
    \/ p = q /\ p \notin {"new", "refused"} /\ ~paid /\ pays
    \/ p = "open" /\ q \in {"lost", "dropped"} /\ paid = pays
    \/ p = "open" /\ q = "refused" /\ ~paid /\ ~pays
    \/ p = "open" /\ q = "delivered" /\ paid /\ pays
    \/ /\ p = "new" /\ q = "open" /\ paid = pays
       /\ \/ t[2] = 1
          \/ /\ t[1] \in Nodes /\ <<t[1], t[2] - 1>> \in Tries
             /\ Place(try[<<t[1], t[2] - 1>>]) \in {"refused", "lost"}

LEMMA Places ==
    ASSUME NEW r \in TryStates
    PROVE  /\ (r.at \in Waiting \union {"package"}) <=> (Place(r) = "open")
           /\ (r.at = "failed") <=> (Place(r) = "refused")
           /\ (r.at \in Retryable \ {"failed"}) <=> (Place(r) = "lost")
           /\ (r.at \in {"broken", "cut"}) <=> (Place(r) = "dropped")
           /\ (r.at = "clip") <=> (Place(r) = "delivered")
           /\ Place(r) \in {"new", "open", "refused", "lost", "dropped", "delivered"}
<1>1. r.at \in {"new", "package"} \union Waiting \union Ends
  BY DEF TryStates
<1> QED
  BY <1>1 DEF Place, Waiting, Ends, Retryable

\* The tries at a place of the contract.
AtPlace(p) == {t \in Tries : Place(try[t]) = p}
Billed == {t \in Tries : Paid(try[t])}

\* The variables of the contract, now ...
LEMMA Mapping ==
    ASSUME try \in [Tries -> TryStates]
    PROVE  /\ {t \in Tries : Active(t)} = AtPlace("open")
           /\ {t \in Tries : Refused(t)} = AtPlace("refused")
           /\ {t \in Tries : Lost(t)} = AtPlace("lost")
           /\ {t \in Tries : try[t].at \in {"broken", "cut"}} = AtPlace("dropped")
           /\ {t \in Tries : At(t, "clip")} = AtPlace("delivered")
           /\ {t \in Tries : try[t].job = "completed"} = Billed
<1>1. \A t \in Tries : try[t] \in TryStates
  OBVIOUS
<1>2. \A t \in Tries : /\ Active(t) <=> (Place(try[t]) = "open")
                       /\ Refused(t) <=> (Place(try[t]) = "refused")
                       /\ Lost(t) <=> (Place(try[t]) = "lost")
                       /\ (try[t].at \in {"broken", "cut"}) <=> (Place(try[t]) = "dropped")
                       /\ At(t, "clip") <=> (Place(try[t]) = "delivered")
  BY <1>1, Places DEF Active, Refused, Lost, At, Retryable
<1> QED
  BY <1>2 DEF AtPlace, Billed, Paid

\* ... and after a step.
LEMMA MappingNext ==
    ASSUME (try \in [Tries -> TryStates])'
    PROVE  /\ {t \in Tries : Active(t)'} = AtPlace("open")'
           /\ {t \in Tries : Refused(t)'} = AtPlace("refused")'
           /\ {t \in Tries : Lost(t)'} = AtPlace("lost")'
           /\ {t \in Tries : try'[t].at \in {"broken", "cut"}} = AtPlace("dropped")'
           /\ {t \in Tries : At(t, "clip")'} = AtPlace("delivered")'
           /\ {t \in Tries : try'[t].job = "completed"} = Billed'
<1>1. \A t \in Tries : try'[t] \in TryStates
  OBVIOUS
<1>2. \A t \in Tries : /\ Active(t)' <=> (Place(try'[t]) = "open")
                       /\ Refused(t)' <=> (Place(try'[t]) = "refused")
                       /\ Lost(t)' <=> (Place(try'[t]) = "lost")
                       /\ (try'[t].at \in {"broken", "cut"}) <=> (Place(try'[t]) = "dropped")
                       /\ At(t, "clip")' <=> (Place(try'[t]) = "delivered")
  BY <1>1, Places DEF Active, Refused, Lost, At, Retryable
<1> QED
  BY <1>2 DEF AtPlace, Billed, Paid

\* A step of one try that the contract allows is one of its steps.
LEMMA Keeping ==
    ASSUME try \in [Tries -> TryStates], try' \in [Tries -> TryStates], NEW t \in Tries,
           \A s \in Tries \ {t} : /\ Place(try'[s]) = Place(try[s])
                                  /\ Paid(try'[s]) = Paid(try[s]),
           Allowed(t, Place(try[t]), Place(try'[t]), Paid(try[t]), Paid(try'[t]))
    PROVE  [Contract!Next]_Contract!vars
<1> DEFINE places == {"new", "open", "refused", "lost", "dropped", "delivered"}
<1>0. Place(try[t]) \in places /\ Place(try'[t]) \in places
  BY Places
<1> PICK p \in places : p = Place(try[t])
  BY <1>0
<1> PICK q \in places : q = Place(try'[t])
  BY <1>0
<1>1. p = Place(try[t]) /\ q = Place(try'[t]) /\ p \in places /\ q \in places
  OBVIOUS
<1>2. \A x \in places : /\ x \notin {p, q} => AtPlace(x)' = AtPlace(x)
                        /\ p = q => AtPlace(x)' = AtPlace(x)
  BY DEF AtPlace
<1>3. p # q => AtPlace(p)' = AtPlace(p) \ {t} /\ AtPlace(q)' = AtPlace(q) \union {t}
  BY DEF AtPlace
<1>4. t \in AtPlace(p) /\ \A x \in places \ {p} : t \notin AtPlace(x)
  BY DEF AtPlace
<1>5. /\ Paid(try[t]) <=> t \in Billed
      /\ (Paid(try'[t]) <=> Paid(try[t])) => Billed' = Billed
      /\ ~Paid(try[t]) /\ Paid(try'[t]) => Billed' = Billed \union {t}
  BY DEF Billed
<1> DEFINE V == <<AtPlace("open"), AtPlace("refused"), AtPlace("lost"), AtPlace("dropped"),
                  AtPlace("delivered"), Billed>>
<1>6. Contract!vars = V /\ Contract!vars' = V'
  BY Mapping, MappingNext DEF Contract!vars
<1>7. CASE p = q /\ Paid(try[t]) = Paid(try'[t])
  <2>1. V' = V
    BY <1>2, <1>5, <1>7
  <2> HIDE DEF V
  <2> QED
    BY <1>6, <2>1
<1> HIDE DEF V
<1>8. CASE p = q /\ p \notin {"new", "refused"} /\ ~Paid(try[t]) /\ Paid(try'[t])
  <2>1. /\ t \in AtPlace(p) /\ t \notin AtPlace("refused") /\ Billed' = Billed \union {t}
        /\ \A x \in places : AtPlace(x)' = AtPlace(x)
    BY <1>1, <1>2, <1>4, <1>5, <1>8
  <2>2. Contract!Bill(t)
    BY <1>1, <1>8, <2>1, Mapping, MappingNext DEF Contract!Bill, Contract!Begun
  <2> QED
    BY <2>2 DEF Contract!Next, Contract!Tries, Tries
<1>9. CASE p = "open" /\ q = "lost" /\ Paid(try[t]) = Paid(try'[t])
  <2>1. /\ t \in AtPlace("open") /\ AtPlace("open")' = AtPlace("open") \ {t}
        /\ AtPlace("lost")' = AtPlace("lost") \union {t}
        /\ AtPlace("refused")' = AtPlace("refused")
        /\ AtPlace("dropped")' = AtPlace("dropped")
        /\ AtPlace("delivered")' = AtPlace("delivered")
        /\ Billed' = Billed
    BY <1>1, <1>2, <1>3, <1>4, <1>5, <1>9
  <2>2. Contract!Lose(t)
    BY <2>1, Mapping, MappingNext DEF Contract!Lose, Contract!Close
  <2> QED
    BY <2>2 DEF Contract!Next, Contract!Tries, Tries
<1>10. CASE p = "open" /\ q = "dropped" /\ Paid(try[t]) = Paid(try'[t])
  <2>1. /\ t \in AtPlace("open") /\ AtPlace("open")' = AtPlace("open") \ {t}
        /\ AtPlace("dropped")' = AtPlace("dropped") \union {t}
        /\ AtPlace("refused")' = AtPlace("refused")
        /\ AtPlace("lost")' = AtPlace("lost")
        /\ AtPlace("delivered")' = AtPlace("delivered")
        /\ Billed' = Billed
    BY <1>1, <1>2, <1>3, <1>4, <1>5, <1>10
  <2>2. Contract!Drop(t)
    BY <2>1, Mapping, MappingNext DEF Contract!Drop, Contract!Close
  <2> QED
    BY <2>2 DEF Contract!Next, Contract!Tries, Tries
<1>11. CASE p = "open" /\ q = "refused" /\ ~Paid(try[t]) /\ ~Paid(try'[t])
  <2>1. /\ t \in AtPlace("open") /\ AtPlace("open")' = AtPlace("open") \ {t}
        /\ AtPlace("refused")' = AtPlace("refused") \union {t}
        /\ AtPlace("lost")' = AtPlace("lost")
        /\ AtPlace("dropped")' = AtPlace("dropped")
        /\ AtPlace("delivered")' = AtPlace("delivered")
        /\ Billed' = Billed /\ t \notin Billed
    BY <1>1, <1>2, <1>3, <1>4, <1>5, <1>11
  <2>2. Contract!Refuse(t)
    BY <2>1, Mapping, MappingNext DEF Contract!Refuse, Contract!Close
  <2> QED
    BY <2>2 DEF Contract!Next, Contract!Tries, Tries
<1>12. CASE p = "open" /\ q = "delivered" /\ Paid(try[t]) /\ Paid(try'[t])
  <2>1. /\ t \in AtPlace("open") /\ AtPlace("open")' = AtPlace("open") \ {t}
        /\ AtPlace("delivered")' = AtPlace("delivered") \union {t}
        /\ AtPlace("refused")' = AtPlace("refused")
        /\ AtPlace("lost")' = AtPlace("lost")
        /\ AtPlace("dropped")' = AtPlace("dropped")
        /\ Billed' = Billed /\ t \in Billed
    BY <1>1, <1>2, <1>3, <1>4, <1>5, <1>12
  <2>2. Contract!Deliver(t)
    BY <2>1, Mapping, MappingNext DEF Contract!Deliver, Contract!Close
  <2> QED
    BY <2>2 DEF Contract!Next, Contract!Tries, Tries
<1>13. CASE /\ p = "new" /\ q = "open" /\ Paid(try[t]) = Paid(try'[t])
            /\ \/ t[2] = 1
               \/ /\ t[1] \in Nodes /\ <<t[1], t[2] - 1>> \in Tries
                  /\ Place(try[<<t[1], t[2] - 1>>]) \in {"refused", "lost"}
  <2>1. t[2] = 1 \/ (t[1] \in Nodes /\ <<t[1], t[2] - 1>> \in AtPlace("refused") \union AtPlace("lost"))
    BY <1>13 DEF AtPlace
  <2>2. /\ AtPlace("open")' = AtPlace("open") \union {t}
        /\ \A x \in places \ {"new", "open"} : AtPlace(x)' = AtPlace(x)
        /\ \A x \in places \ {"new"} : t \notin AtPlace(x)
        /\ Billed' = Billed
    BY <1>1, <1>2, <1>3, <1>4, <1>5, <1>13
  <2>3. Contract!Try(t)
    BY <2>1, <2>2, Mapping, MappingNext DEF Contract!Try, Contract!Begun, Contract!Previous
  <2> QED
    BY <2>3 DEF Contract!Next, Contract!Tries, Tries
<1> QED
  BY <1>7, <1>1, <1>8, <1>9, <1>10, <1>11, <1>12, <1>13 DEF Allowed


\* ... of one try that becomes r.
LEMMA Becoming ==
    ASSUME IInv, IInv', NEW t \in Tries, NEW r, try' = [try EXCEPT ![t] = r],
           Allowed(t, Place(try[t]), Place(r), Paid(try[t]), Paid(r))
    PROVE  [Contract!Next]_Contract!vars
<1>1. try \in [Tries -> TryStates] /\ try' \in [Tries -> TryStates]
  BY DEF IInv
<1>2. try'[t] = r /\ \A s \in Tries \ {t} : try'[s] = try[s]
  BY <1>1
<1> QED
  BY <1>1, <1>2, Keeping

\* A client that stops: refused, or lost to it, or dropped.
LEMMA EndMaps ==
    ASSUME IInv, IInv', NEW t \in Tries, NEW how \in Ends \ {"clip"}, Active(t), End(t, how),
           how = "failed" => try[t].job \in {"none", "failed"}
    PROVE  [Contract!Next]_Contract!vars
<1> DEFINE r == Ended(try[t], how)
<1>1. try[t] \in TryStates
  BY DEF IInv
<1>2. r.at = how /\ r.job = try[t].job /\ r.engine = try[t].engine
  BY <1>1 DEF Ended, TryStates
<1>3. try' = [try EXCEPT ![t] = r]
  BY DEF End
<1>4. Place(try[t]) = "open"
  BY <1>1, Places DEF Active
<1> HIDE DEF r
<1>5. Allowed(t, Place(try[t]), Place(r), Paid(try[t]), Paid(r))
  <2>1. CASE how = "failed"
    BY <1>2, <1>4, <2>1 DEF Allowed, Place, Paid, Waiting
  <2>2. CASE how \in {"lost", "timeout", "outage"}
    BY <1>2, <1>4, <2>2 DEF Allowed, Place, Paid, Waiting, Retryable
  <2>3. CASE how \in {"broken", "cut"}
    BY <1>2, <1>4, <2>3 DEF Allowed, Place, Paid, Waiting, Retryable
  <2> QED
    BY <2>1, <2>2, <2>3 DEF Ends
<1> QED
  BY <1>3, <1>5, Becoming

\* A client that stops without knowing what the engine makes of its request.
LEMMA UnheardMaps ==
    ASSUME IInv, IInv', NEW t \in Tries, NEW how \in {"lost", "outage", "broken"}, Active(t),
           Unheard(t, how)
    PROVE  [Contract!Next]_Contract!vars
<1>1. PICK job : /\ job = try[t].job \/ (At(t, "submit") /\ job = "queued")
                 /\ try' = [try EXCEPT ![t] = [Ended(@, how) EXCEPT !.job = job]]
  BY DEF Unheard
<1> DEFINE r == [Ended(try[t], how) EXCEPT !.job = job]
<1>2. try[t] \in TryStates /\ Placed(t, try[t])
  BY DEF IInv, Sound
<1>3. try' = [try EXCEPT ![t] = r]
  BY <1>1
<1>4. r.at = how /\ r.job = job
  BY <1>2 DEF Ended, TryStates
<1> HIDE DEF r
<1>5. Place(try[t]) = "open" /\ Place(r) \in {"lost", "dropped"}
  BY <1>2, <1>4, Places DEF Active, Place, Waiting, Retryable
<1>6. Paid(try[t]) = Paid(r)
  BY <1>1, <1>2, <1>4 DEF Paid, Placed, At
<1>7. Allowed(t, Place(try[t]), Place(r), Paid(try[t]), Paid(r))
  BY <1>5, <1>6 DEF Allowed
<1> QED
  BY <1>3, <1>7, Becoming

\* A client that goes on: its job may have been completed on the way.
LEMMA GoMaps ==
    ASSUME IInv, IInv', NEW t \in Tries, Active(t),
           NEW r \in TryStates, r.at \in Waiting \union {"package"},
           try[t].job = "completed" => r.job = "completed",
           try' = [try EXCEPT ![t] = r]
    PROVE  [Contract!Next]_Contract!vars
<1>1. Place(try[t]) = "open" /\ Place(r) = "open"
  BY Places DEF Active, IInv
<1>2. Allowed(t, Place(try[t]), Place(r), Paid(try[t]), Paid(r))
  BY <1>1 DEF Allowed, Paid
<1> QED
  BY <1>2, Becoming

\* The render reaches the caller.
LEMMA ClipMaps ==
    ASSUME IInv, IInv', NEW t \in Tries, Active(t), try[t].job = "completed",
           NEW r \in TryStates, r.at = "clip", r.job = "completed",
           try' = [try EXCEPT ![t] = r]
    PROVE  [Contract!Next]_Contract!vars
<1>1. Place(try[t]) = "open" /\ Place(r) = "delivered"
  BY Places DEF Active, IInv
<1>2. Allowed(t, Place(try[t]), Place(r), Paid(try[t]), Paid(r))
  BY <1>1 DEF Allowed, Paid
<1> QED
  BY <1>2, Becoming

\* An engine goes on, or ends a render, while the client stays where it is.
LEMMA JobMaps ==
    ASSUME IInv, IInv', NEW t \in Tries, try[t].job \in Unfinished,
           NEW r, r.at = try[t].at, r.engine = try[t].engine,
           try' = [try EXCEPT ![t] = r]
    PROVE  [Contract!Next]_Contract!vars
<1>1. try[t] \in TryStates /\ Placed(t, try[t])
  BY DEF IInv, Sound
<1>2. Place(r) = Place(try[t])
  BY DEF Place
<1>3. Place(try[t]) \notin {"new", "refused"}
  BY <1>1, Places DEF Placed, Unfinished, Place
<1>4. ~Paid(try[t]) /\ Paid(r) \in BOOLEAN
  BY DEF Paid, Unfinished
<1>5. Allowed(t, Place(try[t]), Place(r), Paid(try[t]), Paid(r))
  <2>1. CASE Paid(r)
    BY <1>2, <1>3, <1>4, <2>1 DEF Allowed
  <2>2. CASE ~Paid(r)
    <3>1. Paid(r) = Paid(try[t])
      BY <1>4, <2>2 DEF Paid
    <3> QED
      BY <1>2, <3>1 DEF Allowed
  <2> QED
    BY <2>1, <2>2
<1> QED
  BY <1>5, Becoming


\* Every step of the engines and their clients is a step of the contract or
\* none of its business.
LEMMA StepMaps == IInv /\ IInv' /\ [Next]_try => [Contract!Next]_Contract!vars
<1> SUFFICES ASSUME IInv, IInv', [Next]_try  PROVE [Contract!Next]_Contract!vars
  OBVIOUS
<1>1. /\ \A t \in Tries : try[t] \in TryStates /\ Placed(t, try[t])
      /\ try \in [Tries -> TryStates] /\ try' \in [Tries -> TryStates]
  BY DEF IInv, Sound
<1>2. CASE UNCHANGED try
  BY <1>2 DEF Contract!vars, Active, Refused, Lost, At
<1>3. CASE Tick
  <2>1. \A s \in Tries : /\ try'[s].at = try[s].at
                         /\ try'[s].engine = try[s].engine /\ try'[s].job = try[s].job
    <3> SUFFICES ASSUME NEW s \in Tries
                 PROVE  /\ try'[s].at = try[s].at
                        /\ try'[s].engine = try[s].engine /\ try'[s].job = try[s].job
      OBVIOUS
    <3> DEFINE age == IF try[s].at \in Waiting THEN try[s].age + 1 ELSE try[s].age
               ran == IF Runs(s) /\ try[s].ran < ServerTimeout(try[s].engine)
                      THEN try[s].ran + 1 ELSE try[s].ran
               wait == Waited(try[s].wait)
    <3>1. try[s] \in TryStates
      BY <1>1
    <3>2. try'[s] = [try[s] EXCEPT !.age = age, !.wait = wait, !.ran = ran]
      BY <1>3, <3>1 DEF Tick, TryStates
    <3> HIDE DEF age, ran, wait
    <3> QED
      BY <3>1, <3>2 DEF TryStates
  <2>2. \A s \in Tries : Place(try'[s]) = Place(try[s]) /\ Paid(try'[s]) = Paid(try[s])
    BY <2>1 DEF Place, Paid
  <2>3. PICK t \in Tries : TRUE
    BY <1>3 DEF Tick
  <2>4. Allowed(t, Place(try[t]), Place(try'[t]), Paid(try[t]), Paid(try'[t]))
    BY <2>2 DEF Allowed
  <2> QED
    BY <1>1, <2>2, <2>4, Keeping
<1>4. ASSUME NEW t \in Tries, NEW e \in Engines, Post(t, e) \/ Begin(t, e)
      PROVE  [Contract!Next]_Contract!vars
  <2>1. /\ try'[t].at \in Waiting /\ try'[t].job \in {"none", "queued"}
        /\ \A s \in Tries \ {t} : /\ try'[s].at = try[s].at /\ try'[s].engine = try[s].engine
                                  /\ try'[s].job = try[s].job
    <3>1. CASE Post(t, e)
      <4> DEFINE r == [Fresh EXCEPT !.engine = e, !.at = "posted", !.wait = Timeout,
                                    !.job = "queued", !.shared = Others(t, e) # {}]
                 Crowded(s) == [try[s] EXCEPT !.shared =
                                  @ \/ (s \in Others(t, e) /\ try[s].job = "queued")]
      <4>1. \A s \in Tries : /\ Crowded(s).at = try[s].at /\ Crowded(s).job = try[s].job
                             /\ Crowded(s).engine = try[s].engine
        BY <1>1, ZenonT(30) DEF TryStates
      <4>2. r.at = "posted" /\ r.job = "queued"
        BY DEF Fresh
      <4>3. \A s \in Tries : try'[s] = IF s = t THEN r ELSE Crowded(s)
        BY <3>1 DEF Post
      <4> HIDE DEF r, Crowded
      <4> QED
        BY <4>1, <4>2, <4>3 DEF Waiting
    <3>2. CASE Begin(t, e)
      BY <1>1, <3>2 DEF Begin, Fresh, Waiting, TryStates
    <3> QED
      BY <1>4, <3>1, <3>2
  <2>2. MayBegin(t, e)
    BY <1>4 DEF Post, Begin
  <2>3. \A s \in Tries \ {t} : Place(try'[s]) = Place(try[s]) /\ Paid(try'[s]) = Paid(try[s])
    BY <2>1 DEF Place, Paid
  <2>4. /\ Place(try[t]) = "new" /\ ~Paid(try[t])
        /\ Place(try'[t]) = "open" /\ ~Paid(try'[t])
    BY <1>1, <2>1, <2>2 DEF MayBegin, At, Placed, Place, Paid, Waiting
  <2>5. \/ t[2] = 1
        \/ /\ t[1] \in Nodes /\ <<t[1], t[2] - 1>> \in Tries
           /\ Place(try[<<t[1], t[2] - 1>>]) \in {"refused", "lost"}
    <3> SUFFICES ASSUME t[2] # 1
                 PROVE  /\ t[1] \in Nodes /\ <<t[1], t[2] - 1>> \in Tries
                        /\ Place(try[<<t[1], t[2] - 1>>]) \in {"refused", "lost"}
      OBVIOUS
    <3> DEFINE last == <<t[1], t[2] - 1>>
    <3>1. t[1] \in Nodes /\ try[last].at \in Retryable /\ t[2] > 1
      BY <2>2 DEF MayBegin, Retryable
    <3>2. last \in Tries
      BY <3>1, EngineAssumption DEF Tries
    <3>3. Place(try[last]) \in {"refused", "lost"}
      BY <3>1 DEF Place, Waiting, Retryable
    <3> QED
      BY <3>1, <3>2, <3>3
  <2>6. Allowed(t, Place(try[t]), Place(try'[t]), Paid(try[t]), Paid(try'[t]))
    BY <2>4, <2>5 DEF Allowed, Paid
  <2> QED
    BY <1>1, <2>3, <2>6, Keeping
\* What a client's request for a step has in common.
<1>5. ASSUME NEW t \in Tries, Active(t), NEW place \in Waiting, NEW wait, Go(t, place, wait)
      PROVE  [Contract!Next]_Contract!vars
  <2> DEFINE r == [try[t] EXCEPT !.at = place, !.wait = wait]
  <2>1. try' = [try EXCEPT ![t] = r] /\ try' \in [Tries -> TryStates]
    BY <1>1, <1>5 DEF Go
  <2>2. r \in TryStates
    BY <1>1, <2>1
  <2>3. r.at = place /\ r.job = try[t].job
    BY <1>1 DEF TryStates
  <2> HIDE DEF r
  <2> QED
    BY <1>5, <2>1, <2>2, <2>3, GoMaps
<1>6. ASSUME NEW t \in Tries, Active(t), Delivered(t), try[t].job = "completed"
      PROVE  [Contract!Next]_Contract!vars
  <2> DEFINE r == [Ended(try[t], "clip") EXCEPT !.clip = t]
  <2>1. try' = [try EXCEPT ![t] = r] /\ r \in TryStates
    BY <1>1, <1>6 DEF Delivered
  <2>2. r.at = "clip" /\ r.job = try[t].job
    BY <1>1 DEF TryStates, Ended
  <2> HIDE DEF r
  <2> QED
    BY <1>6, <2>1, <2>2, ClipMaps
<1>7. ASSUME NEW t \in Tries, Proceed(t)  PROVE [Contract!Next]_Contract!vars
  <2>1. try[t] \in TryStates /\ Placed(t, try[t])
    BY <1>1
  <2>2. ASSUME Active(t), NEW how \in {"lost", "timeout", "outage", "broken"}, End(t, how)
        PROVE  [Contract!Next]_Contract!vars
    BY <2>2, EndMaps DEF Ends
  <2>3. ASSUME Active(t), End(t, "failed"),
               try[t].job \in {"none", "failed"}
        PROVE  [Contract!Next]_Contract!vars
    BY <2>3, EndMaps DEF Ends
  <2>4. CASE GiveUp(t) \/ Unpackaged(t)
    BY <2>2, <2>4 DEF GiveUp, Unpackaged, At, Active, Waiting
  <2>5. CASE Wake(t)
    BY <1>5, <2>5 DEF Wake, At, Active, Waiting
  <2>6. CASE Packaged(t)
    <3> DEFINE r == Ended(try[t], "clip")
    <3>1. try' = [try EXCEPT ![t] = r] /\ r \in TryStates
      BY <1>1, <2>6 DEF Packaged, End
    <3>2. r.at = "clip" /\ r.job = try[t].job
      BY <2>1 DEF TryStates, Ended
    <3>3. Active(t) /\ try[t].job = "completed"
      BY <2>1, <2>6 DEF Packaged, At, Active, Placed
    <3> HIDE DEF r
    <3> QED
      BY <3>1, <3>2, <3>3, ClipMaps
  <2>7. CASE StrictSubmit(t) \/ SoraSubmit(t) \/ LenientSubmit(t)
    <3>1. Active(t) /\ try[t].job = "none"
      BY <2>1, <2>7 DEF StrictSubmit, SoraSubmit, LenientSubmit, Submits, At, Active, Waiting,
                        Placed
    <3>2. CASE End(t, "failed") \/ End(t, "timeout")
      BY <2>2, <2>3, <3>1, <3>2
    <3>3. ASSUME NEW place \in {"poll", "fetch"}, NEW job \in {"queued", "completed"},
                 try' = [try EXCEPT ![t].at = place, ![t].wait = 1, ![t].job = job]
          PROVE  [Contract!Next]_Contract!vars
      <4> DEFINE r == [try[t] EXCEPT !.at = place, !.wait = 1, !.job = job]
      <4>1. try' = [try EXCEPT ![t] = r]
        BY <1>1, <3>3
      <4>2. r.at = place /\ r \in TryStates
        BY <1>1, <2>1, <4>1 DEF TryStates
      <4> HIDE DEF r
      <4> QED
        BY <3>1, <4>1, <4>2, GoMaps DEF Waiting
    <3>4. CASE Accepted(t)
      BY <3>3, <3>4 DEF Accepted
    <3>5. ASSUME NEW seconds, Go(t, "backoff", RetryWait(seconds))
          PROVE  [Contract!Next]_Contract!vars
      BY <1>5, <3>1, <3>5 DEF Waiting
    <3>6. CASE Unheard(t, "lost")
      BY <3>1, <3>6, UnheardMaps
    <3> QED
      BY <2>7, <3>2, <3>3, <3>4, <3>5, <3>6 DEF StrictSubmit, SoraSubmit, LenientSubmit
  <2>8. CASE StrictPoll(t) \/ SoraPoll(t) \/ LenientPoll(t)
    <3>1. Active(t)
      BY <2>8 DEF StrictPoll, SoraPoll, LenientPoll, Polls, At, Active, Waiting
    <3>2. CASE End(t, "timeout") \/ End(t, "outage")
      BY <2>2, <3>1, <3>2
    <3>3. CASE try[t].job = "failed" /\ End(t, "failed")
      BY <2>3, <3>1, <3>3
    <3>4. ASSUME NEW place \in {"poll", "fetch"}, NEW wait, Go(t, place, wait)
          PROVE  [Contract!Next]_Contract!vars
      BY <1>5, <3>1, <3>4 DEF Waiting
    <3>5. \A a \in Answers(t) : a = "failed" => try[t].job = "failed"
      BY DEF Answers
    <3>6. CASE StrictPoll(t)
      BY <3>2, <3>3, <3>4, <3>5, <3>6 DEF StrictPoll
    <3>7. CASE SoraPoll(t)
      BY <3>2, <3>3, <3>4, <3>5, <3>7 DEF SoraPoll
    <3>8. CASE LenientPoll(t)
      BY <3>2, <3>4, <3>8 DEF LenientPoll
    <3> QED
      BY <2>8, <3>6, <3>7, <3>8
  <2>9. CASE StrictFetch(t) \/ SoraFetch(t) \/ LenientFetch(t)
    <3>1. Active(t) /\ (try[t].engine = "lenient" \/ try[t].job = "completed")
      BY <2>1, <2>9 DEF StrictFetch, SoraFetch, LenientFetch, Fetches, At, Active, Waiting,
                        Placed
    <3>2. CASE Delivered(t) /\ try[t].job = "completed"
      BY <1>6, <3>1, <3>2
    <3>3. CASE End(t, "lost")
      BY <2>2, <3>1, <3>3
    <3>4. CASE try' = [try EXCEPT ![t].clip = t, ![t].at = "package", ![t].age = 0, ![t].wait = 0]
      <4> DEFINE r == [try[t] EXCEPT !.clip = t, !.at = "package", !.age = 0, !.wait = 0]
      <4>1. try' = [try EXCEPT ![t] = r]
        BY <1>1, <3>4
      <4>2. r.at = "package" /\ r.job = try[t].job /\ r \in TryStates
        BY <1>1, <2>1, <4>1 DEF TryStates
      <4> HIDE DEF r
      <4> QED
        BY <3>1, <4>1, <4>2, GoMaps
    <3>5. CASE StrictFetch(t) \/ SoraFetch(t)
      <4>1. try[t].job = "completed"
        BY <3>1, <3>5 DEF StrictFetch, SoraFetch, Fetches, Strict
      <4> QED
        BY <3>2, <3>3, <3>4, <3>5, <4>1 DEF StrictFetch, SoraFetch
    <3>6. CASE LenientFetch(t)
      BY <3>2, <3>3, <3>6 DEF LenientFetch
    <3> QED
      BY <2>9, <3>5, <3>6
  <2> QED
    BY <1>7, <2>4, <2>5, <2>6, <2>7, <2>8, <2>9 DEF Proceed
<1>8. ASSUME NEW t \in Tries, Unreachable(t) \/ Cut(t)  PROVE [Contract!Next]_Contract!vars
  <2>1. CASE Cut(t)
    BY <2>1, EndMaps DEF Cut, Ends
  <2>2. CASE Unreachable(t)
    BY <2>2, UnheardMaps DEF Unreachable, Active, Waiting
  <2> QED
    BY <1>8, <2>1, <2>2
<1>9. ASSUME NEW t \in Tries, Manages(t) \/ Exits(t) \/ EngineEnds(t)
      PROVE  [Contract!Next]_Contract!vars
  <2>1. try[t] \in TryStates /\ try[t].job \in Unfinished
    BY <1>1, <1>9 DEF Manages, Starts, Declines, Killed, Overdue, Runs, Exits, EngineEnds,
                      Unfinished
  <2>2. CASE EngineEnds(t)
    <3>1. PICK job : try' = [try EXCEPT ![t].job = job]
      BY <2>2 DEF EngineEnds
    <3> DEFINE r == [try[t] EXCEPT !.job = job]
    <3>2. try' = [try EXCEPT ![t] = r] /\ r.at = try[t].at /\ r.engine = try[t].engine
      BY <1>1, <2>1, <3>1 DEF TryStates
    <3> HIDE DEF r
    <3> QED
      BY <2>1, <3>2, JobMaps
  <2>3. CASE Starts(t)
    <3>1. PICK silent \in BOOLEAN :
            try' = [try EXCEPT ![t].job = "running", ![t].silent = silent]
      BY <2>3 DEF Starts
    <3> DEFINE r == [try[t] EXCEPT !.job = "running", !.silent = silent]
    <3>2. try' = [try EXCEPT ![t] = r]
      BY <1>1, <3>1
    <3>3. r.at = try[t].at /\ r.engine = try[t].engine
      BY <2>1 DEF TryStates
    <3> HIDE DEF r
    <3> QED
      BY <2>1, <3>2, <3>3, JobMaps
  <2>4. ASSUME NEW job, NEW how, NEW clip, Reply(t, job, how, clip), ~At(t, "posted")
        PROVE  [Contract!Next]_Contract!vars
    <3> DEFINE r == [try[t] EXCEPT !.job = job, !.ran = 0]
    <3>1. r.at = try[t].at /\ r.engine = try[t].engine
      BY <2>1 DEF TryStates
    <3>2. try' = [try EXCEPT ![t] = r]
      BY <1>1, <2>4, <3>1 DEF Reply, At
    <3> HIDE DEF r
    <3> QED
      BY <2>1, <3>1, <3>2, JobMaps
  <2>5. CASE At(t, "posted") /\ Reply(t, "failed", "failed", NoClip)
    <3> DEFINE q == [try[t] EXCEPT !.job = "failed", !.ran = 0]
               r == Ended(q, "failed")
    <3>1. q.at = "posted"
      BY <2>1, <2>5 DEF At, TryStates
    <3>2. try' = [try EXCEPT ![t] = r]
      BY <1>1, <2>5, <3>1 DEF Reply
    <3>3. r.at = "failed" /\ r.job = "failed" /\ r.engine = try[t].engine
      BY <2>1 DEF Ended, TryStates
    <3> HIDE DEF q, r
    <3>4. Place(try[t]) = "open" /\ Place(r) = "refused"
      BY <2>5, <3>3 DEF At, Place, Waiting
    <3>5. ~Paid(try[t]) /\ ~Paid(r)
      BY <2>1, <3>3 DEF Paid, Unfinished
    <3>6. Allowed(t, Place(try[t]), Place(r), Paid(try[t]), Paid(r))
      BY <3>4, <3>5 DEF Allowed
    <3> QED
      BY <3>2, <3>6, Becoming
  <2>6. CASE At(t, "posted") /\ Reply(t, "completed", "package", Newest(t))
    <3> DEFINE q == [try[t] EXCEPT !.job = "completed", !.ran = 0]
               r == [q EXCEPT !.at = "package", !.age = 0, !.wait = 0, !.clip = Newest(t)]
    <3>1. q.at = "posted"
      BY <2>1, <2>6 DEF At, TryStates
    <3>2. try' = [try EXCEPT ![t] = r]
      BY <1>1, <2>6, <3>1 DEF Reply
    <3>3. r.at = "package" /\ r.job = "completed" /\ r \in TryStates
      BY <1>1, <2>1, <3>2 DEF TryStates
    <3> HIDE DEF q, r
    <3> QED
      BY <2>6, <3>2, <3>3, GoMaps DEF Active, At, Waiting
  <2> QED
    BY <1>9, <2>2, <2>3, <2>4, <2>5, <2>6 DEF Manages, Declines, Killed, Exits
<1> QED
  BY <1>2, <1>3, <1>4, <1>7, <1>8, <1>9 DEF Next


\* Whatever engine a caller asks and however its tries end, it sees the
\* contract of a render: refusals are free, a delivered render is billed and
\* the last try, and only a node tries again, after a refusal or a loss.
THEOREM ContractKept == Spec => ImplementsContract
<1>1. Init => Contract!Init
  <2> SUFFICES ASSUME Init PROVE Contract!Init
    OBVIOUS
  <2>1. \A t \in Tries : try[t].at = "new" /\ try[t].job = "none"
    BY DEF Init, Fresh
  <2>2. \A t \in Tries : ~Active(t) /\ ~Refused(t) /\ ~Lost(t) /\ ~At(t, "clip")
    BY <2>1 DEF Active, Refused, Lost, At, Waiting
  <2> QED
    BY <2>1, <2>2 DEF Contract!Init
<1>2. IInv /\ IInv' /\ [Next]_try => [Contract!Next]_Contract!vars
  BY StepMaps
<1> QED
  BY <1>1, <1>2, Inductive, PTL DEF Spec, ImplementsContract, Contract!Spec

\* A caller that paid for a try and went on to another had lost the first - it
\* stopped waiting, or could not get at the result - and it never goes on from
\* a render it has, nor from a try that was cut or could not be packaged.
THEOREM PaidTwice == Spec => []Contract!PaidTwiceOnlyIfLost
<1>1. IInv => Contract!PaidTwiceOnlyIfLost
  <2> SUFFICES ASSUME IInv, NEW c \in Callers, NEW m \in 1 .. MaxTries, NEW n \in 1 .. MaxTries,
                      m < n, <<c, n>> \in Contract!Begun
               PROVE  /\ ~Active(<<c, m>>) /\ try[<<c, m>>].at \notin {"broken", "cut"}
                      /\ ~At(<<c, m>>, "clip")
                      /\ try[<<c, m>>].job = "completed" => Lost(<<c, m>>)
    BY DEF Contract!PaidTwiceOnlyIfLost
  <2> DEFINE s == <<c, m>>
             t == <<c, n>>
  <2>1. s \in Tries /\ t \in Tries /\ t[1] = c /\ t[2] = n
    BY DEF Tries
  <2>2. try[t].at # "new"
    BY <2>1 DEF Contract!Begun, Active, Refused, Lost, At, Waiting
  <2>3. try[<<t[1], m>>].at \in Retryable
    BY <2>1, <2>2 DEF IInv, Ordered
  <2>4. try[s].at \in Retryable /\ Placed(s, try[s])
    BY <2>1, <2>3 DEF IInv, Sound
  <2> HIDE DEF s, t
  <2>5. /\ ~Active(s) /\ try[s].at \notin {"broken", "cut"} /\ ~At(s, "clip")
        /\ try[s].job = "completed" => Lost(s)
    BY <2>4 DEF Active, At, Waiting, Retryable, Lost, Refused, Placed
  <2> QED
    BY <2>5 DEF s
<1> QED
  BY <1>1, Inductive, PTL
=============================================================================
