--------------------------- MODULE RenderEngines ---------------------------
(***************************************************************************)
(* Renders by remote engines.  A try is one call of a client: of an avatar *)
(* model server (SadTalkerClient.infer, one blocking POST to a server that *)
(* runs one inference at a time), or of a queue (fal avatar, Chatterbox,   *)
(* Sora 2, and the clients of Kling, lip-sync and style, which are alike): *)
(* submit, poll until a deadline, fetch.  A client that gives up tells     *)
(* nobody: the engine renders on, and bills.  The avatar node then tries   *)
(* once more.  Time is counted in ticks; a request other than the fetch    *)
(* and the POST takes at most one.                                         *)
(***************************************************************************)
EXTENDS Integers

CONSTANTS Callers,        \* nodes, routes and services that want a render
          Rivals,         \* bound: those that ask model servers only (queues are not shared)
          Nodes,          \* those of them that are avatar nodes of a pipeline
          MaxTries,       \* max_attempts of the avatar node
          Engines,        \* the engines that are configured
          Timeout,        \* avatar_inference_timeout_sec (Chatterbox has its own)
          SadTalkerTimeout, HunyuanTimeout,  \* INFERENCE_TIMEOUT_SEC of the servers
          Cap,            \* longest wait for a rate limit
          RetryAfters     \* ticks the engine may put into Retry-After

Servers == {"sadtalker", "hunyuan"}
Strict == {"fal", "chatterbox"}     \* read status code and status
Avatars == {"sadtalker", "hunyuan", "fal"}

ASSUME EngineAssumption ==
    /\ Nodes \subseteq Callers
    /\ Rivals \subseteq Callers
    /\ MaxTries \in Nat \ {0}
    /\ Engines \subseteq Servers \union Strict \union {"lenient", "sora2"}
    /\ Timeout \in Nat \ {0}
    /\ Cap \in Nat
    /\ RetryAfters \subseteq Nat
    /\ SadTalkerTimeout \in Nat /\ HunyuanTimeout \in Nat

ServerTimeout(e) == IF e = "sadtalker" THEN SadTalkerTimeout ELSE HunyuanTimeout

VARIABLE try    \* the tries of every caller, with their job at the engine

Tries == Callers \X (1 .. MaxTries)
NoClip == <<>>

\* "posted": in the POST to a model server; "submit", "backoff", "poll",
\* "fetch": a queue client; "package": ffmpeg, probe and storage.
\* Ends: "failed", the engine said no; "lost", the client raises the same error
\* because the answer brought no handle or no result; "timeout"; "outage", the
\* engine did not answer; "broken", an exception of another kind.
Waiting == {"posted", "submit", "backoff", "poll", "fetch"}
Ends == {"clip", "failed", "lost", "timeout", "outage", "broken", "cut"}
Unfinished == {"queued", "running"}

\* "wait" bounds the ticks the current step may still take (a sleep takes
\* them all), "silent" a process that prints nothing, "shared" (history) that
\* other requests were at the model server; "clip" is the render delivered.
TryStates == [engine : Engines \union {"none"}, at : {"new", "package"} \union Waiting \union Ends,
              age : Nat, wait : Nat,
              job : {"none", "completed", "failed"} \union Unfinished,
              ran : Nat, silent : BOOLEAN, shared : BOOLEAN, clip : Tries \union {NoClip}]

Fresh == [engine |-> "none", at |-> "new", age |-> 0, wait |-> 0, job |-> "none",
          ran |-> 0, silent |-> FALSE, shared |-> FALSE, clip |-> NoClip]

Active(t) == try[t].at \in Waiting \union {"package"}
At(t, place) == try[t].at = place

-----------------------------------------------------------------------------
(* Steps of a client *)

\* Faulty form: what the header says is slept through.
RetryWaitUncapped(seconds) == seconds

\* _retry_after_seconds
RetryWait(seconds) == IF seconds < Cap THEN seconds ELSE Cap

\* Faulty form: nobody looks at the clock.
LateNever(t) == FALSE

Late(t) == try[t].age > Timeout

Ended(r, how) == [r EXCEPT !.at = how, !.age = 0, !.wait = 0]
End(t, how) == try' = [try EXCEPT ![t] = Ended(@, how)]
Go(t, place, wait) == try' = [try EXCEPT ![t].at = place, ![t].wait = wait]

\* Requests whose upload may still overtake t's, or be ahead of it.
Others(t, e) == {s \in Tries \ {t} : try[s].engine = e /\ try[s].job \in Unfinished}

\* Faulty form: the node tries again after any exception.
MayBeginAfterAny(t, e) ==
    /\ At(t, "new")
    /\ \/ t[2] = 1
       \/ LET last == try[<<t[1], t[2] - 1>>]
          IN  /\ t[2] > 1 /\ t[1] \in Nodes /\ last.engine = e /\ e \in Avatars
              /\ last.at \in {"failed", "lost", "timeout", "outage", "broken"}

\* The first try, or the node's retry of an AvatarEngineError.
MayBegin(t, e) ==
    /\ At(t, "new")
    /\ \/ t[2] = 1
       \/ LET last == try[<<t[1], t[2] - 1>>]
          IN  /\ t[2] > 1 /\ t[1] \in Nodes /\ last.engine = e /\ e \in Avatars
              /\ last.at \in {"failed", "lost", "timeout", "outage"}

Post(t, e) ==
    /\ e \in Servers /\ MayBegin(t, e)
    /\ try' = [s \in Tries |->
                 IF s = t
                 THEN [Fresh EXCEPT !.engine = e, !.at = "posted", !.wait = Timeout,
                                    !.job = "queued", !.shared = Others(t, e) # {}]
                 ELSE [try[s] EXCEPT !.shared = @ \/ (s \in Others(t, e) /\ try[s].job = "queued")]]

Begin(t, e) ==
    /\ e \notin Servers /\ t[1] \notin Rivals /\ MayBegin(t, e)
    /\ try' = [try EXCEPT ![t] = [Fresh EXCEPT !.engine = e, !.at = "submit", !.wait = 1]]

\* The read timeout of httpx: the server sends nothing before it is done.
GiveUp(t) == At(t, "posted") /\ try[t].wait = 0 /\ End(t, "timeout")

\* What an answer that never came, or that nobody can read, leaves open: the
\* submission may have been accepted.
Unheard(t, how) ==
    \E job \in {try[t].job} \union (IF At(t, "submit") THEN {"queued"} ELSE {}) :
        try' = [try EXCEPT ![t] = [Ended(@, how) EXCEPT !.job = job]]

\* A transport error, or the error status of a gateway in between ("outage");
\* a body without the JSON the client reads or, at a strict submission,
\* without its handle: no error of the engine's kind ("broken").
Unreachable(t) ==
    /\ try[t].at \in {"posted", "submit", "poll", "fetch"}
    /\ Unheard(t, "outage") \/ Unheard(t, "broken")

Accepted(t) == try' = [try EXCEPT ![t].at = "poll", ![t].wait = 1, ![t].job = "queued"]

Submits(t, kinds) == At(t, "submit") /\ try[t].engine \in kinds

\* Refused: an error status of the engine.
StrictSubmit(t) == Submits(t, Strict) /\ (Accepted(t) \/ End(t, "failed"))

\* Of the error statuses Sora's client waits after a 429.  An answer without a
\* handle is this client's own error, like a refusal.
SoraSubmit(t) ==
    /\ Submits(t, {"sora2"})
    /\ \/ Accepted(t) \/ End(t, "failed") \/ Unheard(t, "lost")
       \/ Late(t) /\ End(t, "timeout")
       \/ ~Late(t) /\ \E seconds \in RetryAfters : Go(t, "backoff", RetryWait(seconds))

\* The lenient clients take a result in the answer to the submission, and
\* raise their own error if it has neither result nor handle.
LenientSubmit(t) ==
    /\ Submits(t, {"lenient"})
    /\ \/ Accepted(t) \/ End(t, "failed") \/ Unheard(t, "lost")
       \/ try' = [try EXCEPT ![t].at = "fetch", ![t].wait = 1, ![t].job = "completed"]

Wake(t) == At(t, "backoff") /\ try[t].wait = 0 /\ Go(t, "submit", 1)

\* What a queue answers to the question for a status: the body's status, or
\* an error status code.
Answers(t) ==
    {"error", CASE try[t].job = "completed" -> "done"
                [] try[t].job = "failed" -> "failed"
                [] OTHER -> "pending"}

Polls(t, kinds) == At(t, "poll") /\ try[t].engine \in kinds

\* Faulty form: 202, the status code of a pending job, is taken for an error.
StrictPollRejectsAccepted(t) ==
    /\ Polls(t, Strict)
    /\ \/ Late(t) /\ End(t, "timeout")
       \/ ~Late(t) /\ \E a \in Answers(t) :
            CASE a = "error" -> End(t, "outage")
              [] a = "done" -> Go(t, "fetch", Timeout)
              [] OTHER -> End(t, "failed")

\* One round of the poll loop, the deadline first.  The download of the
\* strict clients has the whole timeout once more.
StrictPoll(t) ==
    /\ Polls(t, Strict)
    /\ \/ Late(t) /\ End(t, "timeout")
       \/ ~Late(t) /\ \E a \in Answers(t) :
            CASE a = "error" -> End(t, "outage")
              [] a = "done" -> Go(t, "fetch", Timeout)
              [] a = "failed" -> End(t, "failed")
              [] OTHER -> Go(t, "poll", 1)

SoraPoll(t) ==
    /\ Polls(t, {"sora2"})
    /\ \/ Late(t) /\ End(t, "timeout")
       \/ ~Late(t) /\ \E a \in Answers(t) :
            CASE a = "error" -> End(t, "outage")
              [] a = "done" -> Go(t, "fetch", 1)
              [] a = "failed" -> End(t, "failed")
              [] OTHER -> Go(t, "poll", 1)

\* The lenient clients poll on through an error status (unless its body cannot
\* be read: Unreachable) and ask for the result of all that is not pending.
LenientPoll(t) ==
    /\ Polls(t, {"lenient"})
    /\ \/ Late(t) /\ End(t, "timeout")
       \/ ~Late(t) /\ \E a \in Answers(t) :
            IF a \in {"done", "failed"} THEN Go(t, "fetch", 1) ELSE Go(t, "poll", 1)

Delivered(t) == try' = [try EXCEPT ![t] = [Ended(@, "clip") EXCEPT !.clip = t]]

Fetches(t, kinds) == At(t, "fetch") /\ try[t].engine \in kinds

\* Chatterbox's audio goes to the TTS service, the avatar is packaged.  An
\* error status for the result or the download, or a result without a url, is
\* the same error as a render that failed, though the job was completed.
StrictFetch(t) ==
    /\ Fetches(t, Strict)
    /\ \/ End(t, "lost")
       \/ IF try[t].engine \in Avatars
          THEN try' = [try EXCEPT ![t].clip = t, ![t].at = "package", ![t].age = 0, ![t].wait = 0]
          ELSE Delivered(t)

SoraFetch(t) == Fetches(t, {"sora2"}) /\ (End(t, "lost") \/ Delivered(t))

\* A failed job has no url, and the lenient clients find none in an error
\* answer either.
LenientFetch(t) ==
    /\ Fetches(t, {"lenient"})
    /\ End(t, "lost") \/ (try[t].job = "completed" /\ Delivered(t))

\* package_mp4, probe_video, save_bytes and a usage row that may fail to be
\* written.  Failures here are no AvatarEngineError.
Packaged(t) == At(t, "package") /\ End(t, "clip")
Unpackaged(t) == At(t, "package") /\ End(t, "broken")

\* The soft limit of the task, or a request that is cancelled.
Cut(t) == Active(t) /\ End(t, "cut")

-----------------------------------------------------------------------------
(* Engines *)

\* A queue (external) renders and bills whether or not anybody polls.
EngineEnds(t) ==
    /\ try[t].engine \notin Servers /\ try[t].job = "queued"
    /\ \E job \in {"completed", "failed"} : try' = [try EXCEPT ![t].job = job]

\* infer is a coroutine that blocks: the event loop serves nothing else.
Free(e) == \A t \in Tries : ~(try[t].engine = e /\ try[t].job = "running")

Starts(t) ==
    /\ try[t].engine \in Servers /\ try[t].job = "queued" /\ Free(try[t].engine)
    /\ \E silent \in BOOLEAN :
         /\ silent => try[t].engine = "sadtalker"
         /\ try' = [try EXCEPT ![t].job = "running", ![t].silent = silent]

\* The server's answer reaches a client that still waits: after a clip the
\* service packages, any other status ends the try.
Reply(t, job, how, clip) ==
    try' = [try EXCEPT ![t] =
              LET r == [@ EXCEPT !.job = job, !.ran = 0]
              IN  IF r.at # "posted" THEN r
                  ELSE IF how = "package" THEN [r EXCEPT !.at = how, !.age = 0, !.wait = 0, !.clip = clip]
                  ELSE Ended(r, how)]

\* No checkpoints, no GPU, a bad field; or the request of a client that has
\* gone is dropped unread.
Declines(t) ==
    /\ try[t].engine \in Servers /\ try[t].job = "queued" /\ Free(try[t].engine)
    /\ Reply(t, "failed", "failed", NoClip)

\* Faulty form: the newest clip of all jobs is sent.
NewestOfAll(t) ==
    IF \E s \in Tries : s # t /\ try[s].job = "completed" /\ try[s].engine = try[t].engine
    THEN CHOOSE s \in Tries : s # t /\ try[s].job = "completed" /\ try[s].engine = try[t].engine
    ELSE t

\* The newest clip in the result directory of the job.
Newest(t) == t

\* The process ends: with a clip, or without one and possibly an error.
Exits(t) ==
    /\ try[t].engine \in Servers /\ try[t].job = "running"
    /\ \/ Reply(t, "completed", "package", Newest(t))
       \/ Reply(t, "failed", "failed", NoClip)

\* A process that still prints.
Runs(t) == try[t].job = "running" /\ ~try[t].silent

\* Faulty form: the limit is never looked at.
OverdueNever(t) == FALSE

\* SadTalker's server looks at the clock when the process prints a line.
Overdue(t) == Runs(t) /\ try[t].ran >= ServerTimeout(try[t].engine)

Killed(t) == try[t].engine \in Servers /\ Overdue(t) /\ Reply(t, "failed", "failed", NoClip)

-----------------------------------------------------------------------------
(* Time *)

\* Faulty form: a wait runs on below zero.
WaitedOn(wait) == wait - 1

Waited(wait) == IF wait = 0 THEN 0 ELSE wait - 1

\* Whoever is due acts before time passes: a step at the end of its wait, a
\* server with a client waiting, a server whose process is overdue.
Due(t) ==
    \/ try[t].at \in Waiting /\ try[t].wait = 0
    \/ /\ try[t].engine \in Servers
       /\ Overdue(t) \/ (At(t, "posted") /\ try[t].job = "queued" /\ Free(try[t].engine))

Tick ==
    /\ \E t \in Tries : try[t].at \in Waiting \/ Runs(t)
    /\ \A t \in Tries : ~Due(t)
    /\ try' = [t \in Tries |->
                 [try[t] EXCEPT
                    !.age = IF try[t].at \in Waiting THEN @ + 1 ELSE @,
                    !.wait = Waited(@),
                    !.ran = IF Runs(t) /\ @ < ServerTimeout(try[t].engine) THEN @ + 1 ELSE @]]

Init == try = [t \in Tries |-> Fresh]

Proceed(t) ==
    \/ GiveUp(t) \/ Wake(t) \/ Packaged(t) \/ Unpackaged(t)
    \/ StrictSubmit(t) \/ SoraSubmit(t) \/ LenientSubmit(t)
    \/ StrictPoll(t) \/ SoraPoll(t) \/ LenientPoll(t)
    \/ StrictFetch(t) \/ SoraFetch(t) \/ LenientFetch(t)

Manages(t) == Starts(t) \/ Declines(t) \/ Killed(t)

Next ==
    \/ \E t \in Tries :
         \/ \E e \in Engines : Post(t, e) \/ Begin(t, e)
         \/ Proceed(t) \/ Unreachable(t) \/ Cut(t)
         \/ Manages(t) \/ Exits(t) \/ EngineEnds(t)
    \/ Tick

Spec == Init /\ [][Next]_try

\* A caller's client goes on, time passes, a model server starts what waits
\* and kills what is overdue; that an engine ever finishes is not assumed.
FairSpec ==
    /\ Spec /\ WF_try(Tick)
    /\ \A c \in Callers : WF_try(\E n \in 1 .. MaxTries : Proceed(<<c, n>>))
    /\ \A e \in Servers : WF_try(\E t \in Tries : try[t].engine = e /\ Manages(t))

-----------------------------------------------------------------------------
(* Properties *)

\* The variable has its type.
TypeOK == try \in [Tries -> TryStates]

\* A clip that reaches a caller, or its packaging, is the one its own last try
\* rendered to the end - not the late render of a try that was abandoned, nor
\* what the server made for somebody else.
ClipIsOwn ==
    \A t \in Tries :
        /\ At(t, "clip") \/ At(t, "package") => try[t].clip = t /\ try[t].job = "completed"
        /\ At(t, "clip") => \A n \in t[2] + 1 .. MaxTries : At(<<t[1], n>>, "new")

\* When an avatar client, having heard the engine, reports its error, the
\* engine is done with the job: refused or failed, without a bill - or rendered
\* and billed, and only the result could not be had.  So the node's second try
\* runs beside the first only after a timeout or an outage.  It pays twice only
\* then, and for a result that was lost.
FailureIsOver ==
    \A t \in Tries :
        /\ At(t, "failed") => try[t].job \in {"none", "failed"}
        /\ At(t, "lost") /\ try[t].engine \in Avatars => try[t].job = "completed"

\* With a server limit below the client's timeout, a client gives up on a
\* model server only if other requests, or its own first try that still
\* renders, were there too, or if the process hung without a word.
ServerAnswersFirst ==
    \A t \in Tries :
        /\ At(t, "timeout") /\ try[t].engine \in Servers
        /\ ServerTimeout(try[t].engine) < Timeout
        => try[t].shared \/ try[t].silent

\* How long after the timeout an engine's client may still be at work.
Slack(e) == CASE e = "sora2" -> Cap + 2 [] e \in Strict -> Timeout [] OTHER -> 1

\* Waits for a rate limit, polls and the download share one deadline: a try
\* outlives it by no more than the step in which it passes.
WithinDeadline == \A t \in Tries : Active(t) => try[t].age <= Timeout + Slack(try[t].engine)

\* Whatever its engine does, no caller is at work for ever, and a model server
\* is rid of every process that still prints: its lock is free for the next.
Settles ==
    /\ \A c \in Callers : []<>(\A n \in 1 .. MaxTries : ~Active(<<c, n>>))
    /\ \A e \in Servers : []<>(\A t \in Tries : ~(try[t].engine = e /\ Runs(t)))

\* The engines and their clients keep the contract of a render.
Refused(t) == At(t, "failed")
Lost(t) == try[t].at \in {"lost", "timeout", "outage"}
Contract == INSTANCE RenderContract WITH
    Patient <- Nodes,
    open <- {t \in Tries : Active(t)},
    refused <- {t \in Tries : Refused(t)},
    lost <- {t \in Tries : Lost(t)},
    dropped <- {t \in Tries : try[t].at \in {"broken", "cut"}},
    delivered <- {t \in Tries : At(t, "clip")},
    billed <- {t \in Tries : try[t].job = "completed"}
ImplementsContract == Contract!Spec
=============================================================================
