----------------------------- MODULE StudioChat -----------------------------
(***************************************************************************)
(* POST /studio/chat and the memory it keeps: turns of one thread and one  *)
(* user, each a chain of short database sessions with a call of the        *)
(* planner between them, overlapping as the client likes; and the user,    *)
(* who switches memory, chooses defaults and forgets.  A memory's value is *)
(* the turn it was learned in.                                             *)
(***************************************************************************)
EXTENDS Integers, Sequences, FiniteSets

CONSTANTS Turns,        \* chat requests
          Earlier,      \* some turn that ended before these began
          KindCount,    \* kinds of memory, learned in order: tone, language, duration
          Limit,        \* longest history load_thread returns
          Window,       \* how much of it the planner is shown
          MaxActs       \* bound: what the user does besides chatting

ASSUME ChatAssumption ==
    /\ Earlier \notin Turns
    /\ KindCount \in Nat \ {0}
    /\ Limit \in Nat /\ Window \in Nat \ {0}
    /\ MaxActs \in Nat

VARIABLES prefs,      \* the user's preference row
          memories,   \* learned memories, in order of insertion
          thread,     \* the messages, in order of insertion
          turn,       \* how far each request is, and what it holds
          acts        \* what the user has done (bounds the model)

chatVars == <<prefs, memories, thread, turn, acts>>

Kinds == 1 .. KindCount
Messages == [turn : Turns, who : {"user", "assistant"}]
Nothing == {}

\* "deleted" rows are gone: they keep their place because ids are not reused.
Memories == [kind : Kinds, from : Turns \union {Earlier}, state : {"active", "inactive", "deleted"}]

Steps == {"new", "recall", "rows", "load", "ask", "plan", "answer", "check", "update",
          "commit", "reply", "done", "lost"}

\* "chosen" and "learned" make the hint; "prior" are the rows the pending
\* transaction deactivates.  History: "before", turns that were done when this
\* one began; "raced", another turn has committed a memory of the kind since
\* "prior" was read; "late", memories it added since the switch was turned off.
TurnStates == [at : Steps, chosen : SUBSET Kinds, learned : SUBSET Nat,
               history : Seq(Messages), kind : Nat, prior : SUBSET Nat,
               before : SUBSET Turns, raced : BOOLEAN, late : Nat]

\* Nothing, or what two earlier turns left that learned at the same time.
Learned == {<<>>, [i \in 1 .. 2 |-> [kind |-> 1, from |-> Earlier, state |-> "active"]]}

ChatInit ==
    /\ prefs = [on |-> TRUE, chosen |-> {}]
    /\ memories \in Learned
    /\ thread = <<>> /\ acts = 0
    /\ turn = [t \in Turns |-> [at |-> "new", chosen |-> {}, learned |-> {}, history |-> <<>>,
                                kind |-> 1, prior |-> {}, before |-> {},
                                raced |-> FALSE, late |-> 0]]

-----------------------------------------------------------------------------
TurnAt(t, step) == turn[t].at = step
Proceed(t, step) == turn' = [turn EXCEPT ![t].at = step]

Active(kind) == {i \in DOMAIN memories : memories[i].kind = kind /\ memories[i].state = "active"}

\* get_preferences
Begin(t) ==
    /\ TurnAt(t, "new")
    /\ turn' = [turn EXCEPT ![t].at = "recall", ![t].chosen = prefs.chosen,
                            ![t].before = {s \in Turns : TurnAt(s, "done")}]
    /\ UNCHANGED <<prefs, memories, thread, acts>>

\* recall: the switch in one session, the rows in another.
Recall(t) ==
    /\ TurnAt(t, "recall")
    /\ Proceed(t, IF prefs.on THEN "rows" ELSE "load")
    /\ UNCHANGED <<prefs, memories, thread, acts>>

\* _memory_hint: a chosen default wins; of several active memories of a kind
\* the oldest does, which the query returns last.
Applied(t) ==
    {i \in DOMAIN memories :
       LET kind == memories[i].kind
       IN  /\ kind \notin turn[t].chosen
           /\ i \in Active(kind) /\ \A j \in Active(kind) : i <= j}

Rows(t) ==
    /\ TurnAt(t, "rows")
    /\ turn' = [turn EXCEPT ![t].at = "load", ![t].learned = Applied(t)]
    /\ UNCHANGED <<prefs, memories, thread, acts>>

\* Faulty form: one message too few.
LoadedShort == SubSeq(thread, 1, IF Len(thread) < Limit THEN Len(thread) ELSE Limit - 1)

\* load_thread: the oldest messages.
Loaded == SubSeq(thread, 1, IF Len(thread) < Limit THEN Len(thread) ELSE Limit)

Load(t) ==
    /\ TurnAt(t, "load")
    /\ turn' = [turn EXCEPT ![t].at = "ask", ![t].history = Loaded]
    /\ UNCHANGED <<prefs, memories, thread, acts>>

\* append_message: in the thread as soon as it is committed.
Say(t, who) == thread' = Append(thread, [turn |-> t, who |-> who])

Ask(t) ==
    /\ TurnAt(t, "ask")
    /\ Say(t, "user")
    /\ Proceed(t, "plan")
    /\ UNCHANGED <<prefs, memories, acts>>

\* The conversation in the planner's prompt: the end of the history.
Context(t) ==
    LET loaded == turn[t].history
        first == IF Len(loaded) < Window THEN 1 ELSE Len(loaded) - Window + 1
    IN  SubSeq(loaded, first, Len(loaded))

\* PlannerService.chat: a reply that does not validate leads to plan, which
\* asks twice more and then takes safe defaults, so that there is a plan unless
\* no language model answers (Break).
\* What it shows the model of the conversation are the last messages loaded.
Plan(t) ==
    /\ TurnAt(t, "plan")
    /\ Proceed(t, "answer")
    /\ UNCHANGED <<prefs, memories, thread, acts>>

Answer(t) ==
    /\ TurnAt(t, "answer")
    /\ Say(t, "assistant")
    /\ Proceed(t, "check")
    /\ UNCHANGED <<prefs, memories, acts>>

-----------------------------------------------------------------------------
(* extract_from_plan: remember, once for each kind *)

NextKind(r) == [r EXCEPT !.kind = @ + 1, !.at = IF r.kind = KindCount THEN "reply" ELSE "check",
                         !.prior = {}, !.raced = FALSE]

\* Faulty form: the switch is read for the first kind only.
MayLearnOnce(t) == prefs.on \/ turn[t].kind > 1

MayLearn(t) == prefs.on

Check(t) ==
    /\ TurnAt(t, "check")
    /\ IF MayLearn(t) THEN Proceed(t, "update")
       ELSE turn' = [turn EXCEPT ![t] = NextKind(@)]
    /\ UNCHANGED <<prefs, memories, thread, acts>>

\* Faulty form: only the last row of the kind is deactivated.
PriorLast(t) == {i \in Active(turn[t].kind) : \A j \in Active(turn[t].kind) : j <= i}

Prior(t) == Active(turn[t].kind)

\* The UPDATE sees what is committed, not what other turns are about to.
Update(t) ==
    /\ TurnAt(t, "update")
    /\ turn' = [turn EXCEPT ![t].at = "commit", ![t].prior = Prior(t)]
    /\ UNCHANGED <<prefs, memories, thread, acts>>

Superseded(t) == [i \in DOMAIN memories |->
                    IF i \in turn[t].prior /\ memories[i].state = "active"
                    THEN [memories[i] EXCEPT !.state = "inactive"] ELSE memories[i]]

Commit(t) ==
    /\ TurnAt(t, "commit")
    /\ memories' = Append(Superseded(t), [kind |-> turn[t].kind, from |-> t, state |-> "active"])
    /\ turn' = [s \in Turns |->
                  IF s = t
                  THEN [NextKind(turn[t]) EXCEPT !.late = IF prefs.on THEN @ ELSE @ + 1]
                  ELSE [turn[s] EXCEPT !.raced = @ \/ (TurnAt(s, "commit") /\ turn[s].kind = turn[t].kind)]]
    /\ UNCHANGED <<prefs, thread, acts>>

\* The reply carries the thread, loaded once more.
Reply(t) ==
    /\ TurnAt(t, "reply")
    /\ turn' = [turn EXCEPT ![t].at = "done", ![t].history = Loaded]
    /\ UNCHANGED <<prefs, memories, thread, acts>>

\* No language model answers, or a session fails: what was committed stays.
Break(t) ==
    /\ turn[t].at \notin {"new", "done", "lost"}
    /\ Proceed(t, "lost")
    /\ UNCHANGED <<prefs, memories, thread, acts>>

Turn(t) == \/ Begin(t) \/ Recall(t) \/ Rows(t) \/ Load(t) \/ Ask(t) \/ Plan(t) \/ Answer(t)
           \/ Check(t) \/ Update(t) \/ Commit(t) \/ Reply(t) \/ Break(t)

-----------------------------------------------------------------------------
(* The user *)

Act == acts < MaxActs /\ acts' = acts + 1

\* set_preferences: a field that is absent or invalid is left as it is.
SetPreferences ==
    /\ Act
    /\ \E on \in BOOLEAN, more \in {{}} \union {{k} : k \in Kinds} :
         prefs' = [on |-> on, chosen |-> prefs.chosen \union more]
    /\ turn' = [t \in Turns |-> [turn[t] EXCEPT !.late = IF prefs.on THEN 0 ELSE @]]
    /\ UNCHANGED <<memories, thread>>

\* delete_memory and clear_memories
Forget ==
    /\ Act
    /\ \E ids \in {{i} : i \in DOMAIN memories} \union {DOMAIN memories} :
         memories' = [i \in DOMAIN memories |->
                        IF i \in ids THEN [memories[i] EXCEPT !.state = "deleted"] ELSE memories[i]]
    /\ UNCHANGED <<prefs, thread, turn>>

ChatNext == (\E t \in Turns : Turn(t)) \/ SetPreferences \/ Forget

ChatSpec == ChatInit /\ [][ChatNext]_chatVars

-----------------------------------------------------------------------------
(* Properties *)

\* Every row and every request keeps its shape, and what a request is about
\* to deactivate are rows of its own kind.
ChatType ==
    /\ prefs \in [on : BOOLEAN, chosen : SUBSET Kinds]
    /\ memories \in Seq(Memories)
    /\ thread \in Seq(Messages)
    /\ acts \in Nat
    /\ turn \in [Turns -> TurnStates]
    /\ \A t \in Turns : \A i \in turn[t].prior : i \in DOMAIN memories /\ memories[i].kind = turn[t].kind

\* What may become of a row: "update ... where active" and "delete" (memory/service.py).
Becomes(row, later) ==
    /\ later.kind = row.kind /\ later.from = row.from
    /\ later.state = "active" => row.state = "active"
    /\ later.state = "inactive" => row.state \in {"active", "inactive"}

\* "One active value per kind" (memory/service.py, remember): what a turn
\* learns is active, and unless another turn committed the same kind between
\* its two statements it is the only active value of its kind, whatever
\* earlier races had left.  No row is lost or rewritten, and what was
\* superseded or forgotten is never in force again, however late a turn commits.
MemorySupersedes ==
    [][/\ \A t \in Turns :
            TurnAt(t, "commit") /\ Len(memories') > Len(memories) /\ turn'[t].at # "commit" =>
              LET active == {i \in DOMAIN memories' : /\ memories'[i].kind = turn[t].kind
                                                       /\ memories'[i].state = "active"}
              IN  /\ Len(memories') \in active
                  /\ ~turn[t].raced => active = {Len(memories')}
       /\ \A i \in DOMAIN memories :
            i \in DOMAIN memories' /\ Becomes(memories[i], memories'[i])]_chatVars

\* "When off, nothing is learned" (memory/service.py): a running turn adds at
\* most the one memory it was writing when the switch was turned off.
OffMeansOff == \A t \in Turns : turn[t].late <= 1

\* As long as a thread fits, a turn has in its history all that was said in
\* the turns that were done when it began, and its reply has what it said
\* itself (memory/service.py, load_thread); a turn that is done has said both,
\* and nobody answers before the question or says either twice.
ThreadKept ==
    /\ \A t \in Turns, i \in DOMAIN thread :
         /\ turn[t].at \notin {"new", "recall", "rows", "load", "lost"} /\ Len(thread) <= Limit
         /\ thread[i].turn \in turn[t].before \union (IF TurnAt(t, "done") THEN {t} ELSE {})
         => \E j \in DOMAIN turn[t].history : turn[t].history[j] = thread[i]
    /\ \A t \in Turns, who \in {"user", "assistant"} :
         TurnAt(t, "done") => \E i \in DOMAIN thread : thread[i] = [turn |-> t, who |-> who]
    /\ \A i, j \in DOMAIN thread : thread[i].turn = thread[j].turn /\ i < j =>
         thread[i].who = "user" /\ thread[j].who = "assistant"

\* "A follow-up like 'make it more energetic' revises the prior plan instead of
\* starting over" (planner/service.py, chat): a turn that has no other beside
\* it is planned with the last answer before it at the end of its context.
FollowUpRevises ==
    \A t \in Turns :
        /\ TurnAt(t, "plan") /\ turn[t].before # {}
        /\ \A s \in Turns \ {t} : s \in turn[t].before \/ TurnAt(s, "new")
        => LET context == Context(t)
           IN  context # <<>> /\ context[Len(context)] = thread[Len(thread) - 1]
=============================================================================
