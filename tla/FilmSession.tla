---------------------------- MODULE FilmSession ----------------------------
(***************************************************************************)
(* One film of the conversational studio (api/v1/studio_film.py,           *)
(* services/film_session/service.py): the session row, the requests that   *)
(* stream a production of it (produce) or apply an edit to it              *)
(* (apply_edit), and the films they store.  A request loads the row once,  *)
(* works on its own copy for as long as the services take, and checkpoints *)
(* the whole copy with session.merge; nothing stops two requests from      *)
(* working on one session.  A step is what runs between two awaits.        *)
(* Sessions do not touch each other, so there is one.                      *)
(***************************************************************************)
EXTENDS Naturals, Sequences

CONSTANTS MaxRequests,  \* bound: stream and edit requests that clients make
          Themes,     \* themes a film can be given
          Casts,      \* the cast with its voices
          Plans,      \* storyboards the director may answer with
          None,       \* an empty column
          Joiners     \* bound: the requests that may begin while another is in flight

ASSUME SessionAssumption ==
    /\ MaxRequests \in Nat \ {0}
    /\ None \notin Nat
    /\ None \notin Plans
    /\ Joiners \subseteq Nat

VARIABLES row,        \* the film_sessions row in Postgres
          req,        \* each request: where it is and what it holds
          films,      \* the file each request has stored, as what it was made of
          latest,     \* the number of requests that have begun
          disturbed   \* history: since the last undisturbed film, requests
                      \* overlapped or an edit was cut

vars == <<row, req, films, latest, disturbed>>

-----------------------------------------------------------------------------
(* Data *)

\* Requests are numbered in the order in which they begin.
Requests == 1 .. MaxRequests

Status == {"absent", "created", "ready_to_render", "rendering", "done", "failed"}
Columns == {"status", "theme", "cast", "board", "scenes", "clip", "history"}

Entries == [by : {"user", "assistant"}, about : Requests \union {None}]
Entry(who, r) == [by |-> who, about |-> r]

\* The title and the interpretation are written with "ready_to_render" and
\* follow from script, cast and theme; no other part reads them.
Sessions == [status : Status,
             theme : Themes \union {None},
             cast : Casts \union {None},
             board : Plans \union {None},      \* storyboard_json
             scenes : Plans \union {None},     \* scenes_json: the scenes of the rendered plan
             clip : Requests \union {None},    \* clip_id: a fresh file per request
             history : Seq(Entries)]

\* The film a request has put into storage: what the render was asked for.
Films == [theme : Themes \union {None}, cast : Casts \union {None}, plan : Plans \union {None}]
NoFilm == [theme |-> None, cast |-> None, plan |-> None]

Working == {"interpret", "parse", "plan", "planned", "render", "select", "commit"}
Ends == {"done", "failed", "clarified", "broken", "unsaved", "dropped"}

\* "fs" is the detached FilmSession object, "plan" the board in hand, "dirty"
\* the columns an UPDATE will name, "then" where the request goes once its
\* checkpoint is committed; "alone" (history) says that no other request of
\* the session has been in flight since this one began.
ReqStates == [kind : {"stream", "edit"}, at : {"new"} \union Working \union Ends,
              then : Working \union Ends, fs : Sessions, plan : Plans \union {None},
              dirty : SUBSET Columns, alone : BOOLEAN]

Blank == [status |-> "absent", theme |-> None, cast |-> None, board |-> None,
          scenes |-> None, clip |-> None, history |-> <<>>]
Fresh == [kind |-> "stream", at |-> "new", then |-> "done", fs |-> Blank,
          plan |-> None, dirty |-> {}, alone |-> FALSE]

\* The generator is finished and its copy of the session gone.
Finished(r, end) == [Fresh EXCEPT !.kind = req[r].kind, !.alone = req[r].alone, !.at = end]

InFlight(r) == req[r].at \in Working
Ended(r) == req[r].at \in Ends

-----------------------------------------------------------------------------
(* merge: columns that differ from what its SELECT read are written, the *)
(* others keep whatever the row has by the time of the UPDATE. *)

Differing(fs, stored) == {c \in Columns : fs[c] # stored[c]}

\* Faulty form: the columns of the finished film are left out.
MergedWithoutClip(stored, fs, dirty) ==
    [stored EXCEPT !.status = IF "status" \in dirty THEN fs.status ELSE @,
                   !.history = IF "history" \in dirty THEN fs.history ELSE @]

Merged(stored, fs, dirty) ==
    LET Column(c) == IF c \in dirty THEN fs[c] ELSE stored[c]
    IN  [status |-> Column("status"), theme |-> Column("theme"), cast |-> Column("cast"),
         board |-> Column("board"), scenes |-> Column("scenes"), clip |-> Column("clip"),
         history |-> Column("history")]

\* Faulty form: the conversation is replaced, not continued.
SaidOnly(fs, who, r) == [fs EXCEPT !.history = <<Entry(who, r)>>]

Said(fs, who, r) == [fs EXCEPT !.history = Append(@, Entry(who, r))]

-----------------------------------------------------------------------------
Init ==
    /\ row = Blank
    /\ req = [r \in Requests |-> Fresh]
    /\ films = [r \in Requests |-> NoFilm]
    /\ latest = 0
    /\ disturbed = FALSE

\* The theme may be left empty.
Create(theme, cast) ==
    /\ row.status = "absent"
    /\ row' = [Said(Blank, "user", None) EXCEPT !.status = "created", !.theme = theme,
                                                !.cast = cast]
    /\ UNCHANGED <<req, films, latest, disturbed>>

\* _load_owned; an edit then adds the message to its copy.  The status is not
\* looked at: any session can be streamed or edited at any time.
Begin(r, kind) ==
    /\ row.status # "absent"
    /\ r = latest + 1
    /\ LET busy == \E q \in Requests : InFlight(q)
       IN /\ busy => r \in Joiners
          /\ req' = [q \in Requests |->
                       IF q # r
                       THEN [req[q] EXCEPT !.alone = @ /\ ~InFlight(q)]
                       ELSE [Fresh EXCEPT
                               !.kind = kind,
                               !.at = IF kind = "stream" THEN "interpret" ELSE "parse",
                               !.fs = IF kind = "stream" THEN row ELSE Said(row, "user", r),
                               !.alone = ~busy]]
          /\ disturbed' = (disturbed \/ busy)
    /\ latest' = r
    /\ UNCHANGED <<row, films>>

-----------------------------------------------------------------------------
(* Steps of a request *)

\* The copy becomes fs and is to be checkpointed before the request goes on.
Checkpoint(r, fs, next) ==
    req' = [req EXCEPT ![r].fs = fs, ![r].at = "select", ![r].then = next]

\* Faulty form: the status of the lifecycle comment is stored.
InterpretedEarly(r) ==
    /\ req[r].at = "interpret"
    /\ Checkpoint(r, Said([req[r].fs EXCEPT !.status = "interpreting"], "assistant", r), "plan")
    /\ UNCHANGED <<row, films, latest, disturbed>>

Interpreted(r) ==
    /\ req[r].at = "interpret"
    /\ Checkpoint(r, Said([req[r].fs EXCEPT !.status = "ready_to_render"], "assistant", r), "plan")
    /\ UNCHANGED <<row, films, latest, disturbed>>

\* parse_edit swallows every error: what it cannot read is "unknown".
ChangeTheme(r, theme) ==
    /\ req[r].at = "parse"
    /\ Checkpoint(r, Said([req[r].fs EXCEPT !.theme = theme], "assistant", r), "plan")
    /\ UNCHANGED <<row, films, latest, disturbed>>

\* With the same cast: the role named is not in it.
ChangeVoice(r, cast) ==
    /\ req[r].at = "parse"
    /\ Checkpoint(r, Said([req[r].fs EXCEPT !.cast = cast], "assistant", r), "plan")
    /\ UNCHANGED <<row, films, latest, disturbed>>

\* rerender_scene and rerender_all: the scene and the note are not used.
Rerender(r) ==
    /\ req[r].at = "parse"
    /\ Checkpoint(r, Said(req[r].fs, "assistant", r), "plan")
    /\ UNCHANGED <<row, films, latest, disturbed>>

Clarify(r) ==
    /\ req[r].at = "parse"
    /\ Checkpoint(r, Said(req[r].fs, "assistant", r), "clarified")
    /\ UNCHANGED <<row, films, latest, disturbed>>

\* bind and storyboard_with_cast, which change nothing but the request's own
\* variables.  A production stores the storyboard; an edit keeps it in hand
\* only and marks the session as rendering at once.
Storyboarded(r, plan) ==
    /\ req[r].at = "plan"
    /\ req' = [req EXCEPT ![r].plan = plan,
                          ![r].fs = IF req[r].kind = "stream"
                                    THEN [@ EXCEPT !.board = plan]
                                    ELSE [@ EXCEPT !.status = "rendering"],
                          ![r].at = "select",
                          ![r].then = IF req[r].kind = "stream" THEN "planned" ELSE "render"]
    /\ UNCHANGED <<row, films, latest, disturbed>>

Planned(r) ==
    /\ req[r].at = "planned"
    /\ Checkpoint(r, [req[r].fs EXCEPT !.status = "rendering"], "render")
    /\ UNCHANGED <<row, films, latest, disturbed>>

\* Faulty form: the row is told of a file that is still to be written.
RenderedLater(r) ==
    LET fs == [req[r].fs EXCEPT !.clip = r, !.scenes = req[r].plan, !.status = "done"]
    IN  /\ req[r].at = "render"
        /\ Checkpoint(r, IF req[r].kind = "stream" THEN Said(fs, "assistant", r) ELSE fs, "done")
        /\ UNCHANGED <<row, films, latest, disturbed>>

\* Faulty form: a session that has a clip keeps it.
RenderedFirstClip(r) ==
    LET fs == [req[r].fs EXCEPT !.clip = IF @ = None THEN r ELSE @,
                                !.scenes = req[r].plan, !.status = "done"]
    IN  /\ req[r].at = "render"
        /\ films' = [films EXCEPT ![r] = [theme |-> fs.theme, cast |-> fs.cast, plan |-> req[r].plan]]
        /\ Checkpoint(r, IF req[r].kind = "stream" THEN Said(fs, "assistant", r) ELSE fs, "done")
        /\ UNCHANGED <<row, latest, disturbed>>

\* Faulty form: an edit forgets to set the new clip.
RenderedOldClip(r) ==
    LET fs == [req[r].fs EXCEPT !.clip = IF req[r].kind = "stream" THEN r ELSE @,
                                !.scenes = req[r].plan, !.status = "done"]
    IN  /\ req[r].at = "render"
        /\ films' = [films EXCEPT ![r] = [theme |-> fs.theme, cast |-> fs.cast, plan |-> req[r].plan]]
        /\ Checkpoint(r, IF req[r].kind = "stream" THEN Said(fs, "assistant", r) ELSE fs, "done")
        /\ UNCHANGED <<row, latest, disturbed>>

\* render_with_cast and save_bytes (uuid name), then clip_id, scenes_json and the status.
Rendered(r) ==
    LET fs == [req[r].fs EXCEPT !.clip = r, !.scenes = req[r].plan, !.status = "done"]
    IN  /\ req[r].at = "render"
        /\ films' = [films EXCEPT ![r] = [theme |-> fs.theme, cast |-> fs.cast, plan |-> req[r].plan]]
        /\ Checkpoint(r, IF req[r].kind = "stream" THEN Said(fs, "assistant", r) ELSE fs, "done")
        /\ UNCHANGED <<row, latest, disturbed>>

\* interpret raises, CastError, DirectorError, CompositionError.
ServiceFails(r) ==
    /\ req[r].at \in {"interpret", "plan", "render"}
    /\ Checkpoint(r, [req[r].fs EXCEPT !.status = "failed"], "failed")
    /\ UNCHANGED <<row, films, latest, disturbed>>

\* merge: its SELECT.
Select(r) ==
    /\ req[r].at = "select"
    /\ req' = [req EXCEPT ![r].dirty = Differing(req[r].fs, row), ![r].at = "commit"]
    /\ UNCHANGED <<row, films, latest, disturbed>>

\* commit: the UPDATE.  The request goes on, or its stream ends.
Commit(r) ==
    /\ req[r].at = "commit"
    /\ row' = Merged(row, req[r].fs, req[r].dirty)
    /\ req' = [req EXCEPT ![r] = IF req[r].then \in Ends
                                 THEN Finished(r, req[r].then)
                                 ELSE [req[r] EXCEPT !.at = req[r].then, !.dirty = {}]]
    /\ disturbed' = (disturbed /\ ~(req[r].then = "done" /\ req[r].alone))
    /\ UNCHANGED <<films, latest>>

Cut(r, end) ==
    /\ req' = [req EXCEPT ![r] = Finished(r, end)]
    /\ disturbed' = (disturbed \/ req[r].kind = "edit")
    /\ UNCHANGED <<row, films, latest>>

\* An exception of a service that no clause names (no language model answers,
\* ffmpeg is missing, the disk is full): _sse tells the client "failed" and
\* ends.  Interpretation and parsing let none out.
Break(r) == req[r].at \in {"plan", "render"} /\ Cut(r, "broken")

\* The database fails in a checkpoint; _sse ends the stream in the same way.
Unsaved(r) == req[r].at \in {"select", "commit"} /\ Cut(r, "unsaved")

\* The client goes away (or the process dies): the request is cancelled at
\* whatever await it is in.  A commit that went through is Commit first.
Drop(r) == InFlight(r) /\ Cut(r, "dropped")

Step(r) ==
    \/ Interpreted(r) \/ Rerender(r) \/ Clarify(r)
    \/ \E theme \in Themes : ChangeTheme(r, theme)
    \/ \E cast \in Casts : ChangeVoice(r, cast)
    \/ \E plan \in Plans : Storyboarded(r, plan)
    \/ Planned(r) \/ Rendered(r) \/ ServiceFails(r)
    \/ Select(r) \/ Commit(r)

Next ==
    \/ \E theme \in Themes \union {None}, cast \in Casts : Create(theme, cast)
    \/ \E r \in Requests :
         \/ \E kind \in {"stream", "edit"} : Begin(r, kind)
         \/ Step(r)
         \/ Break(r)
         \/ Unsaved(r)
         \/ Drop(r)

Spec == Init /\ [][Next]_vars

\* Every call of a request returns; clients, faults and cancellation owe nothing.
FairSpec == Spec /\ \A r \in Requests : WF_vars(Step(r))

-----------------------------------------------------------------------------
(* Properties *)

\* The variables have their types.
TypeOK ==
    /\ row \in Sessions
    /\ req \in [Requests -> ReqStates]
    /\ films \in [Requests -> Films]
    /\ latest \in 0 .. MaxRequests
    /\ disturbed \in BOOLEAN

\* However requests overlap and wherever they are cut, the session never
\* points to a film that is not in storage: the file is written before any
\* checkpoint names it, and a copy names only what it loaded or made.
ClipIsStored == row.clip # None => films[row.clip] # NoFilm

\* "done" and "failed" as told by the latest request, if it had the session
\* to itself, are what the row says until the next request begins - whatever
\* state earlier requests, cut or overlapping, had left behind.  A film is
\* reported only when the row holds it with the settings it was made from.
OutcomeStands ==
    latest > 0 /\ req[latest].alone =>
        /\ req[latest].at = "done" =>
             /\ row.status = "done" /\ row.clip = latest
             /\ films[latest] = [theme |-> row.theme, cast |-> row.cast, plan |-> row.scenes]
        /\ req[latest].at = "failed" => row.status = "failed"

\* A finished session shows the film of its own theme, cast and scenes, from
\* the first undisturbed film on, as long as requests do not overlap and no
\* edit is cut or still at work (an edit stores its setting before it renders).
FilmMatchesSession ==
    /\ row.status = "done" /\ ~disturbed
    /\ \A r \in Requests : InFlight(r) => req[r].kind = "stream"
    => /\ row.clip \in Requests
       /\ films[row.clip] = [theme |-> row.theme, cast |-> row.cast, plan |-> row.scenes]

\* g continues h.
Continues(g, h) == \A i \in 1 .. Len(h) : i <= Len(g) /\ g[i] = h[i]

\* A checkpoint of a request that has the session to itself only adds to the
\* conversation.
ConversationKept ==
    [][(\A r \in Requests : InFlight(r) => req[r].alone)
         => Continues(row'.history, row.history)]_vars

\* api/v1/studio_film.py:11: a session left behind by a dropped connection is
\* recoverable.  A new stream ends with its film stored in the session,
\* whatever it finds, unless a service fails, it is cut itself or another
\* request joins it.
Recoverable ==
    \A r \in Requests :
        InFlight(r) /\ req[r].kind = "stream"
          ~> \/ row.status = "done" /\ row.clip = r
             \/ req[r].at \in {"failed", "broken", "unsaved", "dropped"}
             \/ ~req[r].alone

\* models/film_session.py:38: a session goes from rendering to done or failed.
\* A service that failed a request has left the session failed: the client
\* was told so.
FailureIsRecorded ==
    latest > 0 /\ req[latest].alone /\ req[latest].at \in {"failed", "broken"} =>
        row.status = "failed"

\* models/film_session.py:5: the session holds the full conversation history.
FullConversation == [][Continues(row'.history, row.history)]_vars
=============================================================================
