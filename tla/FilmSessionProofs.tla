------------------------- MODULE FilmSessionProofs -------------------------
(***************************************************************************)
(* Type correctness and the safety properties of FilmSession for any       *)
(* number of requests, any themes, casts and plans, and any overlap.       *)
(***************************************************************************)
EXTENDS FilmSession, TLAPS

-----------------------------------------------------------------------------
(* Lemmas about the operators *)

LEMMA SaidType ==
    ASSUME NEW s \in Sessions, NEW who \in {"user", "assistant"},
           NEW r \in Requests \union {None}
    PROVE  /\ Said(s, who, r) \in Sessions
           /\ Said(s, who, r).status = s.status
           /\ Said(s, who, r).theme = s.theme
           /\ Said(s, who, r).cast = s.cast
           /\ Said(s, who, r).board = s.board
           /\ Said(s, who, r).scenes = s.scenes
           /\ Said(s, who, r).clip = s.clip
           /\ Said(s, who, r).history = Append(s.history, Entry(who, r))
<1>1. Entry(who, r) \in Entries
  BY DEF Entry, Entries
<1>2. s.history \in Seq(Entries)
  BY DEF Sessions
<1>3. Append(s.history, Entry(who, r)) \in Seq(Entries)
  BY <1>1, <1>2
<1> QED
  BY <1>3 DEF Said, Sessions

LEMMA SaidContinues ==
    ASSUME NEW s \in Sessions, NEW who \in {"user", "assistant"},
           NEW r \in Requests \union {None}
    PROVE  Continues(Said(s, who, r).history, s.history)
<1>1. s.history \in Seq(Entries)
  BY DEF Sessions
<1>2. Said(s, who, r).history = Append(s.history, Entry(who, r))
  BY SaidType
<1> QED
  BY <1>1, <1>2 DEF Continues

LEMMA ContinuesSelf ==
    ASSUME NEW s \in Sessions
    PROVE  Continues(s.history, s.history)
BY DEF Continues, Sessions

LEMMA ContinuesTwice ==
    ASSUME NEW f, NEW g, NEW h, Len(g) \in Nat, Len(h) \in Nat, Len(f) \in Nat,
           Continues(f, g), Continues(g, h)
    PROVE  Continues(f, h)
BY DEF Continues

LEMMA MergedType ==
    ASSUME NEW s \in Sessions, NEW fs \in Sessions, NEW dirty \in SUBSET Columns
    PROVE  Merged(s, fs, dirty) \in Sessions
BY DEF Merged, Sessions

\* A checkpoint that nobody interferes with stores the copy.
LEMMA MergedExactly ==
    ASSUME NEW s \in Sessions, NEW fs \in Sessions
    PROVE  Merged(s, fs, Differing(fs, s)) = fs
<1> DEFINE d == Differing(fs, s)
<1>1. /\ "status" \in d <=> fs.status # s.status
      /\ "theme" \in d <=> fs.theme # s.theme
      /\ "cast" \in d <=> fs.cast # s.cast
      /\ "board" \in d <=> fs.board # s.board
      /\ "scenes" \in d <=> fs.scenes # s.scenes
      /\ "clip" \in d <=> fs.clip # s.clip
      /\ "history" \in d <=> fs.history # s.history
  BY DEF Differing, Columns
<1> HIDE DEF d
<1>2. Merged(s, fs, d) = fs
  BY <1>1 DEF Merged, Sessions
<1> QED
  BY <1>2 DEF d

\* What a merge leaves in a column comes from the row or from the copy.
LEMMA MergedFrom ==
    ASSUME NEW s \in Sessions, NEW fs \in Sessions, NEW dirty \in SUBSET Columns
    PROVE  /\ Merged(s, fs, dirty).clip \in {s.clip, fs.clip}
           /\ Merged(s, fs, dirty).status \in {s.status, fs.status}
           /\ Merged(s, fs, dirty).history \in {s.history, fs.history}
BY DEF Merged, Sessions

-----------------------------------------------------------------------------
(* Types *)

LEMMA BlankType == Blank \in Sessions
BY DEF Blank, Sessions, Status

LEMMA FreshType == Fresh \in ReqStates
BY BlankType DEF Fresh, ReqStates, Working, Ends

LEMMA FinishedType ==
    ASSUME TypeOK, NEW r \in Requests, NEW end \in Ends
    PROVE  Finished(r, end) \in ReqStates
<1>1. req[r] \in ReqStates
  BY DEF TypeOK
<1> QED
  BY <1>1, FreshType DEF Finished, ReqStates

LEMMA FreshTypes ==
    ASSUME NEW kind \in {"stream", "edit"}, NEW fs \in Sessions, NEW alone \in BOOLEAN,
           NEW at \in Working
    PROVE  [Fresh EXCEPT !.kind = kind, !.at = at, !.fs = fs, !.alone = alone] \in ReqStates
BY FreshType DEF ReqStates

LEMMA TypeInit == Init => TypeOK
<1> SUFFICES ASSUME Init PROVE TypeOK
  OBVIOUS
<1>1. row \in Sessions
  BY BlankType DEF Init
<1>2. req \in [Requests -> ReqStates]
  BY FreshType DEF Init
<1>3. NoFilm \in Films
  BY DEF NoFilm, Films
<1>4. films \in [Requests -> Films]
  BY <1>3 DEF Init
<1>5. latest \in 0 .. MaxRequests
  BY SessionAssumption DEF Init
<1>6. disturbed \in BOOLEAN
  BY Zenon DEF Init
<1> QED
  BY <1>1, <1>2, <1>4, <1>5, <1>6 DEF TypeOK

LEMMA TypeCreate ==
    ASSUME TypeOK, NEW theme \in Themes \union {None}, NEW cast \in Casts, Create(theme, cast)
    PROVE  TypeOK'
<1> DEFINE new == [Said(Blank, "user", None) EXCEPT !.status = "created", !.theme = theme,
                                                    !.cast = cast]
<1>1. Said(Blank, "user", None) \in Sessions
  BY BlankType, SaidType
<1>2. new \in Sessions
  BY <1>1 DEF Sessions, Status
<1>3. row' = new
  BY DEF Create
<1> QED
  BY <1>2, <1>3 DEF Create, TypeOK

LEMMA TypeBegin ==
    ASSUME TypeOK, NEW r \in Requests, NEW kind \in {"stream", "edit"}, Begin(r, kind)
    PROVE  TypeOK'
<1> DEFINE busy == \E q \in Requests : InFlight(q)
           fs == IF kind = "stream" THEN row ELSE Said(row, "user", r)
           at == IF kind = "stream" THEN "interpret" ELSE "parse"
           new == [Fresh EXCEPT !.kind = kind, !.at = at, !.fs = fs, !.alone = ~busy]
<1>1. fs \in Sessions
  BY SaidType DEF TypeOK
<1>2. at \in Working
  BY DEF Working
<1>3. new \in ReqStates
  <2> HIDE DEF fs, at, busy
  <2>1. PICK b \in BOOLEAN : b = ~busy
    OBVIOUS
  <2>2. [Fresh EXCEPT !.kind = kind, !.at = at, !.fs = fs, !.alone = b] \in ReqStates
    BY <1>1, <1>2, FreshTypes
  <2> QED
    BY <2>1, <2>2
<1>4. \A q \in Requests : [req[q] EXCEPT !.alone = @ /\ ~InFlight(q)] \in ReqStates
  <2> TAKE q \in Requests
  <2>1. req[q] \in ReqStates
    BY DEF TypeOK
  <2>2. PICK b \in BOOLEAN : b = (req[q].alone /\ ~InFlight(q))
    BY Zenon
  <2>3. [req[q] EXCEPT !.alone = b] \in ReqStates
    BY <2>1 DEF ReqStates
  <2> QED
    BY <2>2, <2>3
<1>5. req' = [q \in Requests |-> IF q # r THEN [req[q] EXCEPT !.alone = @ /\ ~InFlight(q)] ELSE new]
  BY DEF Begin
<1>6. req' \in [Requests -> ReqStates]
  <2> HIDE DEF new
  <2> QED
    BY <1>3, <1>4, <1>5
<1>7. latest' \in 0 .. MaxRequests
  <2>1. latest' = r
    BY DEF Begin
  <2> QED
    BY <2>1, SessionAssumption DEF Requests
<1>8. disturbed' \in BOOLEAN
  <2>1. disturbed' = (disturbed \/ busy)
    BY DEF Begin
  <2> QED
    BY <2>1, Zenon
<1> QED
  BY <1>6, <1>7, <1>8 DEF Begin, TypeOK

-----------------------------------------------------------------------------
(* The steps of a request that only change its copy and begin a checkpoint *)

Replaced(r, new) ==
    /\ req' = [req EXCEPT ![r] = new]
    /\ UNCHANGED <<row, films, latest, disturbed>>

LEMMA TypeReplaced ==
    ASSUME TypeOK, NEW r \in Requests, NEW new \in ReqStates, Replaced(r, new)
    PROVE  TypeOK'
BY DEF Replaced, TypeOK

\* The step of r is a checkpoint of the copy fs on the way to next, with the
\* plan p in hand.
Saves(r, fs, p, next) ==
    /\ req[r].at \in Working \ {"select", "commit"}
    /\ Replaced(r, [req[r] EXCEPT !.plan = p, !.fs = fs, !.at = "select", !.then = next])

LEMMA TypeSaves ==
    ASSUME TypeOK, NEW r \in Requests, NEW fs \in Sessions, NEW p \in Plans \union {None},
           NEW next \in Working \union Ends, Saves(r, fs, p, next)
    PROVE  /\ TypeOK'
           /\ [req[r] EXCEPT !.plan = p, !.fs = fs, !.at = "select", !.then = next] \in ReqStates
<1>1. req[r] \in ReqStates
  BY DEF TypeOK
<1>2. [req[r] EXCEPT !.plan = p, !.fs = fs, !.at = "select", !.then = next] \in ReqStates
  BY <1>1 DEF ReqStates, Working
<1> QED
  BY <1>2, TypeReplaced DEF Saves

LEMMA CheckpointSaves ==
    ASSUME TypeOK, NEW r \in Requests, NEW fs \in Sessions, NEW next \in Working \union Ends,
           req[r].at \in Working \ {"select", "commit"},
           Checkpoint(r, fs, next), UNCHANGED <<row, films, latest, disturbed>>
    PROVE  Saves(r, fs, req[r].plan, next)
<1>1. req[r] \in ReqStates
  BY DEF TypeOK
<1>2. [req[r] EXCEPT !.plan = req[r].plan, !.fs = fs, !.at = "select", !.then = next]
        = [req[r] EXCEPT !.fs = fs, !.at = "select", !.then = next]
  BY <1>1 DEF ReqStates
<1>3. req' = [req EXCEPT ![r] = [req[r] EXCEPT !.fs = fs, !.at = "select", !.then = next]]
  BY DEF Checkpoint, TypeOK
<1> QED
  BY <1>2, <1>3 DEF Saves, Replaced

-----------------------------------------------------------------------------
(* The invariant *)

\* What the film of a session should have been made from.
Settings(s) == [theme |-> s.theme, cast |-> s.cast, plan |-> s.scenes]
Shown(s) == s.clip \in Requests /\ films[s.clip] = Settings(s)

Saving(q) == q.at \in {"select", "commit"}
\* q is at one of the places, or will be once its checkpoint is committed.
Toward(q, places) == q.at \in places \/ (Saving(q) /\ q.then \in places)

\* The copy of a request at work.
Copy(r, q) ==
    /\ q.fs.status # "absent"
    /\ q.fs.clip # None => films[q.fs.clip] # NoFilm
    /\ Toward(q, {"planned", "render"}) => q.plan \in Plans
    /\ Saving(q) =>
         /\ q.then \notin {"interpret", "parse", "select", "commit", "broken", "unsaved", "dropped"}
         /\ q.then = "render" => q.fs.status = "rendering"
         /\ q.then = "failed" => q.fs.status = "failed"
         /\ q.then = "done" => q.fs.status = "done" /\ q.fs.clip = r /\ films[r] = Settings(q.fs)
    /\ q.kind = "stream" =>
         /\ ~Toward(q, {"parse", "clarified"})
         /\ q.fs.status = "done" => q.at = "interpret" \/ Toward(q, {"done"})
    /\ q.kind = "edit" => ~Toward(q, {"interpret", "planned"})

\* What a request that has the session to itself knows of the row.
Faithful(q) ==
    /\ Continues(q.fs.history, row.history)
    /\ q.at = "commit" => q.dirty = Differing(q.fs, row)
    /\ q.at = "render" => row.status = "rendering"
    /\ ~disturbed /\ Toward(q, {"parse", "clarified"}) /\ q.fs.status = "done" => Shown(q.fs)

Copies == \A r \in Requests : InFlight(r) => Copy(r, req[r])
FaithfulCopies == \A r \in Requests : InFlight(r) /\ req[r].alone => Faithful(req[r])

\* Requests begin in order; one that is alone is the latest, and the only one.
Numbered == \A r \in Requests : (r > latest) <=> (req[r].at = "new")
Solo == latest > 0 /\ req[latest].alone => \A q \in Requests : InFlight(q) => q = latest
AloneIsLatest == \A r \in Requests : InFlight(r) /\ req[r].alone => r = latest
Undisturbed == ~disturbed => \A r \in Requests : InFlight(r) => req[r].alone

NothingYet == row.status = "absent" => row.history = <<>> /\ latest = 0

Order == Numbered /\ Solo /\ AloneIsLatest /\ Undisturbed /\ NothingYet
Work == Copies /\ FaithfulCopies
Told == ClipIsStored /\ OutcomeStands /\ FilmMatchesSession
Inv == TypeOK /\ Order /\ Work /\ Told

-----------------------------------------------------------------------------
(* A step that changes only the working state of one request *)

\* r stays at work and its new state is as the invariant wants it.
Works(r, new) ==
    /\ InFlight(r) /\ new.at \in Working
    /\ new.kind = req[r].kind /\ new.alone = req[r].alone
    /\ Replaced(r, new)
    /\ Copy(r, new)
    /\ new.alone => Faithful(new)

LEMMA WorksElsewhere ==
    ASSUME TypeOK, NEW r \in Requests, NEW new \in ReqStates, Works(r, new)
    PROVE  /\ req'[r] = new
           /\ \A q \in Requests : q # r => req'[q] = req[q]
           /\ \A q \in Requests : InFlight(q)' <=> InFlight(q)
           /\ \A q \in Requests : req'[q].alone = req[q].alone /\ req'[q].kind = req[q].kind
           /\ row' = row /\ films' = films /\ latest' = latest /\ disturbed' = disturbed
<1>1. req' = [req EXCEPT ![r] = new]
  BY DEF Works, Replaced
<1>2. req'[r] = new /\ \A q \in Requests : q # r => req'[q] = req[q]
  BY <1>1 DEF TypeOK
<1>3. row' = row /\ films' = films /\ latest' = latest /\ disturbed' = disturbed
  BY DEF Works, Replaced
<1>4. \A q \in Requests : InFlight(q)' <=> InFlight(q)
  BY <1>2 DEF Works, InFlight
<1>5. \A q \in Requests : req'[q].alone = req[q].alone /\ req'[q].kind = req[q].kind
  BY <1>2 DEF Works
<1> QED
  BY <1>2, <1>3, <1>4, <1>5

LEMMA WorksOrder ==
    ASSUME TypeOK, Order, NEW r \in Requests, NEW new \in ReqStates, Works(r, new)
    PROVE  Order'
<1> USE WorksElsewhere
<1>1. Numbered'
  <2>1. new.at # "new" /\ req[r].at # "new"
    BY DEF Works, InFlight, Working
  <2> QED
    BY <2>1 DEF Order, Numbered
<1>2. Solo'
  <2>1. latest \in 0 .. MaxRequests
    BY DEF TypeOK
  <2>2. latest > 0 => latest \in Requests
    BY <2>1, SessionAssumption DEF Requests
  <2> QED
    BY <2>2 DEF Order, Solo
<1>3. AloneIsLatest'
  BY DEF Order, AloneIsLatest
<1>4. Undisturbed'
  BY DEF Order, Undisturbed
<1>5. NothingYet'
  BY DEF Order, NothingYet
<1> QED
  BY <1>1, <1>2, <1>3, <1>4, <1>5 DEF Order

LEMMA WorksWork ==
    ASSUME TypeOK, Work, NEW r \in Requests, NEW new \in ReqStates, Works(r, new)
    PROVE  Work'
<1>1. Copies'
  <2> SUFFICES ASSUME NEW q \in Requests, InFlight(q)' PROVE Copy(q, req[q])'
    BY DEF Copies
  <2>1. CASE q = r
    BY <2>1, WorksElsewhere DEF Works, Copy, Settings, Toward, Saving
  <2>2. CASE q # r
    <3>1. Copy(q, req[q])
      BY WorksElsewhere DEF Work, Copies
    <3> QED
      BY <2>2, <3>1, WorksElsewhere DEF Copy, Settings, Toward, Saving
  <2> QED
    BY <2>1, <2>2
<1>2. FaithfulCopies'
  <2> SUFFICES ASSUME NEW q \in Requests, InFlight(q)', req'[q].alone PROVE Faithful(req[q])'
    BY DEF FaithfulCopies
  <2>1. Faithful(req'[q])
    BY WorksElsewhere DEF Works, Work, FaithfulCopies
  <2> QED
    BY <2>1, WorksElsewhere DEF Faithful, Shown, Settings, Toward, Saving
<1> QED
  BY <1>1, <1>2 DEF Work

LEMMA WorksTold ==
    ASSUME TypeOK, Told, NEW r \in Requests, NEW new \in ReqStates, Works(r, new)
    PROVE  Told'
<1> USE WorksElsewhere
<1>1. ClipIsStored'
  BY DEF Told, ClipIsStored
<1>2. OutcomeStands'
  <2>1. latest > 0 => latest \in Requests
    BY SessionAssumption DEF Requests, TypeOK
  <2>2. new.at \notin {"done", "failed"}
    BY DEF Works, Working
  <2> QED
    BY <2>1, <2>2 DEF Told, OutcomeStands
<1>3. FilmMatchesSession'
  BY DEF Told, FilmMatchesSession
<1> QED
  BY <1>1, <1>2, <1>3 DEF Told

-----------------------------------------------------------------------------
(* The steps up to the checkpoint *)

LEMMA SavesWorks ==
    ASSUME TypeOK, NEW r \in Requests, NEW fs \in Sessions, NEW p \in Plans \union {None},
           NEW next \in {"plan", "planned", "render", "failed", "clarified"},
           Saves(r, fs, p, next),
           fs.status # "absent",
           fs.clip # None => films[fs.clip] # NoFilm,
           next \in {"planned", "render"} => p \in Plans,
           next = "render" => fs.status = "rendering",
           next = "failed" => fs.status = "failed",
           req[r].kind = "stream" => next # "clarified" /\ fs.status # "done",
           req[r].kind = "edit" => next # "planned",
           req[r].alone => Continues(fs.history, row.history),
           req[r].alone /\ ~disturbed /\ next = "clarified" /\ fs.status = "done" => Shown(fs)
    PROVE  \E new \in ReqStates : Works(r, new)
<1> DEFINE new == [req[r] EXCEPT !.plan = p, !.fs = fs, !.at = "select", !.then = next]
<1>1. new \in ReqStates
  BY TypeSaves DEF Working, Ends
<1>2. req[r] \in ReqStates
  BY DEF TypeOK
<1>3. /\ new.plan = p /\ new.fs = fs /\ new.at = "select" /\ new.then = next
      /\ new.kind = req[r].kind /\ new.alone = req[r].alone
  BY <1>2 DEF ReqStates
<1>4. InFlight(r) /\ Replaced(r, new)
  BY DEF Saves, InFlight
<1> HIDE DEF new
<1>5. Copy(r, new)
  BY <1>3 DEF Copy, Toward, Saving
<1>6. new.alone => Faithful(new)
  BY <1>3 DEF Faithful, Toward, Saving
<1> QED
  BY <1>1, <1>3, <1>4, <1>5, <1>6 DEF Works, Working

\* What the invariant says of a request at one of the places of its own code.
LEMMA AtWork ==
    ASSUME TypeOK, Work, NEW r \in Requests, InFlight(r)
    PROVE  /\ req[r] \in ReqStates /\ req[r].fs \in Sessions /\ row \in Sessions
           /\ req[r].plan \in Plans \union {None} /\ req[r].kind \in {"stream", "edit"}
           /\ Copy(r, req[r])
           /\ req[r].alone => Faithful(req[r])
<1>1. req[r] \in ReqStates /\ row \in Sessions
  BY DEF TypeOK
<1> QED
  BY <1>1 DEF ReqStates, Work, Copies, FaithfulCopies

\* A copy to which something was said continues what it continued before.
LEMMA SaidFaithful ==
    ASSUME NEW s \in Sessions, NEW t \in Sessions, NEW r \in Requests,
           Continues(s.history, t.history)
    PROVE  Continues(Said(s, "assistant", r).history, t.history)
<1>1. Said(s, "assistant", r) \in Sessions
  BY SaidType
<1>2. /\ Len(s.history) \in Nat /\ Len(t.history) \in Nat
      /\ Len(Said(s, "assistant", r).history) \in Nat
  BY <1>1 DEF Sessions
<1>3. Continues(Said(s, "assistant", r).history, s.history)
  BY SaidContinues
<1> QED
  BY <1>2, <1>3, ContinuesTwice

LEMMA InterpretedWorks ==
    ASSUME TypeOK, Work, NEW r \in Requests, Interpreted(r)
    PROVE  \E new \in ReqStates : Works(r, new)
<1> DEFINE s == [req[r].fs EXCEPT !.status = "ready_to_render"]
           fs == Said(s, "assistant", r)
<1>1. req[r].at = "interpret" /\ InFlight(r)
  BY DEF Interpreted, InFlight, Working
<1>2. s \in Sessions /\ s.history = req[r].fs.history /\ s.clip = req[r].fs.clip
      /\ s.status = "ready_to_render"
  BY <1>1, AtWork DEF Sessions, Status
<1>3. Saves(r, fs, req[r].plan, "plan")
  <2>1. fs \in Sessions
    BY <1>2, SaidType
  <2> QED
    BY <1>1, <2>1, CheckpointSaves DEF Interpreted, Working
<1> HIDE DEF s
<1>4. fs \in Sessions /\ fs.status = "ready_to_render" /\ fs.clip = req[r].fs.clip
  BY <1>2, SaidType
<1>5. req[r].alone => Continues(fs.history, row.history)
  BY <1>1, <1>2, AtWork, SaidFaithful DEF Faithful
<1>6. fs.clip # None => films[fs.clip] # NoFilm
  BY <1>1, <1>4, AtWork DEF Copy
<1>7. req[r].plan \in Plans \union {None}
  BY <1>1, AtWork
<1> HIDE DEF fs
<1> QED
  BY <1>3, <1>4, <1>5, <1>6, <1>7, SavesWorks

\* What apply_edit does with a message: a setting changes or none does.
LEMMA EditedWorks ==
    ASSUME TypeOK, Work, NEW r \in Requests, req[r].at = "parse",
           NEW s \in Sessions, s.history = req[r].fs.history, s.clip = req[r].fs.clip,
           s.status = req[r].fs.status,
           NEW next \in {"plan", "clarified"}, next = "clarified" => s = req[r].fs,
           Checkpoint(r, Said(s, "assistant", r), next), UNCHANGED <<row, films, latest, disturbed>>
    PROVE  \E new \in ReqStates : Works(r, new)
<1> DEFINE fs == Said(s, "assistant", r)
<1>1. InFlight(r)
  BY DEF InFlight, Working
<1>2. /\ fs \in Sessions /\ fs.status = s.status /\ fs.clip = s.clip
      /\ fs.theme = s.theme /\ fs.cast = s.cast /\ fs.scenes = s.scenes
  BY SaidType
<1>3. Saves(r, fs, req[r].plan, next)
  BY <1>2, CheckpointSaves DEF Working, Ends
<1>4. req[r].alone => Continues(fs.history, row.history)
  BY <1>1, AtWork, SaidFaithful DEF Faithful
<1>5. (fs.clip # None => films[fs.clip] # NoFilm) /\ fs.status # "absent"
  BY <1>1, <1>2, AtWork DEF Copy
<1>6. req[r].plan \in Plans \union {None}
  BY <1>1, AtWork
<1>7. req[r].kind # "stream"
  BY <1>1, AtWork DEF Copy, Toward
<1>8. req[r].alone /\ ~disturbed /\ next = "clarified" /\ fs.status = "done" => Shown(fs)
  BY <1>1, <1>2, AtWork DEF Faithful, Toward, Shown, Settings
<1> HIDE DEF fs
<1> QED
  BY <1>2, <1>3, <1>4, <1>5, <1>6, <1>7, <1>8, SavesWorks

LEMMA EditWorks ==
    ASSUME TypeOK, Work, NEW r \in Requests,
           \/ Rerender(r) \/ Clarify(r)
           \/ \E theme \in Themes : ChangeTheme(r, theme)
           \/ \E cast \in Casts : ChangeVoice(r, cast)
    PROVE  \E new \in ReqStates : Works(r, new)
<1>1. req[r].at = "parse" /\ InFlight(r)
  BY DEF Rerender, Clarify, ChangeTheme, ChangeVoice, InFlight, Working
<1>2. req[r].fs \in Sessions
  BY <1>1, AtWork
<1>3. CASE Rerender(r)
  BY <1>1, <1>2, <1>3, EditedWorks DEF Rerender
<1>4. CASE Clarify(r)
  BY <1>1, <1>2, <1>4, EditedWorks DEF Clarify
<1>5. ASSUME NEW theme \in Themes, ChangeTheme(r, theme)
      PROVE  \E new \in ReqStates : Works(r, new)
  <2> DEFINE s == [req[r].fs EXCEPT !.theme = theme]
  <2>1. s \in Sessions /\ s.history = req[r].fs.history /\ s.clip = req[r].fs.clip
        /\ s.status = req[r].fs.status
    BY <1>2 DEF Sessions
  <2>2. Checkpoint(r, Said(s, "assistant", r), "plan") /\ UNCHANGED <<row, films, latest, disturbed>>
    BY <1>5 DEF ChangeTheme
  <2> HIDE DEF s
  <2> QED
    BY <1>1, <2>1, <2>2, EditedWorks
<1>6. ASSUME NEW cast \in Casts, ChangeVoice(r, cast)
      PROVE  \E new \in ReqStates : Works(r, new)
  <2> DEFINE s == [req[r].fs EXCEPT !.cast = cast]
  <2>1. s \in Sessions /\ s.history = req[r].fs.history /\ s.clip = req[r].fs.clip
        /\ s.status = req[r].fs.status
    BY <1>2 DEF Sessions
  <2>2. Checkpoint(r, Said(s, "assistant", r), "plan") /\ UNCHANGED <<row, films, latest, disturbed>>
    BY <1>6 DEF ChangeVoice
  <2> HIDE DEF s
  <2> QED
    BY <1>1, <2>1, <2>2, EditedWorks
<1> QED
  BY <1>3, <1>4, <1>5, <1>6

LEMMA StoryboardedWorks ==
    ASSUME TypeOK, Work, NEW r \in Requests, NEW plan \in Plans, Storyboarded(r, plan)
    PROVE  \E new \in ReqStates : Works(r, new)
<1>1. req[r].at = "plan" /\ InFlight(r)
  BY DEF Storyboarded, InFlight, Working
<1> DEFINE old == req[r]
<1>2. /\ old \in ReqStates /\ old.fs \in Sessions
      /\ old.kind \in {"stream", "edit"} /\ Copy(r, old)
      /\ old.alone => Faithful(old)
  BY <1>1, AtWork
<1>3. req[r] = old
  OBVIOUS
<1>4. CASE old.kind = "stream"
  <2> DEFINE fs == [old.fs EXCEPT !.board = plan]
  <2>1. /\ fs \in Sessions /\ fs.history = old.fs.history /\ fs.clip = old.fs.clip
        /\ fs.status = old.fs.status
    BY <1>2 DEF Sessions
  <2>2. Saves(r, fs, plan, "planned")
    <3>1. req' = [req EXCEPT ![r] = [old EXCEPT !.plan = plan, !.fs = fs, !.at = "select",
                                                !.then = "planned"]]
      BY <1>2, <1>4 DEF Storyboarded, TypeOK
    <3> QED
      BY <1>1, <3>1 DEF Saves, Replaced, Storyboarded, Working
  <2>3. fs.status # "done" /\ fs.status # "absent" /\ (fs.clip # None => films[fs.clip] # NoFilm)
    BY <1>1, <1>2, <1>4, <2>1 DEF Copy, Toward, Saving
  <2>4. old.alone => Continues(fs.history, row.history)
    BY <1>2, <2>1 DEF Faithful
  <2> HIDE DEF fs
  <2> QED
    BY <1>4, <2>1, <2>2, <2>3, <2>4, SavesWorks
<1>5. CASE old.kind = "edit"
  <2> DEFINE fs == [old.fs EXCEPT !.status = "rendering"]
  <2>1. /\ fs \in Sessions /\ fs.history = old.fs.history /\ fs.clip = old.fs.clip
        /\ fs.status = "rendering"
    BY <1>2 DEF Sessions, Status
  <2>2. Saves(r, fs, plan, "render")
    <3>1. req' = [req EXCEPT ![r] = [old EXCEPT !.plan = plan, !.fs = fs, !.at = "select",
                                                !.then = "render"]]
      BY <1>2, <1>5 DEF Storyboarded, TypeOK
    <3> QED
      BY <1>1, <3>1 DEF Saves, Replaced, Storyboarded, Working
  <2>3. fs.clip # None => films[fs.clip] # NoFilm
    BY <1>2, <2>1 DEF Copy
  <2>4. old.alone => Continues(fs.history, row.history)
    BY <1>2, <2>1 DEF Faithful
  <2> HIDE DEF fs
  <2> QED
    BY <1>5, <2>1, <2>2, <2>3, <2>4, SavesWorks
<1> QED
  BY <1>2, <1>4, <1>5

\* A checkpoint of a new status and nothing else.
LEMMA StatusWorks ==
    ASSUME TypeOK, Work, NEW r \in Requests, InFlight(r), ~Saving(req[r]),
           NEW status \in {"rendering", "failed"}, NEW next \in {"render", "failed"},
           next = "render" => status = "rendering" /\ req[r].plan \in Plans,
           next = "failed" => status = "failed",
           Checkpoint(r, [req[r].fs EXCEPT !.status = status], next),
           UNCHANGED <<row, films, latest, disturbed>>
    PROVE  \E new \in ReqStates : Works(r, new)
<1> DEFINE fs == [req[r].fs EXCEPT !.status = status]
<1>1. /\ fs \in Sessions /\ fs.history = req[r].fs.history /\ fs.clip = req[r].fs.clip
      /\ fs.status = status
  BY AtWork DEF Sessions, Status
<1>2. Saves(r, fs, req[r].plan, next)
  BY <1>1, CheckpointSaves DEF Working, Ends, InFlight, Saving
<1>3. fs.clip # None => films[fs.clip] # NoFilm
  BY <1>1, AtWork DEF Copy
<1>4. req[r].alone => Continues(fs.history, row.history)
  BY <1>1, AtWork DEF Faithful
<1>5. req[r].plan \in Plans \union {None}
  BY AtWork
<1> HIDE DEF fs
<1> QED
  BY <1>1, <1>2, <1>3, <1>4, <1>5, SavesWorks

LEMMA PlannedWorks ==
    ASSUME TypeOK, Work, NEW r \in Requests, Planned(r)
    PROVE  \E new \in ReqStates : Works(r, new)
<1>1. req[r].at = "planned" /\ InFlight(r) /\ ~Saving(req[r])
  BY DEF Planned, InFlight, Working, Saving
<1>2. req[r].plan \in Plans
  BY <1>1, AtWork DEF Copy, Toward
<1> QED
  BY <1>1, <1>2, StatusWorks DEF Planned

LEMMA ServiceFailsWorks ==
    ASSUME TypeOK, Work, NEW r \in Requests, ServiceFails(r)
    PROVE  \E new \in ReqStates : Works(r, new)
<1>1. InFlight(r) /\ ~Saving(req[r])
  BY DEF ServiceFails, InFlight, Working, Saving
<1> QED
  BY <1>1, StatusWorks DEF ServiceFails

LEMMA SelectWorks ==
    ASSUME TypeOK, Work, NEW r \in Requests, Select(r)
    PROVE  \E new \in ReqStates : Works(r, new)
<1> DEFINE d == Differing(req[r].fs, row)
           new == [req[r] EXCEPT !.dirty = d, !.at = "commit"]
<1>1. req[r].at = "select" /\ InFlight(r)
  BY DEF Select, InFlight, Working
<1>2. d \in SUBSET Columns
  BY DEF Differing
<1> HIDE DEF d
<1>3. req[r] \in ReqStates
  BY DEF TypeOK
<1>4. new \in ReqStates
  BY <1>2, <1>3 DEF ReqStates, Working
<1>5. /\ new.plan = req[r].plan /\ new.fs = req[r].fs /\ new.at = "commit"
      /\ new.then = req[r].then /\ new.kind = req[r].kind /\ new.alone = req[r].alone
      /\ new.dirty = d
  BY <1>3 DEF ReqStates
<1>6. req' = [req EXCEPT ![r] = new]
  BY DEF Select, TypeOK, d
<1>7. Replaced(r, new)
  BY <1>6 DEF Replaced, Select
<1> HIDE DEF new
<1>8. Copy(r, new)
  BY <1>1, <1>5, AtWork DEF Copy, Toward, Saving
<1>9. new.alone => Faithful(new)
  BY <1>1, <1>5, AtWork DEF Faithful, Toward, Saving, d
<1> QED
  BY <1>1, <1>4, <1>5, <1>7, <1>8, <1>9 DEF Works, Working

-----------------------------------------------------------------------------
(* The film is stored *)

\* With the row alone to itself, the request at work is the only one.
LEMMA OnlyOne ==
    ASSUME TypeOK, Order, NEW r \in Requests, InFlight(r)
    PROVE  /\ r <= latest /\ latest \in Requests
           /\ req[latest].alone => r = latest
           /\ req[r].alone => r = latest
           /\ \A q \in Requests : InFlight(q) /\ req[q].alone => q = r
           /\ row.status # "absent"
           /\ ~disturbed => req[r].alone
<1>1. req[r].at # "new"
  BY DEF InFlight, Working
<1>2. latest \in 0 .. MaxRequests
  BY DEF TypeOK
<1>3. r <= latest /\ latest \in Requests /\ latest > 0
  BY <1>1, <1>2, SessionAssumption DEF Order, Numbered, Requests
<1>4. req[latest].alone => r = latest
  BY <1>3 DEF Order, Solo
<1>5. req[r].alone => r = latest
  BY DEF Order, AloneIsLatest
<1>6. \A q \in Requests : InFlight(q) /\ req[q].alone => q = r
  BY <1>4 DEF Order, AloneIsLatest
<1>7. row.status # "absent"
  BY <1>3 DEF Order, NothingYet
<1>8. ~disturbed => req[r].alone
  BY DEF Order, Undisturbed
<1> QED
  BY <1>3, <1>4, <1>5, <1>6, <1>7, <1>8

LEMMA RenderedStores ==
    ASSUME TypeOK, Work, NEW r \in Requests, Rendered(r)
    PROVE  \E new \in ReqStates :
             /\ req' = [req EXCEPT ![r] = new]
             /\ new.kind = req[r].kind /\ new.alone = req[r].alone
             /\ new.at = "select" /\ new.then = "done"
             /\ new.fs.status = "done" /\ new.fs.clip = r
             /\ films' = [films EXCEPT ![r] = Settings(new.fs)]
             /\ Settings(new.fs) \in Films /\ Settings(new.fs) # NoFilm
             /\ new.alone => Continues(new.fs.history, row.history)
<1> DEFINE old == req[r]
           s == [old.fs EXCEPT !.clip = r, !.scenes = old.plan, !.status = "done"]
           fs == IF old.kind = "stream" THEN Said(s, "assistant", r) ELSE s
           new == [old EXCEPT !.fs = fs, !.at = "select", !.then = "done"]
<1>1. old.at = "render" /\ InFlight(r)
  BY DEF Rendered, InFlight, Working
<1>2. /\ old \in ReqStates /\ old.fs \in Sessions /\ row \in Sessions
      /\ Copy(r, old) /\ (old.alone => Faithful(old))
  BY <1>1, AtWork
<1>3. old.plan \in Plans
  BY <1>1, <1>2 DEF Copy, Toward
<1>4. /\ s \in Sessions /\ s.history = old.fs.history /\ s.clip = r /\ s.scenes = old.plan
      /\ s.status = "done" /\ s.theme = old.fs.theme /\ s.cast = old.fs.cast
  BY <1>2, <1>3 DEF Sessions, Status
<1>5. /\ req' = [req EXCEPT ![r] = new]
      /\ films' = [films EXCEPT ![r] = [theme |-> s.theme, cast |-> s.cast, plan |-> old.plan]]
  BY DEF Rendered, Checkpoint, TypeOK
<1> HIDE DEF s
<1>6. /\ fs \in Sessions /\ fs.clip = r /\ fs.scenes = old.plan /\ fs.status = "done"
      /\ fs.theme = s.theme /\ fs.cast = s.cast
  BY <1>4, SaidType
<1>7. old.alone => Continues(fs.history, row.history)
  BY <1>2, <1>4, SaidFaithful DEF Faithful
<1> HIDE DEF fs
<1>8. /\ new \in ReqStates
      /\ new.kind = req[r].kind /\ new.alone = req[r].alone
      /\ new.at = "select" /\ new.then = "done" /\ new.fs = fs
  <2>1. "select" \in Working /\ "done" \in Ends
    BY DEF Working, Ends
  <2>2. old \in ReqStates /\ fs \in Sessions
    BY <1>2, <1>6
  <2> HIDE DEF old
  <2>3. /\ new \in ReqStates
        /\ new.kind = old.kind /\ new.alone = old.alone
        /\ new.at = "select" /\ new.then = "done" /\ new.fs = fs
    BY <2>1, <2>2 DEF ReqStates
  <2> QED
    BY <2>3 DEF old
<1>9. /\ films' = [films EXCEPT ![r] = Settings(fs)]
      /\ Settings(fs) \in Films /\ Settings(fs) # NoFilm
  <2>1. Settings(fs) = [theme |-> s.theme, cast |-> s.cast, plan |-> old.plan]
    BY <1>6 DEF Settings
  <2>2. fs.theme \in Themes \union {None} /\ fs.cast \in Casts \union {None}
    BY <1>6 DEF Sessions
  <2>3. Settings(fs) \in Films
    BY <1>3, <1>6, <2>1, <2>2 DEF Films
  <2>4. Settings(fs).plan # NoFilm.plan
    BY <1>3, <2>1, SessionAssumption DEF NoFilm
  <2> QED
    BY <1>5, <2>1, <2>3, <2>4
<1>10. req' = [req EXCEPT ![r] = new]
  BY <1>5
<1>11. new.fs.status = "done" /\ new.fs.clip = r /\ Settings(new.fs) = Settings(fs)
  BY <1>6, <1>8
<1>12. new.alone => Continues(new.fs.history, row.history)
  BY <1>7, <1>8
<1> HIDE DEF new, old
<1>13. /\ films' = [films EXCEPT ![r] = Settings(new.fs)]
       /\ Settings(new.fs) \in Films /\ Settings(new.fs) # NoFilm
  BY <1>9, <1>11
<1> QED
  BY <1>8, <1>10, <1>11, <1>12, <1>13

LEMMA RenderedKeeps ==
    ASSUME TypeOK, Order, Work, Told, NEW r \in Requests, Rendered(r)
    PROVE  TypeOK' /\ Order' /\ Work' /\ Told'
<1>1. req[r].at = "render" /\ InFlight(r)
  BY DEF Rendered, InFlight, Working
<1>2. PICK new \in ReqStates :
             /\ req' = [req EXCEPT ![r] = new]
             /\ new.kind = req[r].kind /\ new.alone = req[r].alone
             /\ new.at = "select" /\ new.then = "done"
             /\ new.fs.status = "done" /\ new.fs.clip = r
             /\ films' = [films EXCEPT ![r] = Settings(new.fs)]
             /\ Settings(new.fs) \in Films /\ Settings(new.fs) # NoFilm
             /\ new.alone => Continues(new.fs.history, row.history)
  BY RenderedStores
<1>3. row' = row /\ latest' = latest /\ disturbed' = disturbed
  BY DEF Rendered
<1>4. /\ req'[r] = new /\ \A q \in Requests : q # r => req'[q] = req[q]
      /\ films'[r] = Settings(new.fs) /\ films'[r] # NoFilm
      /\ \A q \in Requests : q # r => films'[q] = films[q]
      /\ \A q \in Requests : films[q] # NoFilm => films'[q] # NoFilm
  BY <1>2 DEF TypeOK
<1>5. /\ \A q \in Requests : InFlight(q)' <=> InFlight(q)
      /\ \A q \in Requests : req'[q].alone = req[q].alone /\ req'[q].kind = req[q].kind
  BY <1>1, <1>2, <1>4 DEF InFlight, Working
<1>6. TypeOK'
  BY <1>2, <1>3 DEF TypeOK
<1>7. Order'
  <2>1. latest > 0 => latest \in Requests
    BY SessionAssumption DEF Requests, TypeOK
  <2>2. Numbered'
    BY <1>1, <1>2, <1>3, <1>4 DEF Order, Numbered
  <2>3. Solo'
    BY <1>3, <1>5, <2>1 DEF Order, Solo
  <2>4. AloneIsLatest' /\ Undisturbed' /\ NothingYet'
    BY <1>3, <1>5 DEF Order, AloneIsLatest, Undisturbed, NothingYet
  <2> QED
    BY <2>2, <2>3, <2>4 DEF Order
<1>8. Copies'
  <2> SUFFICES ASSUME NEW q \in Requests, InFlight(q)' PROVE Copy(q, req[q])'
    BY DEF Copies
  <2>1. CASE q = r
    <3>1. new.kind = "stream" \/ new.kind = "edit"
      BY DEF ReqStates
    <3> QED
      BY <1>2, <1>4, <2>1, <3>1 DEF Copy, Toward, Saving, Settings
  <2>2. CASE q # r
    <3>1. Copy(q, req[q]) /\ req'[q] = req[q] /\ films'[q] = films[q]
      BY <1>4, <1>5, <2>2 DEF Work, Copies
    <3>2. req[q].fs.clip \in Requests \union {None}
      BY DEF TypeOK, ReqStates, Sessions
    <3> QED
      BY <1>4, <3>1, <3>2 DEF Copy, Toward, Saving, Settings
  <2> QED
    BY <2>1, <2>2
<1>9. FaithfulCopies'
  <2> SUFFICES ASSUME NEW q \in Requests, InFlight(q)', req'[q].alone PROVE Faithful(req[q])'
    BY DEF FaithfulCopies
  <2>1. q = r
    BY <1>1, <1>5, OnlyOne
  <2> QED
    BY <1>2, <1>3, <1>4, <2>1 DEF Faithful, Toward, Saving
<1>10. ClipIsStored'
  <2>1. row.clip \in Requests \union {None}
    BY DEF TypeOK, Sessions
  <2> QED
    BY <1>3, <1>4, <2>1 DEF Told, ClipIsStored
<1>11. OutcomeStands'
  <2>1. req[latest].alone /\ latest \in Requests => r = latest
    BY <1>1, OnlyOne
  <2>2. latest \in Requests
    BY <1>1, OnlyOne
  <2> QED
    BY <1>2, <1>3, <1>4, <1>5, <2>1, <2>2 DEF OutcomeStands
<1>12. FilmMatchesSession'
  <2>1. ~disturbed => row.status = "rendering"
    BY <1>1, OnlyOne, AtWork DEF Faithful
  <2> QED
    BY <1>3, <2>1 DEF FilmMatchesSession
<1> QED
  BY <1>6, <1>7, <1>8, <1>9, <1>10, <1>11, <1>12 DEF Work, Told

-----------------------------------------------------------------------------
(* The checkpoint is committed *)

\* What becomes of the request that committed.
After(r, new) ==
    /\ req' = [req EXCEPT ![r] = new]
    /\ new.at = req[r].then /\ new.kind = req[r].kind /\ new.alone = req[r].alone
    /\ req[r].then \notin Ends =>
         new.fs = req[r].fs /\ new.plan = req[r].plan /\ new.then = req[r].then

LEMMA CommitLeaves ==
    ASSUME TypeOK, NEW r \in Requests, Commit(r)
    PROVE  \E new \in ReqStates : After(r, new)
<1>1. req[r] \in ReqStates
  BY DEF TypeOK
<1>2. CASE req[r].then \in Ends
  <2> DEFINE new == Finished(r, req[r].then)
  <2>1. new \in ReqStates
    BY <1>2, FinishedType
  <2>2. new.at = req[r].then /\ new.kind = req[r].kind /\ new.alone = req[r].alone
    BY <1>1, FreshType DEF Finished, ReqStates, Fresh
  <2>3. req' = [req EXCEPT ![r] = new]
    BY <1>2 DEF Commit
  <2> HIDE DEF new
  <2> QED
    BY <1>2, <2>1, <2>2, <2>3 DEF After
<1>3. CASE req[r].then \notin Ends
  <2> DEFINE new == [req[r] EXCEPT !.at = req[r].then, !.dirty = {}]
  <2>1. new \in ReqStates
    BY <1>1 DEF ReqStates
  <2>2. /\ new.at = req[r].then /\ new.kind = req[r].kind /\ new.alone = req[r].alone
        /\ new.fs = req[r].fs /\ new.plan = req[r].plan /\ new.then = req[r].then
    BY <1>1 DEF ReqStates
  <2>3. req' = [req EXCEPT ![r] = new]
    BY <1>3 DEF Commit
  <2> HIDE DEF new
  <2> QED
    BY <2>1, <2>2, <2>3 DEF After
<1> QED
  BY <1>2, <1>3

LEMMA CommitRow ==
    ASSUME TypeOK, Order, Work, NEW r \in Requests, Commit(r)
    PROVE  /\ row' \in Sessions
           /\ row'.clip \in {row.clip, req[r].fs.clip}
           /\ row'.status # "absent"
           /\ req[r].alone => row' = req[r].fs
<1>1. req[r].at = "commit" /\ InFlight(r)
  BY DEF Commit, InFlight, Working
<1>2. /\ req[r] \in ReqStates /\ req[r].fs \in Sessions /\ row \in Sessions
      /\ req[r].fs.status # "absent" /\ (req[r].alone => Faithful(req[r]))
  BY <1>1, AtWork DEF Copy
<1>3. req[r].dirty \in SUBSET Columns
  BY <1>2 DEF ReqStates
<1>4. row' = Merged(row, req[r].fs, req[r].dirty)
  BY DEF Commit
<1>5. row.status # "absent"
  BY <1>1, OnlyOne
<1>6. req[r].alone => req[r].dirty = Differing(req[r].fs, row)
  BY <1>1, <1>2 DEF Faithful
<1> QED
  BY <1>2, <1>3, <1>4, <1>5, <1>6, MergedType, MergedFrom, MergedExactly

LEMMA CommitOrder ==
    ASSUME TypeOK, Order, Work, NEW r \in Requests, Commit(r), NEW new \in ReqStates, After(r, new)
    PROVE  Order'
<1>1. req[r].at = "commit" /\ InFlight(r)
  BY DEF Commit, InFlight, Working
<1>2. req'[r] = new /\ \A q \in Requests : q # r => req'[q] = req[q]
  BY DEF After, TypeOK
<1>3. latest' = latest /\ disturbed' = (disturbed /\ ~(req[r].then = "done" /\ req[r].alone))
  BY DEF Commit
<1>4. \A q \in Requests : /\ InFlight(q)' => InFlight(q)
                          /\ req'[q].alone = req[q].alone
  BY <1>1, <1>2 DEF After, InFlight
<1>5. latest \in Requests
  BY <1>1, OnlyOne
<1>6. new.at # "new"
  BY DEF After, ReqStates, Working, Ends, TypeOK
<1>7. Numbered'
  BY <1>1, <1>2, <1>3, <1>6 DEF Order, Numbered
<1>8. Solo' /\ AloneIsLatest'
  BY <1>3, <1>4, <1>5 DEF Order, Solo, AloneIsLatest
<1>9. Undisturbed'
  <2> SUFFICES ASSUME ~disturbed', NEW q \in Requests, InFlight(q)' PROVE req[q].alone
    BY <1>4 DEF Undisturbed
  <2>1. CASE ~disturbed
    BY <1>4, <2>1 DEF Order, Undisturbed
  <2>2. CASE disturbed
    <3>1. req[r].then = "done" /\ req[r].alone
      BY <1>3, <2>2
    <3>2. r = latest /\ q = latest
      BY <1>1, <1>4, <3>1, OnlyOne DEF Order, Solo
    <3> QED
      BY <3>1, <3>2
  <2> QED
    BY <2>1, <2>2
<1>10. NothingYet'
  BY CommitRow DEF NothingYet
<1> QED
  BY <1>7, <1>8, <1>9, <1>10 DEF Order

LEMMA CommitWork ==
    ASSUME TypeOK, Order, Work, NEW r \in Requests, Commit(r), NEW new \in ReqStates, After(r, new)
    PROVE  Work'
<1>1. req[r].at = "commit" /\ InFlight(r)
  BY DEF Commit, InFlight, Working
<1>2. req'[r] = new /\ \A q \in Requests : q # r => req'[q] = req[q]
  BY DEF After, TypeOK
<1>3. films' = films
  BY DEF Commit
<1>4. Copy(r, req[r]) /\ req[r].fs \in Sessions
  BY <1>1, AtWork
<1>5. req[r].then \notin Ends => req[r].then \in {"plan", "planned", "render"}
  BY <1>1, <1>4 DEF Copy, Saving, TypeOK, ReqStates, Working
<1>6. Copies'
  <2> SUFFICES ASSUME NEW q \in Requests, InFlight(q)' PROVE Copy(q, req[q])'
    BY DEF Copies
  <2>1. CASE q = r
    <3>1. req[r].then \in {"plan", "planned", "render"}
      BY <1>2, <1>5, <2>1 DEF After, InFlight, Working, Ends
    <3>2. /\ new.at = req[r].then /\ new.kind = req[r].kind /\ new.fs = req[r].fs
          /\ new.plan = req[r].plan
      BY <3>1 DEF After, Ends
    <3>3. Copy(r, new)
      BY <1>1, <1>4, <3>1, <3>2 DEF Copy, Toward, Saving
    <3> QED
      BY <1>2, <1>3, <2>1, <3>3 DEF Copy, Toward, Saving, Settings
  <2>2. CASE q # r
    <3>1. Copy(q, req[q])
      BY <1>2, <2>2 DEF Work, Copies, InFlight
    <3> QED
      BY <1>2, <1>3, <2>2, <3>1 DEF Copy, Toward, Saving, Settings
  <2> QED
    BY <2>1, <2>2
<1>7. FaithfulCopies'
  <2> SUFFICES ASSUME NEW q \in Requests, InFlight(q)', req'[q].alone PROVE Faithful(req[q])'
    BY DEF FaithfulCopies
  <2>1. q = r
    BY <1>1, <1>2, OnlyOne DEF InFlight
  <2>2. req[r].then \in {"plan", "planned", "render"}
    BY <1>2, <1>5, <2>1 DEF After, InFlight, Working, Ends
  <2>3. new.at = req[r].then /\ new.fs = req[r].fs /\ new.alone = req[r].alone
    BY <2>2 DEF After, Ends
  <2>4. row' = new.fs
    BY <1>2, <2>1, <2>3, CommitRow
  <2>5. Continues(new.fs.history, row'.history)
    BY <1>4, <2>3, <2>4, ContinuesSelf
  <2>6. new.at = "render" => row'.status = "rendering"
    BY <1>1, <1>4, <2>3, <2>4 DEF Copy, Saving
  <2> QED
    BY <1>2, <2>1, <2>2, <2>3, <2>5, <2>6 DEF Faithful, Toward, Saving
<1> QED
  BY <1>6, <1>7 DEF Work

LEMMA CommitTold ==
    ASSUME TypeOK, Order, Work, Told, NEW r \in Requests, Commit(r),
           NEW new \in ReqStates, After(r, new)
    PROVE  Told'
<1> DEFINE q == req[r]
           fs == q.fs
<1>1. q.at = "commit" /\ InFlight(r)
  BY DEF Commit, InFlight, Working
<1>2. req'[r] = new /\ (\A x \in Requests : x # r => req'[x] = req[x])
      /\ new.at = q.then /\ new.alone = q.alone /\ new.kind = q.kind
  BY DEF After, TypeOK
<1>3. films' = films /\ latest' = latest
      /\ disturbed' = (disturbed /\ ~(q.then = "done" /\ q.alone))
  BY DEF Commit
<1>4. /\ Copy(r, q) /\ (q.alone => Faithful(q)) /\ q.kind \in {"stream", "edit"}
      /\ q.then \in Working \union Ends
  BY <1>1, AtWork DEF ReqStates
<1>5. /\ row'.clip \in {row.clip, fs.clip} /\ (q.alone => row' = fs)
  BY CommitRow
<1>6. /\ q.then = "done" => fs.status = "done" /\ fs.clip = r /\ films[r] = Settings(fs)
      /\ q.then = "failed" => fs.status = "failed"
  BY <1>1, <1>4 DEF Copy, Saving
<1>7. ClipIsStored'
  BY <1>3, <1>4, <1>5 DEF Copy, Told, ClipIsStored
<1>8. OutcomeStands'
  <2> SUFFICES ASSUME req'[latest].alone
               PROVE  /\ req'[latest].at = "done" =>
                           /\ row'.status = "done" /\ row'.clip = latest
                           /\ films[latest] = Settings(row')
                      /\ req'[latest].at = "failed" => row'.status = "failed"
    BY <1>3 DEF OutcomeStands, Settings
  <2>1. latest \in Requests /\ r = latest
    BY <1>1, <1>2, OnlyOne
  <2>2. row' = fs /\ new.at = q.then
    BY <1>2, <1>5, <2>1
  <2> QED
    BY <1>2, <1>6, <2>1, <2>2
<1>9. FilmMatchesSession'
  <2> SUFFICES ASSUME row'.status = "done", ~disturbed',
                      \A x \in Requests : InFlight(x)' => req'[x].kind = "stream"
               PROVE  row'.clip \in Requests /\ films[row'.clip] = Settings(row')
    BY <1>3 DEF FilmMatchesSession, Settings
  <2>1. q.alone
    BY <1>1, <1>3, OnlyOne
  <2>2. row' = fs
    BY <1>5, <2>1
  <2>3. CASE q.then = "done"
    BY <1>6, <2>2, <2>3
  <2>4. CASE q.then # "done"
    <3>1. ~disturbed /\ fs.status = "done"
      BY <1>3, <2>2, <2>4
    <3>2. q.kind = "edit"
      BY <1>1, <1>4, <2>4, <3>1 DEF Copy, Toward, Saving
    <3>3. new.at \notin Working
      BY <1>2, <3>2 DEF InFlight
    <3>4. q.then = "clarified"
      BY <1>1, <1>2, <1>4, <1>6, <2>4, <3>1, <3>3 DEF Copy, Saving, Working, Ends
    <3>5. Shown(fs)
      BY <1>1, <1>4, <2>1, <3>1, <3>4 DEF Faithful, Toward, Saving
    <3> QED
      BY <2>2, <3>5 DEF Shown
  <2> QED
    BY <2>3, <2>4
<1> QED
  BY <1>7, <1>8, <1>9 DEF Told

LEMMA CommitKeeps ==
    ASSUME TypeOK, Order, Work, Told, NEW r \in Requests, Commit(r)
    PROVE  TypeOK' /\ Order' /\ Work' /\ Told'
<1>1. PICK new \in ReqStates : After(r, new)
  BY CommitLeaves
<1>2. req' \in [Requests -> ReqStates]
  BY <1>1 DEF After, TypeOK
<1>3. row' \in Sessions
  BY CommitRow
<1>4. disturbed' \in BOOLEAN
  <2>1. disturbed' = (disturbed /\ ~(req[r].then = "done" /\ req[r].alone))
    BY DEF Commit
  <2> QED
    BY <2>1, Zenon
<1>5. TypeOK'
  BY <1>2, <1>3, <1>4 DEF TypeOK, Commit
<1> QED
  BY <1>1, <1>5, CommitOrder, CommitWork, CommitTold

-----------------------------------------------------------------------------
(* A request is cut *)

LEMMA CutKeeps ==
    ASSUME TypeOK, Order, Work, Told, NEW r \in Requests, InFlight(r),
           NEW end \in {"broken", "unsaved", "dropped"}, Cut(r, end)
    PROVE  TypeOK' /\ Order' /\ Work' /\ Told'
<1> DEFINE new == Finished(r, end)
<1>1. new \in ReqStates
  BY FinishedType DEF Ends
<1>2. new.at = end /\ new.kind = req[r].kind /\ new.alone = req[r].alone
  BY FreshType DEF Finished, ReqStates, TypeOK
<1>3. req' = [req EXCEPT ![r] = new]
  BY DEF Cut
<1> HIDE DEF new
<1>4. /\ req'[r] = new /\ \A q \in Requests : q # r => req'[q] = req[q]
      /\ req' \in [Requests -> ReqStates]
  BY <1>1, <1>3 DEF TypeOK
<1>5. /\ row' = row /\ films' = films /\ latest' = latest
      /\ disturbed' = (disturbed \/ req[r].kind = "edit")
  BY DEF Cut
<1>6. /\ \A q \in Requests : InFlight(q)' => q # r /\ InFlight(q)
      /\ \A q \in Requests : req'[q].alone = req[q].alone /\ req'[q].kind = req[q].kind
  BY <1>2, <1>4 DEF InFlight, Working
<1>7. disturbed' \in BOOLEAN
  BY <1>5, Zenon
<1>8. TypeOK'
  BY <1>4, <1>5, <1>7 DEF TypeOK
<1>9. latest \in Requests
  BY OnlyOne
<1>10. Order'
  <2>1. Numbered'
    BY <1>2, <1>4, <1>5 DEF Order, Numbered, InFlight, Working
  <2>2. Solo' /\ AloneIsLatest' /\ Undisturbed' /\ NothingYet'
    BY <1>5, <1>6, <1>9 DEF Order, Solo, AloneIsLatest, Undisturbed, NothingYet
  <2> QED
    BY <2>1, <2>2 DEF Order
<1>11. Copies'
  BY <1>4, <1>5, <1>6 DEF Work, Copies, Copy, Toward, Saving, Settings
<1>12. FaithfulCopies'
  <2> SUFFICES ASSUME NEW q \in Requests, InFlight(q)', req'[q].alone PROVE Faithful(req[q])'
    BY DEF FaithfulCopies
  <2>1. InFlight(q) /\ req'[q] = req[q] /\ Faithful(req[q])
    BY <1>4, <1>6 DEF Work, FaithfulCopies
  <2>2. ~disturbed' => ~disturbed
    BY <1>5
  <2> QED
    BY <1>5, <2>1, <2>2 DEF Faithful, Toward, Saving, Shown, Settings
<1>13. ClipIsStored'
  BY <1>5 DEF Told, ClipIsStored
<1>14. OutcomeStands'
  <2>1. req'[latest].at \in {"done", "failed"} => latest # r
    BY <1>2, <1>4, <1>9
  <2> QED
    BY <1>4, <1>5, <1>6, <1>9, <2>1 DEF Told, OutcomeStands
<1>15. FilmMatchesSession'
  <2> SUFFICES ASSUME row'.status = "done", ~disturbed',
                      \A x \in Requests : InFlight(x)' => req'[x].kind = "stream"
               PROVE  row.clip \in Requests /\ films[row.clip] = Settings(row)
    BY <1>5 DEF FilmMatchesSession, Settings
  <2>1. ~disturbed /\ req[r].kind = "stream"
    BY <1>5 DEF TypeOK, ReqStates
  <2>2. ASSUME NEW x \in Requests, InFlight(x) PROVE req[x].kind = "stream"
    <3>1. CASE x = r
      BY <2>1, <3>1
    <3>2. CASE x # r
      BY <1>4, <2>2, <3>2 DEF InFlight
    <3> QED
      BY <3>1, <3>2
  <2> QED
    BY <1>5, <2>1, <2>2 DEF Told, FilmMatchesSession, Settings
<1> QED
  BY <1>8, <1>10, <1>11, <1>12, <1>13, <1>14, <1>15 DEF Work, Told

-----------------------------------------------------------------------------
(* A request begins; the session is created *)

LEMMA BeginKeeps ==
    ASSUME TypeOK, Order, Work, Told, NEW r \in Requests, NEW kind \in {"stream", "edit"},
           Begin(r, kind)
    PROVE  Order' /\ Work' /\ Told'
<1> DEFINE busy == \E q \in Requests : InFlight(q)
           fs == IF kind = "stream" THEN row ELSE Said(row, "user", r)
           at == IF kind = "stream" THEN "interpret" ELSE "parse"
           new == [Fresh EXCEPT !.kind = kind, !.at = at, !.fs = fs, !.alone = ~busy]
<1>1. /\ req' = [q \in Requests |->
                   IF q # r THEN [req[q] EXCEPT !.alone = @ /\ ~InFlight(q)] ELSE new]
      /\ disturbed' = (disturbed \/ busy) /\ r = latest + 1 /\ latest' = r
      /\ row' = row /\ films' = films /\ row.status # "absent"
  BY DEF Begin
<1>2. row \in Sessions
  BY DEF TypeOK
<1>3. /\ fs \in Sessions /\ fs.status = row.status /\ fs.clip = row.clip
      /\ fs.theme = row.theme /\ fs.cast = row.cast /\ fs.scenes = row.scenes
      /\ Continues(fs.history, row.history)
  BY <1>2, SaidType, SaidContinues, ContinuesSelf
<1>4. PICK b \in BOOLEAN : b = ~busy
  OBVIOUS
<1>5. new = [Fresh EXCEPT !.kind = kind, !.at = at, !.fs = fs, !.alone = b]
  BY <1>4
<1> HIDE DEF fs
<1>6. /\ new.kind = kind /\ new.fs = fs /\ new.alone = b
      /\ new.at = IF kind = "stream" THEN "interpret" ELSE "parse"
  BY <1>5, FreshType DEF ReqStates
<1> HIDE DEF new
<1>7. /\ req'[r] = new
      /\ \A q \in Requests : q # r => req'[q] = [req[q] EXCEPT !.alone = @ /\ ~InFlight(q)]
  BY <1>1
<1>8. ASSUME NEW q \in Requests, q # r
      PROVE  /\ req'[q].at = req[q].at /\ req'[q].kind = req[q].kind /\ req'[q].fs = req[q].fs
             /\ req'[q].then = req[q].then /\ req'[q].plan = req[q].plan
             /\ req'[q].alone => req[q].alone /\ ~InFlight(q)
  <2>1. req[q] \in ReqStates
    BY DEF TypeOK
  <2>2. PICK c \in BOOLEAN : c = (req[q].alone /\ ~InFlight(q))
    BY Zenon
  <2>3. req'[q] = [req[q] EXCEPT !.alone = c]
    BY <1>7, <1>8, <2>2
  <2> QED
    BY <2>1, <2>2, <2>3 DEF ReqStates
<1>9. /\ latest \in 0 .. MaxRequests /\ latest + 1 \in Requests
      /\ req[r].at = "new" /\ ~InFlight(r)
  BY <1>1 DEF TypeOK, Order, Numbered, InFlight, Working, Requests
<1>10. b => \A q \in Requests : ~InFlight(q)
  BY <1>4
<1>11. /\ InFlight(r)'
       /\ \A q \in Requests : q # r => (InFlight(q)' <=> InFlight(q))
  BY <1>6, <1>7, <1>8 DEF InFlight, Working
<1>12. ~disturbed' => b /\ ~disturbed
  BY <1>1, <1>4
<1>13. Order'
  <2>1. Numbered'
    <3> SUFFICES ASSUME NEW q \in Requests PROVE (q > latest') <=> (req'[q].at = "new")
      BY DEF Numbered
    <3>1. CASE q = r
      BY <1>1, <1>6, <1>7, <1>9, <3>1 DEF Requests
    <3>2. CASE q # r
      BY <1>1, <1>8, <1>9, <3>2 DEF Order, Numbered, Requests
    <3> QED
      BY <3>1, <3>2
  <2>2. Solo'
    BY <1>1, <1>6, <1>7, <1>10, <1>11 DEF Solo
  <2>3. AloneIsLatest'
    BY <1>1, <1>8, <1>11 DEF AloneIsLatest
  <2>4. Undisturbed'
    BY <1>6, <1>7, <1>10, <1>11, <1>12 DEF Undisturbed
  <2>5. NothingYet'
    BY <1>1 DEF NothingYet
  <2> QED
    BY <2>1, <2>2, <2>3, <2>4, <2>5 DEF Order
<1>14. Copies'
  <2> SUFFICES ASSUME NEW q \in Requests, InFlight(q)' PROVE Copy(q, req[q])'
    BY DEF Copies
  <2>1. CASE q = r
    <3>1. fs.clip # None => films[fs.clip] # NoFilm
      BY <1>3 DEF Told, ClipIsStored
    <3> QED
      BY <1>1, <1>3, <1>6, <1>7, <2>1, <3>1 DEF Copy, Toward, Saving
  <2>2. CASE q # r
    <3>1. Copy(q, req[q])
      BY <1>11, <2>2 DEF Work, Copies
    <3> QED
      BY <1>1, <1>8, <2>2, <3>1 DEF Copy, Toward, Saving, Settings
  <2> QED
    BY <2>1, <2>2
<1>15. FaithfulCopies'
  <2> SUFFICES ASSUME NEW q \in Requests, InFlight(q)', req'[q].alone PROVE Faithful(req[q])'
    BY DEF FaithfulCopies
  <2>1. q = r
    BY <1>8, <1>11
  <2>2. ~disturbed' /\ fs.status = "done" => Shown(fs)
    BY <1>3, <1>10, <1>12 DEF Told, FilmMatchesSession, Shown, Settings
  <2> QED
    BY <1>1, <1>3, <1>6, <1>7, <2>1, <2>2 DEF Faithful, Toward, Saving, Shown, Settings
<1>16. ClipIsStored' /\ OutcomeStands'
  <2>1. ClipIsStored'
    BY <1>1 DEF Told, ClipIsStored
  <2>2. OutcomeStands'
    BY <1>1, <1>6, <1>7 DEF OutcomeStands
  <2> QED
    BY <2>1, <2>2
<1>17. FilmMatchesSession'
  <2>1. ~disturbed' /\ row.status = "done" => Shown(row)
    BY <1>10, <1>12 DEF Told, FilmMatchesSession, Shown, Settings
  <2> QED
    BY <1>1, <2>1 DEF FilmMatchesSession, Shown, Settings
<1> QED
  BY <1>13, <1>14, <1>15, <1>16, <1>17 DEF Work, Told

LEMMA CreateKeeps ==
    ASSUME TypeOK, Order, Work, Told, NEW theme \in Themes \union {None}, NEW cast \in Casts,
           Create(theme, cast)
    PROVE  Order' /\ Work' /\ Told'
<1> DEFINE new == [Said(Blank, "user", None) EXCEPT !.status = "created", !.theme = theme,
                                                    !.cast = cast]
<1>1. Said(Blank, "user", None) \in Sessions /\ Said(Blank, "user", None).clip = None
  BY BlankType, SaidType DEF Blank
<1>2. new.status = "created" /\ new.clip = None
  BY <1>1 DEF Sessions
<1>3. row' = new /\ row.status = "absent" /\ UNCHANGED <<req, films, latest, disturbed>>
  BY DEF Create
<1> HIDE DEF new
<1>4. latest = 0
  BY <1>3 DEF Order, NothingYet
<1>5. \A q \in Requests : ~InFlight(q) /\ ~InFlight(q)'
  <2>1. \A q \in Requests : ~InFlight(q)
    BY <1>3, OnlyOne
  <2> QED
    BY <1>3, <2>1 DEF InFlight
<1>6. Order'
  <2>1. Numbered' /\ Solo' /\ AloneIsLatest' /\ Undisturbed'
    BY <1>3, <1>4, <1>5 DEF Order, Numbered, Solo, AloneIsLatest, Undisturbed
  <2>2. NothingYet'
    BY <1>2, <1>3 DEF NothingYet
  <2> QED
    BY <2>1, <2>2 DEF Order
<1>7. Work'
  BY <1>5 DEF Work, Copies, FaithfulCopies
<1>8. Told'
  BY <1>2, <1>3, <1>4 DEF Told, ClipIsStored, OutcomeStands, FilmMatchesSession
<1> QED
  BY <1>6, <1>7, <1>8

-----------------------------------------------------------------------------
(* The theorems *)

LEMMA InvInit == Init => Inv
<1> SUFFICES ASSUME Init PROVE Inv
  OBVIOUS
<1>1. TypeOK
  BY TypeInit
<1>2. \A r \in Requests : req[r].at = "new"
  BY DEF Init, Fresh
<1>3. \A r \in Requests : ~InFlight(r)
  BY <1>2 DEF InFlight, Working
<1>4. Order
  <2>1. Numbered
    BY <1>2 DEF Init, Numbered, Requests
  <2>2. Solo /\ AloneIsLatest /\ Undisturbed
    BY <1>3 DEF Solo, AloneIsLatest, Undisturbed
  <2>3. NothingYet
    BY DEF Init, NothingYet, Blank
  <2> QED
    BY <2>1, <2>2, <2>3 DEF Order
<1>5. Work
  BY <1>3 DEF Work, Copies, FaithfulCopies
<1>6. row.clip = None /\ row.status = "absent" /\ latest = 0
  BY DEF Init, Blank
<1>7. Told
  BY <1>6 DEF Told, ClipIsStored, OutcomeStands, FilmMatchesSession
<1> QED
  BY <1>1, <1>4, <1>5, <1>7 DEF Inv

LEMMA WorksKeeps ==
    ASSUME Inv, NEW r \in Requests, NEW new \in ReqStates, Works(r, new)
    PROVE  Inv'
BY WorksOrder, WorksWork, WorksTold, TypeReplaced DEF Inv, Works

LEMMA InvNext == Inv /\ [Next]_vars => Inv'
<1> SUFFICES ASSUME Inv, [Next]_vars PROVE Inv'
  OBVIOUS
<1> USE DEF Inv
<1>1. ASSUME NEW theme \in Themes \union {None}, NEW cast \in Casts, Create(theme, cast)
      PROVE  Inv'
  BY <1>1, TypeCreate, CreateKeeps
<1>2. ASSUME NEW r \in Requests, NEW kind \in {"stream", "edit"}, Begin(r, kind)
      PROVE  Inv'
  BY <1>2, TypeBegin, BeginKeeps
<1>3. ASSUME NEW r \in Requests, Step(r)
      PROVE  Inv'
  <2>1. CASE Interpreted(r)
    BY <2>1, InterpretedWorks, WorksKeeps
  <2>2. CASE \/ Rerender(r) \/ Clarify(r)
             \/ \E theme \in Themes : ChangeTheme(r, theme)
             \/ \E cast \in Casts : ChangeVoice(r, cast)
    BY <2>2, EditWorks, WorksKeeps
  <2>3. ASSUME NEW plan \in Plans, Storyboarded(r, plan)
        PROVE  Inv'
    BY <2>3, StoryboardedWorks, WorksKeeps
  <2>4. CASE Planned(r)
    BY <2>4, PlannedWorks, WorksKeeps
  <2>5. CASE Rendered(r)
    BY <2>5, RenderedKeeps
  <2>6. CASE ServiceFails(r)
    BY <2>6, ServiceFailsWorks, WorksKeeps
  <2>7. CASE Select(r)
    BY <2>7, SelectWorks, WorksKeeps
  <2>8. CASE Commit(r)
    BY <2>8, CommitKeeps
  <2> QED
    BY <1>3, <2>1, <2>2, <2>3, <2>4, <2>5, <2>6, <2>7, <2>8 DEF Step
<1>4. ASSUME NEW r \in Requests, Break(r) \/ Unsaved(r) \/ Drop(r)
      PROVE  Inv'
  <2>1. InFlight(r)
    BY <1>4 DEF Break, Unsaved, Drop, InFlight, Working
  <2> QED
    BY <1>4, <2>1, CutKeeps DEF Break, Unsaved, Drop
<1>5. CASE UNCHANGED vars
  <2>1. TypeOK'
    BY <1>5 DEF vars, TypeOK
  <2>2. Order'
    BY <1>5 DEF vars, Order, Numbered, Solo, AloneIsLatest, Undisturbed, NothingYet, InFlight
  <2>3. Work'
    BY <1>5 DEF vars, Work, Copies, FaithfulCopies, InFlight, Copy, Faithful, Toward, Saving,
                Shown, Settings
  <2>4. Told'
    BY <1>5 DEF vars, Told, ClipIsStored, OutcomeStands, FilmMatchesSession, InFlight
  <2> QED
    BY <2>1, <2>2, <2>3, <2>4
<1> QED
  BY <1>1, <1>2, <1>3, <1>4, <1>5 DEF Next

LEMMA Invariance == Spec => []Inv
BY InvInit, InvNext, PTL DEF Spec

\* Every variable keeps its shape (TypeOK), for any number of requests.
THEOREM TypeCorrect == Spec => []TypeOK
<1>1. Inv => TypeOK
  BY DEF Inv
<1> QED
  BY <1>1, Invariance, PTL

\* The session points only to a film that is in storage, however requests of
\* produce and apply_edit overlap and wherever they are cut.
THEOREM ClipStored == Spec => []ClipIsStored
<1>1. Inv => ClipIsStored
  BY DEF Inv, Told
<1> QED
  BY <1>1, Invariance, PTL

\* What a request that had the session to itself told its client is what the
\* row says until the next one begins, whatever state it had found.
THEOREM OutcomesStand == Spec => []OutcomeStands
<1>1. Inv => OutcomeStands
  BY DEF Inv, Told
<1> QED
  BY <1>1, Invariance, PTL

\* A finished, undisturbed session shows the film of its own theme, cast and
\* scenes.
THEOREM FilmMatches == Spec => []FilmMatchesSession
<1>1. Inv => FilmMatchesSession
  BY DEF Inv, Told
<1> QED
  BY <1>1, Invariance, PTL

LEMMA HistoryStep ==
    ASSUME Inv, [Next]_vars, \A r \in Requests : InFlight(r) => req[r].alone
    PROVE  Continues(row'.history, row.history)
<1> USE DEF Inv
<1>1. CASE row' = row
  BY <1>1, ContinuesSelf DEF TypeOK
<1>2. ASSUME NEW theme \in Themes \union {None}, NEW cast \in Casts, Create(theme, cast)
      PROVE  Continues(row'.history, row.history)
  <2>1. row.history = <<>>
    BY <1>2 DEF Create, Order, NothingYet
  <2> QED
    BY <2>1 DEF Continues
<1>3. ASSUME NEW r \in Requests, Commit(r)
      PROVE  Continues(row'.history, row.history)
  <2>1. InFlight(r)
    BY <1>3 DEF Commit, InFlight, Working
  <2>2. row' = req[r].fs /\ Faithful(req[r])
    BY <1>3, <2>1, CommitRow, AtWork
  <2> QED
    BY <2>2 DEF Faithful
<1>4. ASSUME NEW r \in Requests, NEW kind \in {"stream", "edit"}, Begin(r, kind)
      PROVE  row' = row
  BY <1>4 DEF Begin
<1>5. ASSUME NEW r \in Requests, Step(r), ~Commit(r)
      PROVE  row' = row
  BY <1>5 DEF Step, Interpreted, Rerender, Clarify, ChangeTheme, ChangeVoice, Storyboarded,
     Planned, Rendered, ServiceFails, Select
<1>6. ASSUME NEW r \in Requests, Break(r) \/ Unsaved(r) \/ Drop(r)
      PROVE  row' = row
  BY <1>6 DEF Break, Unsaved, Drop, Cut
<1>7. CASE UNCHANGED vars
  BY <1>1, <1>7 DEF vars
<1> QED
  BY <1>1, <1>2, <1>3, <1>4, <1>5, <1>6, <1>7 DEF Next

\* While requests have the session to themselves, checkpoints only add to the
\* conversation.
THEOREM HistoryKept == Spec => ConversationKept
<1>1. Inv /\ [Next]_vars =>
        [(\A r \in Requests : InFlight(r) => req[r].alone)
           => Continues(row'.history, row.history)]_vars
  BY HistoryStep
<1> QED
  BY <1>1, Invariance, PTL DEF Spec, ConversationKept

-----------------------------------------------------------------------------
(* How long a request can take, and what becomes of its film *)

\* The parts of a production or an edit that are still to come, each with a
\* checkpoint at its end.
Stage(place) ==
    IF place \in {"interpret", "parse"} THEN 4
    ELSE IF place = "plan" THEN 3
    ELSE IF place = "planned" THEN 2
    ELSE IF place = "render" THEN 1
    ELSE 0

\* What a request has left: its part, the SELECT and the UPDATE of each.
Togo(q) ==
    IF q.at = "select" THEN 3 * Stage(q.then) + 2
    ELSE IF q.at = "commit" THEN 3 * Stage(q.then) + 1
    ELSE 3 * Stage(q.at)

LEMMA StageBounds == ASSUME NEW place PROVE Stage(place) \in 0 .. 4
BY DEF Stage

LEMMA TogoBounds == ASSUME NEW q \in ReqStates PROVE Togo(q) \in Nat /\ (q.at \in Working => Togo(q) > 0)
<1>1. Stage(q.then) \in 0 .. 4 /\ Stage(q.at) \in 0 .. 4
  BY StageBounds
<1>2. q.at \in Working \ {"select", "commit"} => Stage(q.at) > 0
  BY DEF Working, Stage
<1> QED
  BY <1>1, <1>2 DEF Togo

\* A service's answer leads to a checkpoint on the way to a later part.
LEMMA AnswerSaves ==
    ASSUME TypeOK, NEW r \in Requests, Step(r), ~Select(r), ~Commit(r)
    PROVE  /\ req[r].at \in {"interpret", "parse", "plan", "planned", "render"}
           /\ req'[r].at = "select" /\ Stage(req'[r].then) < Stage(req[r].at)
           /\ \/ UNCHANGED films
              \/ /\ req[r].at = "render" /\ Stage(req'[r].then) = 0
                 /\ \E film : films' = [films EXCEPT ![r] = film]
<1>1. req \in [Requests -> ReqStates] /\ req[r] \in ReqStates
  BY DEF TypeOK
<1>2. ASSUME NEW fs, NEW next, Checkpoint(r, fs, next)
      PROVE  req'[r].at = "select" /\ req'[r].then = next
  <2>1. req'[r] = [req[r] EXCEPT !.fs = fs, !.at = "select", !.then = next]
    BY <1>1, <1>2 DEF Checkpoint
  <2> QED
    BY <1>1, <2>1 DEF ReqStates
<1>3. CASE Interpreted(r) \/ Rerender(r) \/ (\E theme \in Themes : ChangeTheme(r, theme))
           \/ (\E cast \in Casts : ChangeVoice(r, cast))
  <2>1. /\ req[r].at \in {"interpret", "parse"} /\ UNCHANGED films
        /\ \E fs : Checkpoint(r, fs, "plan")
    BY <1>3 DEF Interpreted, Rerender, ChangeTheme, ChangeVoice
  <2>2. req'[r].at = "select" /\ req'[r].then = "plan"
    BY <1>2, <2>1
  <2> QED
    BY <2>1, <2>2 DEF Stage
<1>4. CASE Clarify(r)
  <2>1. req[r].at = "parse" /\ UNCHANGED films /\ \E fs : Checkpoint(r, fs, "clarified")
    BY <1>4 DEF Clarify
  <2>2. req'[r].at = "select" /\ req'[r].then = "clarified"
    BY <1>2, <2>1
  <2> QED
    BY <2>1, <2>2 DEF Stage
<1>5. CASE ServiceFails(r)
  <2>1. /\ req[r].at \in {"interpret", "plan", "render"} /\ UNCHANGED films
        /\ \E fs : Checkpoint(r, fs, "failed")
    BY <1>5 DEF ServiceFails
  <2>2. req'[r].at = "select" /\ req'[r].then = "failed"
    BY <1>2, <2>1
  <2> QED
    BY <2>1, <2>2 DEF Stage
<1>6. CASE Planned(r)
  <2>1. req[r].at = "planned" /\ UNCHANGED films /\ \E fs : Checkpoint(r, fs, "render")
    BY <1>6 DEF Planned
  <2>2. req'[r].at = "select" /\ req'[r].then = "render"
    BY <1>2, <2>1
  <2> QED
    BY <2>1, <2>2 DEF Stage
<1>7. CASE Rendered(r)
  <2>1. /\ req[r].at = "render" /\ \E film : films' = [films EXCEPT ![r] = film]
        /\ \E fs : Checkpoint(r, fs, "done")
    BY <1>7 DEF Rendered
  <2>2. req'[r].at = "select" /\ req'[r].then = "done"
    BY <1>2, <2>1
  <2>3. Stage(req'[r].then) = 0 /\ Stage(req[r].at) = 1
    BY <2>1, <2>2 DEF Stage
  <2>4. Stage(req'[r].then) < Stage(req[r].at)
    BY <2>3
  <2> QED
    BY <2>1, <2>2, <2>3, <2>4
<1>8. CASE \E plan \in Plans : Storyboarded(r, plan)
  <2>1. PICK plan \in Plans : Storyboarded(r, plan)
    BY <1>8
  <2> DEFINE fs == IF req[r].kind = "stream" THEN [req[r].fs EXCEPT !.board = plan]
                   ELSE [req[r].fs EXCEPT !.status = "rendering"]
             next == IF req[r].kind = "stream" THEN "planned" ELSE "render"
  <2>2. req' = [req EXCEPT ![r].plan = plan, ![r].fs = fs, ![r].at = "select", ![r].then = next]
    <3>1. [req[r] EXCEPT !.plan = plan].kind = req[r].kind
      BY <1>1 DEF ReqStates
    <3>2. [req[r] EXCEPT !.plan = plan].fs = req[r].fs
      BY <1>1 DEF ReqStates
    <3> QED
      BY <1>1, <2>1, <3>1, <3>2 DEF Storyboarded
  <2> HIDE DEF fs
  <2>3. req'[r] = [req[r] EXCEPT !.plan = plan, !.fs = fs, !.at = "select", !.then = next]
    BY <1>1, <2>2
  <2>4. req'[r].at = "select" /\ req'[r].then = next
    BY <1>1, <2>3 DEF ReqStates
  <2>5. req[r].at = "plan" /\ UNCHANGED films
    BY <2>1 DEF Storyboarded
  <2> QED
    BY <2>4, <2>5 DEF Stage
<1> QED
  BY <1>3, <1>4, <1>5, <1>6, <1>7, <1>8 DEF Step

\* Every step of a request, and being cut, leaves it less.
LEMMA StepRunsDown ==
    ASSUME Inv, NEW r \in Requests, Step(r) \/ Break(r) \/ Unsaved(r) \/ Drop(r)
    PROVE  Togo(req'[r]) < Togo(req[r])
<1>1. TypeOK /\ req \in [Requests -> ReqStates] /\ req[r] \in ReqStates
  BY DEF Inv, TypeOK
<1>2. Stage(req[r].then) \in 0 .. 4 /\ Stage(req[r].at) \in 0 .. 4 /\ Stage(req'[r].then) \in 0 .. 4
  BY StageBounds
<1>3. CASE Step(r) /\ ~Select(r) /\ ~Commit(r)
  BY <1>1, <1>2, <1>3, AnswerSaves DEF Togo
<1>4. CASE Select(r)
  <2>1. req'[r] = [req[r] EXCEPT !.dirty = Differing(req[r].fs, row), !.at = "commit"]
    BY <1>1, <1>4 DEF Select
  <2>2. req'[r].at = "commit" /\ req'[r].then = req[r].then /\ req[r].at = "select"
    BY <1>1, <1>4, <2>1 DEF Select, ReqStates
  <2> QED
    BY <1>2, <2>2 DEF Togo
<1>5. ASSUME NEW end \in Ends, req'[r] = Finished(r, end), req[r].at \in Working
      PROVE  Togo(req'[r]) < Togo(req[r])
  <2>1. Finished(r, end).at = end
    BY FreshType DEF Finished, ReqStates
  <2>2. Togo(req'[r]) = 0
    BY <1>5, <2>1 DEF Togo, Stage, Ends
  <2> QED
    BY <1>1, <1>5, <2>2, TogoBounds
<1>6. CASE Commit(r)
  <2>1. req[r].at = "commit" /\ req[r].at \in Working
    BY <1>6 DEF Commit, Working
  <2>2. CASE req[r].then \in Ends
    <3>1. req'[r] = Finished(r, req[r].then)
      BY <1>1, <1>6, <2>2 DEF Commit
    <3> QED
      BY <1>5, <2>1, <2>2, <3>1
  <2>3. CASE req[r].then \notin Ends
    <3>1. req'[r] = [req[r] EXCEPT !.at = req[r].then, !.dirty = {}]
      BY <1>1, <1>6, <2>3 DEF Commit
    <3>2. req'[r].at = req[r].then /\ req'[r].then = req[r].then
      BY <1>1, <3>1 DEF ReqStates
    <3>3. req[r].then \notin {"select", "commit"}
      BY <2>1 DEF Inv, Work, Copies, Copy, Saving, InFlight
    <3> QED
      BY <1>2, <2>1, <3>2, <3>3 DEF Togo
  <2> QED
    BY <2>2, <2>3
<1>7. CASE Break(r) \/ Unsaved(r) \/ Drop(r)
  <2>1. PICK end \in Ends : req' = [req EXCEPT ![r] = Finished(r, end)]
    BY <1>7 DEF Break, Unsaved, Drop, Cut, Ends
  <2>2. req'[r] = Finished(r, end)
    BY <1>1, <2>1
  <2>3. req[r].at \in Working
    BY <1>7 DEF Break, Unsaved, Drop, InFlight, Working
  <2> QED
    BY <1>5, <2>2, <2>3
<1> QED
  BY <1>3, <1>4, <1>6, <1>7

\* What others do leaves a request as far as it is.
LEMMA OthersWait ==
    ASSUME Inv, NEW r \in Requests, NEW q \in Requests, q # r,
           \/ Step(r) \/ Break(r) \/ Unsaved(r) \/ Drop(r)
           \/ \E kind \in {"stream", "edit"} : Begin(r, kind)
    PROVE  Togo(req'[q]) = Togo(req[q])
<1>1. req \in [Requests -> ReqStates] /\ req[q] \in ReqStates
  BY DEF Inv, TypeOK
<1>2. CASE Step(r) \/ Break(r) \/ Unsaved(r) \/ Drop(r)
  <2>1. req'[q] = req[q]
    <3>1. CASE Step(r)
      BY <1>1, <3>1 DEF Step, Interpreted, Rerender, Clarify, ChangeTheme, ChangeVoice,
                        Storyboarded, Planned, Rendered, ServiceFails, Select, Commit, Checkpoint
    <3>2. CASE Break(r) \/ Unsaved(r) \/ Drop(r)
      BY <1>1, <3>2 DEF Break, Unsaved, Drop, Cut
    <3> QED
      BY <1>2, <3>1, <3>2
  <2> QED
    BY <2>1
<1>3. CASE \E kind \in {"stream", "edit"} : Begin(r, kind)
  <2>1. req'[q] = [req[q] EXCEPT !.alone = req[q].alone /\ ~InFlight(q)]
    BY <1>1, <1>3 DEF Begin
  <2>2. req'[q].at = req[q].at /\ req'[q].then = req[q].then
    BY <1>1, <2>1 DEF ReqStates
  <2> QED
    BY <2>2 DEF Togo
<1> QED
  BY <1>2, <1>3

\* A request has at most twelve steps, three for each part of a production, and
\* no request that joins it or is cut gives it more.
RunDown ==
    [][\A r \in Requests :
          /\ Togo(req[r]) \in 0 .. 12
          /\ Step(r) => Togo(req'[r]) < Togo(req[r])
          /\ (\A kind \in {"stream", "edit"} : ~Begin(r, kind)) => Togo(req'[r]) <= Togo(req[r])]_vars

\* produce and apply_edit come to an end whatever the services answer: the
\* half of Recoverable that needs no fairness.
THEOREM RequestsRunDown == Spec => RunDown
<1> DEFINE Falls == \A r \in Requests :
                       /\ Togo(req[r]) \in 0 .. 12
                       /\ Step(r) => Togo(req'[r]) < Togo(req[r])
                       /\ (\A kind \in {"stream", "edit"} : ~Begin(r, kind))
                             => Togo(req'[r]) <= Togo(req[r])
<1>1. ASSUME Inv, [Next]_vars, NEW r \in Requests
      PROVE  /\ Togo(req[r]) \in 0 .. 12
             /\ Step(r) => Togo(req'[r]) < Togo(req[r])
             /\ (\A kind \in {"stream", "edit"} : ~Begin(r, kind)) => Togo(req'[r]) <= Togo(req[r])
  <2>1. Togo(req[r]) \in Nat /\ Togo(req[r]) <= 12
    <3>1. req[r] \in ReqStates
      BY <1>1 DEF Inv, TypeOK
    <3>2. Stage(req[r].then) \in 0 .. 4 /\ Stage(req[r].at) \in 0 .. 4
      BY StageBounds
    <3>3. req[r].at \in {"select", "commit"} => Stage(req[r].then) <= 3
      BY <1>1 DEF Inv, Work, Copies, Copy, Saving, InFlight, Working, Stage
    <3> QED
      BY <3>1, <3>2, <3>3, TogoBounds DEF Togo
  <2>2. Togo(req'[r]) \in Nat
    BY <1>1, InvNext, TogoBounds DEF Inv, TypeOK
  <2>3. Step(r) \/ Break(r) \/ Unsaved(r) \/ Drop(r) => Togo(req'[r]) < Togo(req[r])
    BY <1>1, StepRunsDown
  <2>4. \/ Step(r) \/ Break(r) \/ Unsaved(r) \/ Drop(r)
        \/ \E kind \in {"stream", "edit"} : Begin(r, kind)
        \/ Togo(req'[r]) = Togo(req[r])
    <3>1. (UNCHANGED vars) \/ (\E theme \in Themes \union {None}, cast \in Casts : Create(theme, cast))
            => req' = req
      BY DEF vars, Create
    <3> QED
      BY <1>1, <3>1, OthersWait DEF Next
  <2> QED
    BY <2>1, <2>2, <2>3, <2>4
<1>2. Inv /\ [Next]_vars => Falls
  BY <1>1
<1> HIDE DEF Falls
<1>3. [][Falls]_vars => RunDown
  BY PTL DEF Falls, RunDown
<1> QED
  BY <1>2, Invariance, PTL DEF Spec, RunDown, Falls

\* A request that has stored its film has nothing left but the checkpoint.
Stored == \A r \in Requests : films[r] # NoFilm => Togo(req[r]) <= 2 /\ r <= latest

LEMMA StoredInit == Init => Stored
BY DEF Init, Stored

\* How a step changes the files: only a render does, and its own.
LEMMA FilmsStep ==
    ASSUME Inv, Stored, [Next]_vars
    PROVE  Stored' /\ \A r \in Requests : films[r] # NoFilm => films'[r] = films[r]
<1>1. /\ TypeOK /\ req \in [Requests -> ReqStates] /\ films \in [Requests -> Films]
      /\ latest \in Nat /\ Numbered
  BY DEF Inv, TypeOK, Order
<1>2. \A r \in Requests : Togo(req[r]) \in Nat /\ Togo(req'[r]) \in Nat
  BY InvNext, TogoBounds DEF Inv, TypeOK
<1>3. ASSUME NEW r \in Requests, Step(r) \/ Break(r) \/ Unsaved(r) \/ Drop(r)
      PROVE  Stored' /\ \A q \in Requests : films[q] # NoFilm => films'[q] = films[q]
  <2>1. latest' = latest /\ Togo(req'[r]) < Togo(req[r])
    BY <1>3, StepRunsDown DEF Step, Interpreted, Rerender, Clarify, ChangeTheme, ChangeVoice,
          Storyboarded, Planned, Rendered, ServiceFails, Select, Commit, Break, Unsaved, Drop, Cut
  <2>2. \A q \in Requests : q # r => Togo(req'[q]) = Togo(req[q])
    BY <1>3, OthersWait
  <2>3. CASE UNCHANGED films
    BY <1>1, <1>2, <2>1, <2>2, <2>3 DEF Stored
  <2>4. CASE /\ req[r].at = "render" /\ Togo(req'[r]) = 2
             /\ \E film : films' = [films EXCEPT ![r] = film]
    <3>1. films[r] = NoFilm
      <4>1. Togo(req[r]) = 3
        BY <2>4 DEF Togo, Stage
      <4> QED
        BY <4>1 DEF Stored
    <3>2. r <= latest
      BY <1>1, <2>4 DEF Numbered, Requests
    <3>3. \A q \in Requests : q # r => films'[q] = films[q]
      BY <1>1, <2>4
    <3> QED
      BY <1>2, <2>1, <2>2, <2>4, <3>1, <3>2, <3>3 DEF Stored
  <2>5. \/ UNCHANGED films
        \/ /\ req[r].at = "render" /\ Togo(req'[r]) = 2
           /\ \E film : films' = [films EXCEPT ![r] = film]
    <3>1. CASE Step(r) /\ ~Select(r) /\ ~Commit(r)
      BY <1>1, <3>1, AnswerSaves DEF Togo
    <3>2. CASE Select(r) \/ Commit(r) \/ Break(r) \/ Unsaved(r) \/ Drop(r)
      BY <3>2 DEF Select, Commit, Break, Unsaved, Drop, Cut
    <3> QED
      BY <1>3, <3>1, <3>2
  <2> QED
    BY <2>3, <2>4, <2>5
<1>4. ASSUME NEW r \in Requests, NEW kind \in {"stream", "edit"}, Begin(r, kind)
      PROVE  Stored' /\ \A q \in Requests : films[q] # NoFilm => films'[q] = films[q]
  <2>1. r = latest + 1 /\ latest' = r /\ films' = films
    BY <1>4 DEF Begin
  <2>2. films[r] = NoFilm
    BY <1>1, <2>1 DEF Stored
  <2>3. \A q \in Requests : q # r => Togo(req'[q]) = Togo(req[q])
    BY <1>4, OthersWait
  <2> QED
    BY <1>1, <2>1, <2>2, <2>3 DEF Stored, Requests
<1>5. CASE \E theme \in Themes \union {None}, cast \in Casts : Create(theme, cast)
  BY <1>5 DEF Create, Stored
<1>6. CASE UNCHANGED vars
  BY <1>6 DEF vars, Stored
<1> QED
  BY <1>3, <1>4, <1>5, <1>6 DEF Next

\* A film in storage is not written again: with ClipIsStored, what the session
\* points to is the film that was rendered, whoever else renders meanwhile.
FilmsStay == [][\A r \in Requests : films[r] # NoFilm => films'[r] = films[r]]_vars

\* A request stores at most one film, under a name of its own, for any number
\* of overlapping productions and edits (save_bytes).
THEOREM FilmsAreKept == Spec => FilmsStay
<1> DEFINE Kept == \A r \in Requests : films[r] # NoFilm => films'[r] = films[r]
<1>1. Inv /\ Stored /\ [Next]_vars => Stored' /\ Kept
  BY FilmsStep
<1>2. Spec => []Stored
  BY <1>1, StoredInit, Invariance, PTL DEF Spec
<1> HIDE DEF Kept
<1>3. [][Kept]_vars => FilmsStay
  BY PTL DEF Kept, FilmsStay
<1> QED
  BY <1>1, <1>2, Invariance, PTL DEF Spec, FilmsStay, Kept
=============================================================================
