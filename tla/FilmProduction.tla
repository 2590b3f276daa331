--------------------------- MODULE FilmProduction ---------------------------
(***************************************************************************)
(* The one-shot film endpoints: a scene preview, a storyboard, a film      *)
(* composed of one and a film with a cast (bind, direct, render scene by   *)
(* scene, voice, stitch, store), and the quality loop of QualityLoop       *)
(* beside them.  One request at a time: requests share the registry and    *)
(* the characters, which any request may find deleted between two of its   *)
(* steps.                                                                  *)
(***************************************************************************)
EXTENDS QualityLoop, Voices, FiniteSets

CONSTANTS Roles,             \* role names, upper case
          VoiceOf,           \* bound: the voice text the casts give to a role
          Foreign,           \* characters that belong to another user
          MaxCast,           \* bound: members of a cast request
          DraftSeconds,      \* lengths a language model may write
          MaxDraft,          \* bound: scenes it may write
          SpeechSeconds,     \* lengths of a spoken line
          MaxScenes, MinSceneSeconds, MaxSceneSeconds, MaxTotalSeconds

ASSUME FilmAssumption ==
    /\ Foreign \subseteq Characters
    /\ MaxCast \in Nat /\ MaxDraft \in Nat
    /\ DraftSeconds \subseteq Int /\ SpeechSeconds \subseteq Nat
    /\ MaxScenes \in Nat \ {0}
    /\ MinSceneSeconds \in Nat \ {0} /\ MaxSceneSeconds \in Nat
    /\ MinSceneSeconds <= MaxSceneSeconds /\ MaxSceneSeconds <= MaxTotalSeconds
    /\ MaxTotalSeconds \in Nat
    /\ NoOne \notin Roles \union Lines
    /\ VoiceOf \in [Roles -> VoiceTexts]

VARIABLES film,      \* the request: what it is, how far it is, what it asked
          wanted,    \* cast entries not bound yet
          cast,      \* bound members, in order
          board,     \* scenes of the storyboard
          clips,     \* scenes rendered so far
          take       \* the scene rendered last, before its voice (<<>>: none)

filmVars == <<film, wanted, cast, board, clips, take>>
vars == <<engines, alive, loop, film, wanted, cast, board, clips, take>>

Entries == [role : Roles, avatar : Characters]
Scenes == [role : Roles \union {NoOne}, seconds : Int]

\* What no prompt has styled: a frame as it was photographed.
Unstyled == "unstyled"

\* "engine" and "face" are the rendered scene's: who rendered it, from whose
\* frame.  The others are the clip's own: "look", whose style it shows (NoOne:
\* the board's, which the request's theme sets), "voice", the line that is
\* heard (NoOne: silent), and "talking", whose frame the lip-sync animates
\* (NoOne: one of the rendered scene).
Clips == [index : Nat, engine : Overrides, length : Nat, face : People,
          look : People \union {Unstyled}, voice : Lines \union {NoOne}, talking : People]

Films == [kind : {"none", "storyboard", "preview", "compose", "cast"},
          at : {"idle", "bind", "direct", "redirect", "render", "voice", "stitch",
                "delivered", "refused", "lost"},
          real : BOOLEAN, override : Overrides]

FilmAt(place) == film.at = place
Continue(place) == film' = [film EXCEPT !.at = place]

SeqsUpTo(S, n) == UNION {[1 .. k -> S] : k \in 0 .. n}

Clamped(seconds) == CASE seconds < MinSceneSeconds -> MinSceneSeconds
                      [] seconds > MaxSceneSeconds -> MaxSceneSeconds
                      [] OTHER -> seconds

\* Total length of the first scenes.
Runtime(scenes) ==
    LET total[n \in Nat] == IF n = 0 THEN 0 ELSE total[n - 1] + scenes[n].seconds
    IN  total[Len(scenes)]

-----------------------------------------------------------------------------
(* Requests *)

Idle == FilmAt("idle") /\ LoopAt("idle")

\* POST /director/storyboard: a brief, no cast.
Storyboard ==
    /\ Idle
    /\ film' = [film EXCEPT !.kind = "storyboard", !.at = "direct"]
    /\ UNCHANGED <<engines, alive, loop, wanted, cast, board, clips, take>>

\* SceneModel: each length is validated, their sum and number are not.
ClientScenes == [role : {NoOne}, seconds : {Clamped(s) : s \in DraftSeconds}]

\* POST /film/compose: the client's storyboard is not clamped again.
Compose ==
    /\ Idle
    /\ \E who \in People, override \in Overrides, scenes \in SeqsUpTo(ClientScenes, MaxDraft) :
         /\ film' = [kind |-> "compose", real |-> who \in RealPeople, override |-> override,
                     at |-> IF who \in alive \union {NoOne} /\ scenes # <<>>
                            THEN "render" ELSE "refused"]
         /\ board' = scenes
    /\ UNCHANGED <<engines, alive, loop, wanted, cast, clips, take>>

\* POST /scene/preview: one scene, of a character of the user's own.
Preview ==
    /\ Idle
    /\ \E who \in People, override \in Overrides, seconds \in RefineSeconds :
         /\ film' = [kind |-> "preview", real |-> who \in RealPeople, override |-> override,
                     at |-> IF who \in (alive \ Foreign) \union {NoOne}
                            THEN "render" ELSE "refused"]
         /\ board' = <<[role |-> NoOne, seconds |-> seconds]>>
    /\ UNCHANGED <<engines, alive, loop, wanted, cast, clips, take>>

\* POST /film/cast-compose
CastCompose ==
    /\ Idle
    /\ \E entries \in SeqsUpTo(Entries, MaxCast) \ {<<>>} : wanted' = entries
    /\ film' = [film EXCEPT !.kind = "cast", !.at = "bind"]
    /\ UNCHANGED <<engines, alive, loop, cast, board, clips, take>>

DeleteCharacter ==
    /\ ~Idle
    /\ \E c \in alive : alive' = alive \ {c}
    /\ UNCHANGED <<engines, loop>> /\ UNCHANGED filmVars

-----------------------------------------------------------------------------
(* CastService.bind and DirectorService.storyboard_with_cast *)

RolesOf(members) == {members[i].role : i \in 1 .. Len(members)}

Bindable(entry) == entry.role \notin RolesOf(cast) /\ entry.avatar \in alive \ Foreign

\* One member: its character is read from the database.
Bind ==
    /\ FilmAt("bind")
    /\ IF ~Bindable(Head(wanted))
       THEN Continue("refused") /\ UNCHANGED <<wanted, cast>>
       ELSE /\ cast' = Append(cast, Head(wanted))
            /\ wanted' = Tail(wanted)
            /\ IF Len(wanted) = 1 THEN Continue("direct") ELSE UNCHANGED film
    /\ UNCHANGED <<engines, alive, loop, board, clips, take>>

\* Roles the cast does not have are blanked.
Known(role) == IF role \in RolesOf(cast) THEN role ELSE NoOne

\* Faulty form: only the number of scenes is cut.
TrimmedTo(scenes) == IF Len(scenes) > MaxScenes THEN MaxScenes ELSE Len(scenes)

\* How many scenes fit: the longest prefix within the total, at least one.
Kept(scenes) ==
    LET first == IF Len(scenes) > MaxScenes THEN MaxScenes ELSE Len(scenes)
    IN  CHOOSE n \in 1 .. first :
          /\ n = 1 \/ Runtime(SubSeq(scenes, 1, n)) <= MaxTotalSeconds
          /\ n < first => Runtime(SubSeq(scenes, 1, n + 1)) > MaxTotalSeconds

\* _clamp
Clamp(draft) ==
    LET scenes == [i \in 1 .. Len(draft) |->
                     [role |-> Known(draft[i].role), seconds |-> Clamped(draft[i].seconds)]]
    IN  SubSeq(scenes, 1, Kept(scenes))

\* A model that is told of no cast gives no roles.
Drafts ==
    SeqsUpTo([role : (IF film.kind = "cast" THEN Roles ELSE {}) \union {NoOne},
              seconds : DraftSeconds], MaxDraft) \ {<<>>}

\* The reply of the language model: a draft, or nothing that parses, which
\* is asked for once more.  A storyboard alone is the answer.
Direct ==
    /\ film.at \in {"direct", "redirect"}
    /\ \/ /\ \E draft \in Drafts : board' = Clamp(draft)
          /\ Continue(IF film.kind = "cast" THEN "render" ELSE "delivered")
       \/ /\ Continue(IF FilmAt("direct") THEN "redirect" ELSE "refused")
          /\ UNCHANGED board
    /\ UNCHANGED <<engines, alive, loop, wanted, cast, clips, take>>

-----------------------------------------------------------------------------
(* CompositionService *)

Index == Len(clips) + 1
Role == board[Index].role

\* member_for
Member == IF Role = NoOne THEN NoOne
          ELSE (CHOOSE i \in 1 .. Len(cast) : cast[i].role = Role)
Avatar == IF Role = NoOne THEN NoOne ELSE cast[Member].avatar

RealFace == IF film.kind = "cast" THEN Avatar \in RealPeople ELSE film.real

\* _load_reference
Frame(avatar) == IF avatar \in alive THEN avatar ELSE NoOne

Reference == IF Avatar \in RealPeople THEN Frame(Avatar) ELSE NoOne
SceneEngine == Route(engines, film.override, RealFace)
Face == Handed(SceneEngine, Reference, NoOne)

\* The look is the member's, whatever the theme: that is only the style of the
\* board, of the scenes with nobody in them.
Take == [index |-> Index, engine |-> SceneEngine,
         length |-> RenderedLength(SceneEngine, board[Index].seconds),
         face |-> Face, look |-> Avatar, voice |-> NoOne, talking |-> NoOne]

\* A scene: route, resolve and generate.  Only in a preview is the error of
\* routing the client's to see; elsewhere it leaves by no handler.
Render ==
    /\ FilmAt("render")
    /\ IF SceneEngine = Unrouted
       THEN Continue(IF film.kind = "preview" THEN "refused" ELSE "lost") /\ UNCHANGED take
       ELSE \/ Takes(engines, SceneEngine, Face, NoOne) /\ take' = Take /\ Continue("voice")
            \/ Continue("refused") /\ UNCHANGED take
    /\ UNCHANGED <<engines, alive, loop, wanted, cast, board, clips>>

\* Faulty form: the line is said in the voice of the scene before.
VoicedByLast(line, seconds) ==
    [take EXCEPT !.voice = IF clips = <<>> THEN line ELSE clips[Len(clips)].voice,
                 !.length = seconds]

\* Faulty form: the avatar is taken for the voice.
VoicedAsAvatar(line, seconds) == [take EXCEPT !.voice = Avatar, !.talking = Reference]

\* _voice_and_sync: the line in the member's voice on a face that talks.
\* lip.sync answers with a new video, in place of the clip: as long as the
\* speech, and a picture of the member's raw frame, or of a frame of the clip.
Voiced(line, seconds) ==
    [take EXCEPT !.voice = line, !.length = seconds, !.talking = Reference,
                 !.look = IF Reference = NoOne THEN @ ELSE Unstyled]

\* Without a line or a member, and on any failure, the silent clip is kept.
\* A description is resolved anew for every line.
Voice ==
    /\ FilmAt("voice")
    /\ \/ clips' = Append(clips, take)
       \/ /\ Role # NoOne
          /\ \E line \in Spoken(VoiceOf[Role]), seconds \in SpeechSeconds :
               clips' = Append(clips, Voiced(line, seconds))
    /\ take' = <<>>
    /\ Continue(IF Index = Len(board) THEN "stitch" ELSE "render")
    /\ UNCHANGED <<engines, alive, loop, wanted, cast, board>>

\* A single clip is not stitched; the film is stored, then told.
Stitch ==
    /\ FilmAt("stitch")
    /\ Continue("delivered") \/ (Len(clips) > 1 /\ Continue("refused"))
    /\ UNCHANGED <<engines, alive, loop, wanted, cast, board, clips, take>>

\* An exception no route catches: the language models, transport, storage.
FilmBreaks ==
    /\ film.at \in {"direct", "redirect", "render", "stitch"}
    /\ Continue("lost")
    /\ UNCHANGED <<engines, alive, loop, wanted, cast, board, clips, take>>

-----------------------------------------------------------------------------
Init ==
    /\ LoopInit
    /\ film = [kind |-> "none", at |-> "idle", real |-> FALSE, override |-> Unrouted]
    /\ wanted = <<>> /\ cast = <<>> /\ board = <<>> /\ clips = <<>> /\ take = <<>>

FilmNext == Storyboard \/ Compose \/ Preview \/ CastCompose \/ Bind \/ Direct \/ Render \/ Voice \/ Stitch
            \/ FilmBreaks

RefineNext == FilmAt("idle") /\ LoopNext /\ UNCHANGED filmVars

Next == FilmNext \/ RefineNext \/ DeleteCharacter

Spec == Init /\ [][Next]_vars

-----------------------------------------------------------------------------
(* Properties *)

\* The variables keep their shape: a request is always at a step of its own
\* kind, with the scenes, members and clips that step has.
TypeOK ==
    /\ LoopType
    /\ film \in Films
    /\ wanted \in Seq(Entries) /\ cast \in Seq(Entries)
    /\ board \in Seq(Scenes)
    /\ clips \in Seq(Clips)
    /\ take \in Clips \union {<<>>}
    /\ FilmAt("voice") <=> take # <<>>

Shots == {clips[i] : i \in 1 .. Len(clips)} \union (IF take = <<>> THEN {} ELSE {take})

\* "A real-person role is forced onto a reference-capable engine"
\* (film.py, cast/service.py): the shot of a real person is rendered from
\* that person's own frame by an engine that accepts faces, no engine that
\* refuses them is ever handed one, and a frame is only handed for its own
\* member's shot.
PolicyHonoured ==
    \A shot \in Shots :
        LET role == board[shot.index].role
            own == {cast[i].avatar : i \in {j \in 1 .. Len(cast) : cast[j].role = role}}
        IN  /\ shot.face # NoOne => AcceptsRealFace(shot.engine) /\ own = {shot.face}
            /\ film.kind = "cast" /\ own \subseteq RealPeople /\ own # {} => own = {shot.face}

\* A delivered film has one clip for every scene of its storyboard, in order,
\* whoever was deleted meanwhile (composition/service.py, render_with_cast).  A
\* silent one is about as long as its scene (the engines have lengths of their
\* own); one that talks has the length of its speech, and says it with the
\* voice text of the member on screen, on that member's face or on one of the
\* rendered scene.  Unless it is the member's raw frame that talks, each role
\* is seen in its member's look ("Each role renders in its avatar's look",
\* film.py, cast_compose - whatever the theme).
FilmIsComplete ==
    FilmAt("delivered") /\ film.kind \in {"compose", "cast"} =>
        /\ Len(clips) = Len(board)
        /\ \A i \in 1 .. Len(clips) :
             LET role == board[i].role
                 own == {cast[j].avatar : j \in {k \in 1 .. Len(cast) : cast[k].role = role}}
                 silent == clips[i].voice = NoOne
             IN  /\ clips[i].index = i
                 /\ silent => Off(clips[i].length, board[i].seconds) <= 3
                 /\ ~silent => role # NoOne /\ clips[i].voice.asked \in Asked(VoiceOf[role])
                 /\ clips[i].talking \in (IF silent THEN {} ELSE own) \union {NoOne}
                 /\ clips[i].talking = NoOne =>
                       own \subseteq {clips[i].look} /\ (clips[i].look = NoOne <=> own = {})

\* Whatever a language model writes, what reaches the paid render, or a client
\* that will have it rendered, is a cinematic short (director/service.py): at least one scene, at most
\* MAX_SCENES, each of an allowed length, MAX_TOTAL_SECONDS together, and
\* every role on screen has one member and one only in the cast.
PlanAchievable ==
    film.kind \in {"cast", "storyboard"} /\ film.at \in {"render", "voice", "stitch", "delivered"} =>
        /\ Len(board) \in 1 .. MaxScenes
        /\ \A i \in 1 .. Len(board) :
             /\ board[i].seconds \in MinSceneSeconds .. MaxSceneSeconds
             /\ board[i].role = NoOne
                \/ Cardinality({j \in 1 .. Len(cast) : cast[j].role = board[i].role}) = 1
        /\ Runtime(board) <= MaxTotalSeconds

\* "A runaway loop must be impossible" (quality/loop.py): what the engine was
\* asked to render in one refinement, the renders that failed included, stays
\* within the cost cap or is a single render, and within the iterations.
LoopCapped ==
    ~LoopAt("idle") => /\ loop.billed <= MaxCost \/ loop.renders <= 1
                       /\ loop.renders <= loop.iterations

\* The clip that is delivered is the first of the best takes; it passes if
\* any take did, and nothing was rendered after a take that passed.
BestDelivered ==
    LoopAt("delivered") =>
        /\ loop.best \in 1 .. Len(loop.scores)
        /\ \A i \in 1 .. Len(loop.scores) :
             /\ loop.scores[i] <= loop.scores[loop.best]
             /\ i < loop.best => loop.scores[i] < loop.scores[loop.best]
             /\ loop.scores[i] >= loop.threshold => i = loop.best /\ i = loop.renders

\* voice/service.py: "descriptions are resolved to a concrete voice first, so
\* the cast can describe voices in words": a line that Azure or OpenAI says is
\* heard in the voice that the member's text names or was resolved to.
VoiceAsCast ==
    \A shot \in Shots :
        /\ shot.voice # NoOne
        /\ shot.voice.by \in {Azure, OpenAI} /\ shot.voice.asked.form # "empty"
        => shot.voice.heard = shot.voice.asked.preset
=============================================================================
