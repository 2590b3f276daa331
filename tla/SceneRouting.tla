---------------------------- MODULE SceneRouting ----------------------------
(***************************************************************************)
(* The scene engine registry (SceneService): which engine a scene goes to, *)
(* and whether that engine takes it.  Sora 2 refuses real human faces;     *)
(* Kling accepts them and renders nothing without a reference frame.       *)
(***************************************************************************)
EXTENDS Integers

Sora == "sora2"
Kling == "kling"
Unrouted == "none"     \* no override was asked for; no engine was found

\* accepts_real_face of the clients
AcceptsRealFace(e) == e = Kling

Accepting(engines) == {e \in engines : AcceptsRealFace(e)}

\* get_scene_service: Sora 2 when it is configured, else the first engine.
DefaultEngine(engines) ==
    IF Sora \in engines \/ engines = {} THEN Sora ELSE CHOOSE e \in engines : TRUE

\* Faulty form: the override is not looked at before the policy, nor the policy.
RouteByDefault(engines, override, realFace) ==
    IF override # Unrouted THEN override ELSE DefaultEngine(engines)

\* route; Unrouted stands for its SceneEngineError.
Route(engines, override, realFace) ==
    CASE override # Unrouted -> override
      [] override = Unrouted /\ ~realFace -> DefaultEngine(engines)
      [] override = Unrouted /\ realFace ->
           IF Accepting(engines) = {} THEN Unrouted ELSE CHOOSE e \in Accepting(engines) : TRUE

\* What the client of e is handed of a loaded reference frame (generate).
Handed(e, reference, nothing) == IF AcceptsRealFace(e) THEN reference ELSE nothing

\* Kling's first lines: without a frame nothing is submitted.
LacksFrame(e, handed, nothing) == AcceptsRealFace(e) /\ handed = nothing

\* resolve: an unknown engine is an error, too.
Takes(engines, e, handed, nothing) == e \in engines /\ ~LacksFrame(e, handed, nothing)

Lengths == {4, 8, 12}     \* SORA2_ALLOWED_SECONDS
KlingLengths == {5, 10}
Off(length, requested) == IF length < requested THEN requested - length ELSE length - requested

\* The nearest allowed length, the lower one of two.
Nearest(lengths, requested) ==
    CHOOSE v \in lengths :
      \A w \in lengths \ {v} : \/ Off(v, requested) < Off(w, requested)
                               \/ Off(v, requested) = Off(w, requested) /\ v < w

\* snap_seconds
Snap(requested) == Nearest(Lengths, requested)

\* _snap_duration
SnapDuration(requested) == Nearest(KlingLengths, requested)

RenderedLength(e, requested) == IF e = Kling THEN SnapDuration(requested) ELSE Snap(requested)
=============================================================================
