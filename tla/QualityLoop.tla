---------------------------- MODULE QualityLoop ----------------------------
(***************************************************************************)
(* POST /scene/refine: QualityLoop.run renders a scene, has a vision model *)
(* judge the clip, and renders again until the score reaches the threshold *)
(* or a bound on iterations or on estimated spend is met.  Money is in     *)
(* tenths of a cent.  The prompt is left out: no property reads it.        *)
(***************************************************************************)
EXTENDS SceneRouting, Sequences

CONSTANTS Characters,      \* the characters of the database
          RealPeople,      \* those with is_real_person
          MaxCost,         \* max_cost_usd
          MaxIterations,   \* bound of max_iterations in a request
          Scores,          \* the scores and thresholds that are told apart
          RefineSeconds,   \* the lengths asked for
          NoOne            \* no character, no frame

ASSUME LoopAssumption ==
    /\ RealPeople \subseteq Characters
    /\ NoOne \notin Characters
    /\ MaxCost \in Nat
    /\ MaxIterations \in Nat \ {0}
    /\ Scores \subseteq Int
    /\ RefineSeconds \subseteq Nat

VARIABLES engines,    \* registered scene engines
          alive,      \* characters that are still in the database
          loop        \* the request under way

People == Characters \union {NoOne}
Overrides == {Unrouted, Sora, Kling, "other"}

\* "best" is an index into "scores" (0: none yet), "billed" and "renders"
\* count what was submitted, "clip" says that a render awaits its verdict.
Loops == [at : {"idle", "render", "judge", "save", "delivered", "refused", "lost"},
          seconds : RefineSeconds, real : BOOLEAN, override : Overrides,
          threshold : Scores, iterations : 1 .. MaxIterations,
          scores : Seq(Scores), best : Nat, spent : Nat, billed : Nat, renders : Nat]

LoopType ==
    /\ engines \subseteq {Sora, Kling}
    /\ alive \subseteq Characters
    /\ loop \in Loops \union {[at |-> "idle"]}

LoopInit ==
    /\ engines \in SUBSET {Sora, Kling}
    /\ alive = Characters
    /\ loop = [at |-> "idle"]

-----------------------------------------------------------------------------
LoopAt(place) == loop.at = place

Refine ==
    /\ LoopAt("idle")
    /\ \E who \in People, seconds \in RefineSeconds, override \in Overrides,
          threshold \in Scores, iterations \in 1 .. MaxIterations :
         loop' = [at |-> IF who \in alive \union {NoOne} THEN "render" ELSE "refused",
                  seconds |-> seconds, real |-> who \in RealPeople, override |-> override,
                  threshold |-> threshold, iterations |-> iterations,
                  scores |-> <<>>, best |-> 0, spent |-> 0, billed |-> 0, renders |-> 0]
    /\ UNCHANGED <<engines, alive>>

LoopEngine == Route(engines, loop.override, loop.real)

\* _est_cost
Price(e, seconds) == (IF e = Kling THEN 112 ELSE 100) * seconds
NextCost == Price(LoopEngine, Snap(loop.seconds))

\* What the engine renders, and charges for, is its own choice of length.
Charge == 100 * Snap(loop.seconds)

\* Faulty form: the render that is about to start is not counted.
OverCostLate == loop.spent > MaxCost

OverCost == loop.spent + NextCost > MaxCost

Attempted == loop.scores # <<>>

\* The best take is kept when a bound stops the loop or a later render fails.
LoopStops == loop' = [loop EXCEPT !.at = IF Attempted THEN "save" ELSE "refused"]

\* A take; or the engine's error, after which the best take is kept; or an
\* exception that is not its error and leaves by no handler.  A render that
\* was submitted may be charged for in each case.
LoopRender ==
    /\ LoopAt("render")
    /\ IF \/ LoopEngine = Unrouted
          \/ OverCost /\ Attempted
          \/ ~Takes(engines, LoopEngine, NoOne, NoOne)
       THEN LoopStops
       ELSE \/ loop' = [loop EXCEPT !.at = "judge", !.spent = @ + NextCost,
                                    !.billed = @ + Charge, !.renders = @ + 1]
            \/ loop' = [loop EXCEPT !.billed = @ + Charge, !.renders = @ + 1,
                                    !.at = IF Attempted THEN "save" ELSE "refused"]
            \/ loop' = [loop EXCEPT !.billed = @ + Charge, !.renders = @ + 1, !.at = "lost"]
    /\ UNCHANGED <<engines, alive>>

\* Faulty form: the last of the best is kept, not the first.
BetterOrEqual(score) == loop.best = 0 \/ score >= loop.scores[loop.best]

Better(score) == loop.best = 0 \/ score > loop.scores[loop.best]

Enough(score) == score >= loop.threshold \/ Len(loop.scores) + 1 = loop.iterations

Judged(score) ==
    loop' = [loop EXCEPT !.scores = Append(@, score),
                         !.best = IF Better(score) THEN Len(loop.scores) + 1 ELSE @,
                         !.at = IF Enough(score) THEN "save" ELSE "render"]

\* The verdict of the vision model; one that cannot be parsed is 1.0.
LoopJudge ==
    /\ LoopAt("judge")
    /\ \E score \in Scores : Judged(score)
    /\ UNCHANGED <<engines, alive>>

LoopSave ==
    /\ LoopAt("save")
    /\ loop' = [loop EXCEPT !.at = "delivered"]
    /\ UNCHANGED <<engines, alive>>

\* An exception nobody catches, with no render submitted: of the engine's
\* transport, of the frame grabber or the vision model (JudgeError, httpx), of
\* storage.
LoopBreaks ==
    /\ loop.at \in {"render", "judge", "save"}
    /\ loop' = [loop EXCEPT !.at = "lost"]
    /\ UNCHANGED <<engines, alive>>

LoopNext == Refine \/ LoopRender \/ LoopJudge \/ LoopSave \/ LoopBreaks
=============================================================================
