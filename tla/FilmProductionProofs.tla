------------------------- MODULE FilmProductionProofs -------------------------
(***************************************************************************)
(* Proofs about FilmProduction, for any characters, casts, drafts, prices, *)
(* scores and limits.  The invariant of the quality loop relates what was  *)
(* billed to what was estimated and the best take to the verdicts so far;  *)
(* that of a film relates each shot to the cast and the storyboard it was  *)
(* rendered for.                                                           *)
(***************************************************************************)
EXTENDS FilmProduction, FiniteSetTheorems, WellFoundedInduction, TLAPS

-----------------------------------------------------------------------------
(* The quality loop *)

\* The first of the highest scores, 0 when there are none.
Leads(best, scores) ==
    /\ best \in 0 .. Len(scores)
    /\ best = 0 => scores = <<>>
    /\ \A i \in 1 .. Len(scores) :
         best > 0 => /\ scores[i] <= scores[best]
                     /\ i < best => scores[i] < scores[best]

\* What was submitted so far, and what it may have cost.
Billed(l) ==
    /\ l.renders <= l.iterations
    /\ l.billed <= MaxCost \/ l.renders <= 1
    /\ l.at = "render" => l.renders = Len(l.scores) /\ l.renders < l.iterations
    /\ l.at = "judge" => l.renders = Len(l.scores) + 1
    /\ l.at \in {"render", "judge"} => l.billed <= l.spent

\* The verdicts so far.
Verdicts(l) ==
    /\ Leads(l.best, l.scores)
    /\ l.at \in {"render", "judge"} => \A i \in 1 .. Len(l.scores) : l.scores[i] < l.threshold
    /\ l.at \in {"save", "delivered"} =>
         /\ l.scores # <<>>
         /\ \A i \in 1 .. Len(l.scores) :
              l.scores[i] >= l.threshold => i = Len(l.scores) /\ i = l.renders

LoopInv == LoopType /\ (loop.at # "idle" => loop \in Loops /\ Billed(loop) /\ Verdicts(loop))

\* The fields of a request to the loop.
LEMMA LoopFields ==
    ASSUME NEW l \in Loops
    PROVE  /\ l.seconds \in Int /\ l.threshold \in Int /\ l.iterations \in Nat \ {0}
           /\ l.scores \in Seq(Scores) /\ Len(l.scores) \in Nat
           /\ \A i \in 1 .. Len(l.scores) : l.scores[i] \in Int
           /\ l.best \in Nat /\ l.spent \in Nat /\ l.billed \in Nat /\ l.renders \in Nat
<1>1. /\ l.seconds \in RefineSeconds /\ l.threshold \in Scores /\ l.iterations \in 1 .. MaxIterations
      /\ l.scores \in Seq(Scores)
      /\ l.best \in Nat /\ l.spent \in Nat /\ l.billed \in Nat /\ l.renders \in Nat
  BY DEF Loops
<1>2. RefineSeconds \subseteq Int /\ Scores \subseteq Int /\ MaxIterations \in Nat
  BY LoopAssumption
<1>3. l.seconds \in Int /\ l.threshold \in Int
  BY <1>1, <1>2, Zenon
<1>4. l.iterations \in Nat \ {0}
  BY <1>1, <1>2
<1>5. Len(l.scores) \in Nat /\ \A i \in 1 .. Len(l.scores) : l.scores[i] \in Scores
  BY <1>1
<1> QED
  BY <1>1, <1>2, <1>3, <1>4, <1>5, Zenon

\* v is nearer to what is asked for than any other length.
NearestOf(v, lengths, seconds) ==
    /\ v \in lengths
    /\ \A w \in lengths \ {v} : \/ Off(v, seconds) < Off(w, seconds)
                                \/ Off(v, seconds) = Off(w, seconds) /\ v < w

LEMMA NearestFound ==
    ASSUME NEW lengths, NEW seconds, NEW u, NearestOf(u, lengths, seconds)
    PROVE  NearestOf(Nearest(lengths, seconds), lengths, seconds)
BY DEF Nearest, NearestOf

\* snap_seconds and _snap_duration return the nearest length.
LEMMA Snapped ==
    ASSUME NEW seconds \in Int
    PROVE  /\ NearestOf(Snap(seconds), Lengths, seconds)
           /\ NearestOf(SnapDuration(seconds), KlingLengths, seconds)
<1>1. NearestOf(Snap(seconds), Lengths, seconds)
  <2>1. \E u : NearestOf(u, Lengths, seconds)
    <3>1. seconds <= 6 => NearestOf(4, Lengths, seconds)
      BY DEF NearestOf, Lengths, Off
    <3>2. seconds > 6 /\ seconds <= 10 => NearestOf(8, Lengths, seconds)
      BY DEF NearestOf, Lengths, Off
    <3>3. seconds > 10 => NearestOf(12, Lengths, seconds)
      BY DEF NearestOf, Lengths, Off
    <3> QED
      BY <3>1, <3>2, <3>3
  <2> QED
    BY <2>1, NearestFound DEF Snap
<1>2. NearestOf(SnapDuration(seconds), KlingLengths, seconds)
  <2>1. \E u : NearestOf(u, KlingLengths, seconds)
    <3>1. seconds <= 7 => NearestOf(5, KlingLengths, seconds)
      BY DEF NearestOf, KlingLengths, Off
    <3>2. seconds > 7 => NearestOf(10, KlingLengths, seconds)
      BY DEF NearestOf, KlingLengths, Off
    <3> QED
      BY <3>1, <3>2
  <2> QED
    BY <2>1, NearestFound DEF SnapDuration
<1> QED
  BY <1>1, <1>2

\* What the engine charges for a render is no more than what was estimated.
LEMMA ChargeEstimated ==
    ASSUME LoopType, loop \in Loops
    PROVE  Charge \in Nat /\ NextCost \in Nat /\ Charge <= NextCost
<1>1. Snap(loop.seconds) \in {4, 8, 12}
  <2>1. loop.seconds \in Int
    BY LoopFields
  <2> QED
    BY <2>1, Snapped DEF NearestOf, Lengths
<1>2. Price(LoopEngine, Snap(loop.seconds)) >= 100 * Snap(loop.seconds)
      /\ Price(LoopEngine, Snap(loop.seconds)) \in Nat
  BY <1>1 DEF Price
<1> QED
  BY <1>1, <1>2 DEF Charge, NextCost

\* A step of the loop keeps its invariant.
LEMMA LoopStep == ASSUME LoopInv, LoopNext PROVE LoopInv'
<1>1. engines' = engines /\ alive' = alive
  BY DEF LoopNext, Refine, LoopRender, LoopJudge, LoopSave, LoopBreaks
<1>2. ASSUME loop' \in Loops, Billed(loop'), Verdicts(loop') PROVE LoopInv'
  <2>1. LoopType'
    BY <1>1, <1>2 DEF LoopInv, LoopType
  <2> QED
    BY <1>2, <2>1 DEF LoopInv, Billed, Verdicts, Leads
<1>3. CASE Refine
  <2>1. PICK who \in People, seconds \in RefineSeconds, override \in Overrides,
             threshold \in Scores, iterations \in 1 .. MaxIterations :
         loop' = [at |-> IF who \in alive \union {NoOne} THEN "render" ELSE "refused",
                  seconds |-> seconds, real |-> who \in RealPeople, override |-> override,
                  threshold |-> threshold, iterations |-> iterations,
                  scores |-> <<>>, best |-> 0, spent |-> 0, billed |-> 0, renders |-> 0]
    BY <1>3 DEF Refine
  <2>2. loop' \in Loops
    BY <2>1 DEF Loops
  <2>3. Billed(loop') /\ Verdicts(loop')
    BY <2>1, LoopAssumption DEF Billed, Verdicts, Leads
  <2> QED
    BY <1>2, <2>2, <2>3
<1>4. CASE loop.at = "idle"
  BY <1>3, <1>4 DEF LoopNext, LoopRender, LoopJudge, LoopSave, LoopBreaks, LoopAt
<1>5. CASE loop.at # "idle"
  <2>1. loop \in Loops /\ Billed(loop) /\ Verdicts(loop) /\ LoopType
    BY <1>5 DEF LoopInv
  <2>2. /\ loop.scores \in Seq(Scores) /\ Len(loop.scores) \in Nat
        /\ loop.renders \in Nat /\ loop.billed \in Nat /\ loop.spent \in Nat
        /\ loop.iterations \in Nat \ {0} /\ loop.best \in Nat /\ loop.threshold \in Int
        /\ Attempted <=> Len(loop.scores) # 0
    <3>1. /\ loop.scores \in Seq(Scores) /\ Len(loop.scores) \in Nat
          /\ loop.renders \in Nat /\ loop.billed \in Nat /\ loop.spent \in Nat
          /\ loop.iterations \in Nat \ {0} /\ loop.best \in Nat /\ loop.threshold \in Int
      BY <2>1, LoopFields
    <3>2. Attempted <=> Len(loop.scores) # 0
      BY <3>1 DEF Attempted
    <3> QED
      BY <3>1, <3>2
  <2>3. ASSUME loop' \in Loops, loop'.scores = loop.scores, loop'.best = loop.best,
               loop'.threshold = loop.threshold, Billed(loop'),
               \/ loop'.at \in {"refused", "lost"}
               \/ loop'.at \in {"save", "delivered"} /\ Attempted /\ loop.at = "render"
               \/ loop'.at = "delivered" /\ loop.at = "save" /\ loop'.renders = loop.renders
               \/ loop.at = "render" /\ loop'.at = "judge"
        PROVE  LoopInv'
    <3>1. Leads(loop'.best, loop'.scores)
      BY <2>1, <2>3 DEF Verdicts
    <3>2. \A i \in 1 .. Len(loop.scores) : loop.scores[i] \in Int
      BY <2>1, LoopFields
    <3>3. loop'.at \in {"save", "delivered"} => loop.at \in {"render", "save"} /\ loop.scores # <<>>
      BY <2>1, <2>3 DEF Verdicts, Attempted
    <3>4. Verdicts(loop')
      BY <2>1, <2>2, <2>3, <3>1, <3>2, <3>3 DEF Verdicts
    <3> QED
      BY <1>2, <2>3, <3>4
  <2>4. CASE LoopAt("render") /\ LoopStops
    <3> DEFINE r == [loop EXCEPT !.at = IF Attempted THEN "save" ELSE "refused"]
    <3>1. /\ r \in Loops /\ loop' = r /\ r.seconds = loop.seconds /\ r.scores = loop.scores
          /\ r.best = loop.best /\ r.threshold = loop.threshold /\ r.renders = loop.renders
          /\ r.iterations = loop.iterations /\ r.billed = loop.billed
          /\ r.at = IF Attempted THEN "save" ELSE "refused"
      BY <2>1, <2>4 DEF LoopStops, Loops
    <3> HIDE DEF r
    <3>2. Billed(r)
      BY <2>1, <3>1 DEF Billed
    <3> QED
      BY <2>3, <2>4, <3>1, <3>2 DEF LoopAt
  <2>5. CASE LoopRender /\ ~LoopStops
    <3>1. PICK at \in {"judge", "save", "refused", "lost"}, spent \in {loop.spent, loop.spent + NextCost} :
            /\ LoopAt("render") /\ ~(OverCost /\ Attempted)
            /\ spent = IF at = "judge" THEN loop.spent + NextCost ELSE loop.spent
            /\ at = "save" => Attempted
            /\ loop' = [loop EXCEPT !.at = at, !.spent = spent, !.billed = @ + Charge, !.renders = @ + 1]
      <4>1. /\ LoopAt("render") /\ ~(OverCost /\ Attempted)
            /\ \/ loop' = [loop EXCEPT !.at = "judge", !.spent = @ + NextCost,
                                       !.billed = @ + Charge, !.renders = @ + 1]
               \/ loop' = [loop EXCEPT !.billed = @ + Charge, !.renders = @ + 1,
                                       !.at = IF Attempted THEN "save" ELSE "refused"]
               \/ loop' = [loop EXCEPT !.billed = @ + Charge, !.renders = @ + 1, !.at = "lost"]
        BY <2>5 DEF LoopRender
      <4>2. CASE loop' = [loop EXCEPT !.at = "judge", !.spent = @ + NextCost,
                                      !.billed = @ + Charge, !.renders = @ + 1]
        BY <4>1, <4>2
      <4>3. CASE loop' = [loop EXCEPT !.billed = @ + Charge, !.renders = @ + 1,
                                      !.at = IF Attempted THEN "save" ELSE "refused"]
        <5> DEFINE at == IF Attempted THEN "save" ELSE "refused"
        <5>1. loop' = [loop EXCEPT !.at = at, !.spent = loop.spent, !.billed = @ + Charge,
                                   !.renders = @ + 1]
          BY <2>1, <4>3 DEF Loops
        <5> QED
          BY <4>1, <5>1
      <4>4. CASE loop' = [loop EXCEPT !.billed = @ + Charge, !.renders = @ + 1, !.at = "lost"]
        <5>1. loop' = [loop EXCEPT !.at = "lost", !.spent = loop.spent, !.billed = @ + Charge,
                                   !.renders = @ + 1]
          BY <2>1, <4>4 DEF Loops
        <5> QED
          BY <4>1, <5>1
      <4> QED
        BY <4>1, <4>2, <4>3, <4>4
    <3> DEFINE r == [loop EXCEPT !.at = at, !.spent = spent, !.billed = @ + Charge, !.renders = @ + 1]
    <3>2. Charge \in Nat /\ NextCost \in Nat /\ Charge <= NextCost
      BY <2>1, ChargeEstimated
    <3>10. spent \in Nat /\ loop.billed + Charge \in Nat /\ loop.renders + 1 \in Nat
      BY <2>2, <3>1, <3>2, SMTT(30)
    <3>3. /\ r \in Loops /\ loop' = r /\ r.scores = loop.scores
          /\ r.best = loop.best /\ r.threshold = loop.threshold /\ r.renders = loop.renders + 1
          /\ r.iterations = loop.iterations /\ r.billed = loop.billed + Charge
          /\ r.at = at /\ r.spent = spent
      BY <2>1, <3>1, <3>10 DEF Loops
    <3> HIDE DEF r
    <3>4. loop.at = "render" /\ (Attempted => loop.spent + NextCost <= MaxCost)
      BY <2>2, <3>1, <3>2, LoopAssumption DEF LoopAt, OverCost
    <3>5. Billed(r)
      <4>1. /\ loop.renders = Len(loop.scores) /\ loop.renders < loop.iterations
            /\ loop.billed <= loop.spent
        BY <2>1, <3>4 DEF Billed
      <4>2. loop.billed + Charge <= loop.spent + NextCost
        BY <2>2, <3>2, <4>1
      <4>3. Attempted => r.billed <= MaxCost
        BY <2>2, <3>2, <3>3, <3>4, <4>2, LoopAssumption
      <4>4. ~Attempted => r.renders = 1
        BY <2>2, <3>3, <4>1
      <4>5. at = "judge" => r.billed <= r.spent
        BY <3>1, <3>3, <4>2
      <4>6. r.renders <= r.iterations /\ r.renders = Len(r.scores) + 1
        BY <2>2, <3>3, <4>1
      <4> QED
        BY <3>3, <4>3, <4>4, <4>5, <4>6 DEF Billed
    <3> QED
      BY <2>3, <3>1, <3>3, <3>4, <3>5
  <2>6. CASE LoopJudge
    <3>1. PICK score \in Scores : LoopAt("judge") /\ Judged(score)
      BY <2>6 DEF LoopJudge
    <3> DEFINE best == IF Better(score) THEN Len(loop.scores) + 1 ELSE loop.best
               at == IF Enough(score) THEN "save" ELSE "render"
               r == [loop EXCEPT !.scores = Append(@, score), !.best = best, !.at = at]
    <3>10. Append(loop.scores, score) \in Seq(Scores) /\ best \in Nat
      BY <2>2, <3>1
    <3>2. /\ r \in Loops /\ loop' = r /\ r.scores = Append(loop.scores, score) /\ r.best = best
          /\ r.threshold = loop.threshold /\ r.renders = loop.renders /\ r.at = at
          /\ r.iterations = loop.iterations /\ r.billed = loop.billed /\ r.spent = loop.spent
      BY <2>1, <3>1, <3>10 DEF Loops, Judged
    <3> HIDE DEF r
    <3>3. /\ score \in Int /\ loop.at = "judge"
          /\ Len(r.scores) = Len(loop.scores) + 1
          /\ \A i \in 1 .. Len(loop.scores) : r.scores[i] = loop.scores[i]
          /\ r.scores[Len(loop.scores) + 1] = score
          /\ \A i \in 1 .. Len(loop.scores) : loop.scores[i] \in Int
      <4>1. score \in Int /\ loop.at = "judge"
        BY <3>1, LoopAssumption DEF LoopAt
      <4>2. \A i \in 1 .. Len(loop.scores) : loop.scores[i] \in Scores
        BY <3>10, <2>2
      <4>3. \A i \in 1 .. Len(loop.scores) : loop.scores[i] \in Int
        BY <4>2, LoopAssumption
      <4>4. loop.scores \in Seq(Scores)
        BY <2>2
      <4>5. /\ Len(r.scores) = Len(loop.scores) + 1
            /\ \A i \in 1 .. Len(loop.scores) : r.scores[i] = loop.scores[i]
            /\ r.scores[Len(loop.scores) + 1] = score
        BY <3>1, <3>2, <4>4
      <4> QED
        BY <4>1, <4>3, <4>5
    <3>4. Billed(r)
      <4>1. /\ loop.renders <= loop.iterations /\ loop.renders = Len(loop.scores) + 1
            /\ loop.billed <= MaxCost \/ loop.renders <= 1
            /\ loop.billed <= loop.spent
        BY <2>1, <3>3 DEF Billed
      <4>2. CASE Enough(score)
        <5>1. r.at = "save"
          BY <3>2, <4>2
        <5> QED
          BY <3>2, <4>1, <5>1 DEF Billed
      <4>3. CASE ~Enough(score)
        <5>1. r.at = "render"
          BY <3>2, <4>3
        <5>2. Len(r.scores) = loop.renders
          BY <3>3, <4>1
        <5>3. loop.renders # loop.iterations
          BY <4>1, <4>3 DEF Enough
        <5>4. loop.renders < loop.iterations
          BY <2>2, <4>1, <5>3
        <5> QED
          BY <3>2, <4>1, <5>1, <5>2, <5>4 DEF Billed
      <4> QED
        BY <4>2, <4>3
    <3>5. Leads(r.best, r.scores)
      <4>1. Leads(loop.best, loop.scores)
        BY <2>1 DEF Verdicts
      <4>2. CASE Better(score)
        <5>1. r.best = Len(loop.scores) + 1 /\ r.scores[r.best] = score
          BY <3>2, <3>3, <4>2
        <5>2. \A i \in 1 .. Len(loop.scores) : loop.scores[i] < score
          <6>1. CASE loop.best = 0
            BY <4>1, <6>1 DEF Leads
          <6>2. CASE loop.best > 0
            <7>1. score > loop.scores[loop.best] /\ loop.best \in 1 .. Len(loop.scores)
              BY <2>2, <4>1, <4>2, <6>2 DEF Leads, Better
            <7>2. \A i \in 1 .. Len(loop.scores) : loop.scores[i] <= loop.scores[loop.best]
              BY <4>1, <6>2 DEF Leads
            <7>3. loop.scores[loop.best] \in Int
              BY <3>3, <7>1
            <7> QED
              BY <3>3, <7>1, <7>2, <7>3
          <6> QED
            BY <2>2, <6>1, <6>2
        <5>3. \A i \in 1 .. Len(r.scores) : i \in 1 .. Len(loop.scores) \/ i = r.best
          BY <2>2, <3>3, <5>1
        <5> QED
          <6>1. ASSUME NEW i \in 1 .. Len(r.scores)
                PROVE  /\ r.scores[i] <= r.scores[r.best]
                       /\ i < r.best => r.scores[i] < r.scores[r.best]
            <7>1. CASE i = r.best
              BY <3>3, <5>1, <7>1
            <7>2. CASE i \in 1 .. Len(loop.scores)
              <8>1. r.scores[i] = loop.scores[i] /\ loop.scores[i] \in Int /\ loop.scores[i] < score
                BY <3>3, <5>2, <7>2
              <8> QED
                BY <3>3, <5>1, <8>1
            <7> QED
              BY <5>3, <7>1, <7>2
          <6> QED
            BY <2>2, <3>3, <5>1, <6>1 DEF Leads
      <4>3. CASE ~Better(score)
        BY <2>2, <3>2, <3>3, <4>1, <4>3 DEF Leads, Better
      <4> QED
        BY <4>2, <4>3
    <3>6. Verdicts(r)
      BY <2>1, <2>2, <3>2, <3>3, <3>5 DEF Verdicts, Billed, Enough
    <3> QED
      BY <1>2, <3>2, <3>4, <3>6
  <2>7. CASE LoopSave \/ LoopBreaks
    <3>1. PICK at \in {"delivered", "lost"} :
            /\ loop' = [loop EXCEPT !.at = at]
            /\ at = "delivered" => LoopAt("save")
      BY <2>7 DEF LoopSave, LoopBreaks
    <3> DEFINE r == [loop EXCEPT !.at = at]
    <3>2. /\ r \in Loops /\ loop' = r /\ r.seconds = loop.seconds /\ r.scores = loop.scores
          /\ r.best = loop.best /\ r.threshold = loop.threshold /\ r.renders = loop.renders
          /\ r.iterations = loop.iterations /\ r.billed = loop.billed /\ r.at = at
      BY <2>1, <3>1 DEF Loops
    <3> HIDE DEF r
    <3>3. Billed(r)
      BY <2>1, <3>2 DEF Billed
    <3>4. at = "delivered" => Attempted
      BY <2>1, <3>1 DEF Verdicts, Attempted, LoopAt
    <3> QED
      BY <2>3, <3>1, <3>2, <3>3, <3>4 DEF LoopAt
  <2>8. ~Refine
    BY <1>5 DEF Refine, LoopAt
  <2> QED
    BY <2>4, <2>5, <2>6, <2>7, <2>8 DEF LoopNext, LoopRender
<1> QED
  BY <1>4, <1>5

-----------------------------------------------------------------------------
(* What _clamp makes of a draft *)

\* A set of naturals has a first one: induction, for the sums of Runtime.
LEMMA FirstOf ==
    ASSUME NEW T \in SUBSET Nat, T # {}
    PROVE  \E x \in T : \A y \in T : x <= y
<1> DEFINE Below == OpToRel(<, Nat)
<1>1. \A a, b \in Nat : a < b => <<a, b>> \in Below
  BY DEF OpToRel
<1>2. IsWellFoundedOn(Below, Nat)
  BY NatLessThanWellFounded
<1> HIDE DEF Below
<1>3. PICK x \in T : \A y \in T : ~ (<<y, x>> \in Below)
  BY <1>2, WFMin
<1>4. x \in Nat /\ \A y \in T : y \in Nat /\ ~ (y < x)
  BY <1>1, <1>3
<1>5. \A y \in T : x <= y
  BY <1>4
<1> QED
  BY <1>5

\* A set of places has a last one.
LEMMA LastOf ==
    ASSUME NEW m \in Nat, NEW S \in SUBSET (1 .. m), S # {}
    PROVE  \E n \in S : \A k \in S : k <= n
<1> DEFINE T == {m - k : k \in S}
<1>1. \A k \in S : k \in 1 .. m /\ m - k \in Nat
  OBVIOUS
<1>2. T \in SUBSET Nat /\ T # {}
  BY <1>1
<1>3. \A k \in S : m - k \in T
  OBVIOUS
<1>4. \A y \in T : \E k \in S : y = m - k
  OBVIOUS
<1> HIDE DEF T
<1>5. PICK x \in T : \A y \in T : x <= y
  BY <1>2, FirstOf
<1>6. PICK n \in S : x = m - n
  BY <1>4, <1>5
<1>7. ASSUME NEW k \in S PROVE k <= n
  BY <1>1, <1>3, <1>5, <1>6
<1> QED
  BY <1>7

\* The sums of the first k scenes.
Sums(scenes, k, g) ==
    g = [n \in 0 .. k |-> IF n = 0 THEN 0 ELSE g[n - 1] + scenes[n].seconds]

LEMMA SumsExist == ASSUME NEW scenes, NEW k \in Nat PROVE \E g : Sums(scenes, k, g)
<1> DEFINE Bad == {j \in Nat : ~ \E g : Sums(scenes, j, g)}
<1>1. SUFFICES ASSUME Bad # {} PROVE FALSE
  OBVIOUS
<1>2. PICK j \in Bad : \A i \in Bad : j <= i
  BY <1>1, FirstOf
<1>3. j \in Nat /\ ~ \E g : Sums(scenes, j, g)
  OBVIOUS
<1>4. CASE j = 0
  <2>1. Sums(scenes, 0, [n \in 0 .. 0 |-> 0])
    BY DEF Sums
  <2> QED
    BY <1>3, <1>4, <2>1
<1>5. CASE j > 0
  <2>1. j - 1 \in Nat /\ j - 1 \notin Bad
    BY <1>2, <1>3, <1>5
  <2>2. PICK g : Sums(scenes, j - 1, g)
    BY <2>1
  <2> DEFINE h == [n \in 0 .. j |-> IF n = j THEN g[j - 1] + scenes[j].seconds ELSE g[n]]
  <2>3. \A n \in 0 .. j - 1 : g[n] = IF n = 0 THEN 0 ELSE g[n - 1] + scenes[n].seconds
    BY <2>2 DEF Sums
  <2>4. \A n \in 0 .. j : h[n] = IF n = 0 THEN 0 ELSE h[n - 1] + scenes[n].seconds
    BY <1>3, <1>5, <2>3
  <2>5. Sums(scenes, j, h)
    BY <2>4 DEF Sums
  <2> QED
    BY <1>3, <2>5
<1> QED
  BY <1>3, <1>4, <1>5

LEMMA SumsAgree ==
    ASSUME NEW scenes, NEW k \in Nat, NEW j \in Nat, NEW g, NEW h,
           Sums(scenes, k, g), Sums(scenes, j, h), NEW n \in Nat, n <= k, n <= j
    PROVE  g[n] = h[n]
<1> DEFINE Bad == {i \in 0 .. n : g[i] # h[i]}
<1>1. SUFFICES ASSUME Bad # {} PROVE FALSE
  OBVIOUS
<1>2. Bad \in SUBSET Nat
  OBVIOUS
<1>3. PICK i \in Bad : \A l \in Bad : i <= l
  BY <1>1, <1>2, FirstOf
<1>4. i \in 0 .. n /\ g[i] # h[i] /\ i \in 0 .. k /\ i \in 0 .. j
  OBVIOUS
<1>5. /\ g[i] = IF i = 0 THEN 0 ELSE g[i - 1] + scenes[i].seconds
      /\ h[i] = IF i = 0 THEN 0 ELSE h[i - 1] + scenes[i].seconds
  BY <1>4 DEF Sums
<1>6. i > 0 => g[i - 1] = h[i - 1]
  BY <1>3, <1>4
<1> QED
  BY <1>4, <1>5, <1>6

\* The function Runtime is defined with exists.
LEMMA TotalExists ==
    ASSUME NEW scenes
    PROVE  \E f : f = [n \in Nat |-> IF n = 0 THEN 0 ELSE f[n - 1] + scenes[n].seconds]
<1> DEFINE G(n) == CHOOSE g : Sums(scenes, n, g)
           f == [n \in Nat |-> G(n)[n]]
<1>1. \A n \in Nat : Sums(scenes, n, G(n))
  BY SumsExist
<1> HIDE DEF G
<1>2. ASSUME NEW n \in Nat PROVE f[n] = IF n = 0 THEN 0 ELSE f[n - 1] + scenes[n].seconds
  <2>1. G(n)[n] = IF n = 0 THEN 0 ELSE G(n)[n - 1] + scenes[n].seconds
    BY <1>1 DEF Sums
  <2>2. CASE n > 0
    <3>1. n - 1 \in Nat /\ n - 1 <= n
      BY <2>2
    <3>2. G(n)[n - 1] = G(n - 1)[n - 1]
      BY <1>1, <3>1, SumsAgree
    <3> QED
      BY <2>1, <2>2, <3>1, <3>2
  <2>3. CASE n = 0
    BY <2>1, <2>3
  <2> QED
    BY <2>2, <2>3
<1>3. f = [n \in Nat |-> IF n = 0 THEN 0 ELSE f[n - 1] + scenes[n].seconds]
  BY <1>2
<1> QED
  BY <1>3

\* One scene takes its own time, and any number takes an integral time.
LEMMA RuntimeOf ==
    ASSUME NEW scenes, NEW m \in Nat, Len(scenes) = m,
           \A i \in 1 .. m : scenes[i].seconds \in Int
    PROVE  /\ Runtime(scenes) \in Int
           /\ m = 1 => Runtime(scenes) = scenes[1].seconds
<1> DEFINE total == CHOOSE f : f = [n \in Nat |-> IF n = 0 THEN 0 ELSE f[n - 1] + scenes[n].seconds]
<1>1. total = [n \in Nat |-> IF n = 0 THEN 0 ELSE total[n - 1] + scenes[n].seconds]
  BY TotalExists
<1>2. Runtime(scenes) = total[m]
  BY DEF Runtime
<1> HIDE DEF total
<1>3. \A n \in Nat : total[n] = IF n = 0 THEN 0 ELSE total[n - 1] + scenes[n].seconds
  BY <1>1
<1>4. total[m] \in Int
  <2> DEFINE Bad == {i \in 0 .. m : total[i] \notin Int}
  <2>1. SUFFICES ASSUME Bad # {} PROVE FALSE
    OBVIOUS
  <2>a. Bad \in SUBSET Nat
    OBVIOUS
  <2>2. PICK i \in Bad : \A l \in Bad : i <= l
    BY <2>1, <2>a, FirstOf
  <2>3. i \in 0 .. m /\ total[i] \notin Int
    OBVIOUS
  <2>4. CASE i = 0
    BY <1>3, <2>3, <2>4
  <2>5. CASE i > 0
    <3>1. total[i - 1] \in Int
      BY <2>2, <2>3, <2>5
    <3>2. i \in Nat /\ scenes[i].seconds \in Int
      BY <2>3, <2>5
    <3>3. total[i] = total[i - 1] + scenes[i].seconds
      BY <1>3, <2>5, <3>2
    <3> QED
      BY <2>3, <3>1, <3>2, <3>3
  <2> QED
    BY <2>3, <2>4, <2>5
<1>5. m = 1 => total[m] = scenes[1].seconds
  <2>1. total[0] = 0 /\ total[1] = total[0] + scenes[1].seconds
    BY <1>3
  <2> QED
    BY <2>1
<1> QED
  BY <1>2, <1>4, <1>5

\* The scenes that are kept fit: so many, so long together, or only one.
LEMMA KeptFits ==
    ASSUME NEW scenes \in Seq([role : Roles \union {NoOne}, seconds : Int]), scenes # <<>>
    PROVE  /\ Kept(scenes) \in 1 .. Len(scenes)
           /\ Kept(scenes) <= MaxScenes
           /\ Kept(scenes) = 1 \/ Runtime(SubSeq(scenes, 1, Kept(scenes))) <= MaxTotalSeconds
<1> DEFINE first == IF Len(scenes) > MaxScenes THEN MaxScenes ELSE Len(scenes)
           Fits(n) == n = 1 \/ Runtime(SubSeq(scenes, 1, n)) <= MaxTotalSeconds
           S == {n \in 1 .. first : Fits(n)}
<1>1. Len(scenes) \in Nat /\ Len(scenes) > 0 /\ MaxScenes \in Nat /\ MaxScenes > 0
  BY FilmAssumption
<1>2. first \in Nat /\ first >= 1 /\ first <= Len(scenes) /\ first <= MaxScenes
  BY <1>1
<1> HIDE DEF first
<1>3. 1 \in S /\ S \in SUBSET (1 .. first)
  BY <1>2
<1>4. PICK n \in S : \A k \in S : k <= n
  BY <1>2, <1>3, LastOf
<1>5. n < first => Runtime(SubSeq(scenes, 1, n + 1)) > MaxTotalSeconds
  <2> SUFFICES ASSUME n < first PROVE Runtime(SubSeq(scenes, 1, n + 1)) > MaxTotalSeconds
    OBVIOUS
  <2> DEFINE prefix == SubSeq(scenes, 1, n + 1)
  <2>1. n \in 1 .. first /\ n + 1 \in 1 .. Len(scenes) /\ n + 1 \in 1 .. first
    BY <1>2
  <2>2. n + 1 \notin S
    BY <1>4, <2>1
  <2>3. ~ (Runtime(prefix) <= MaxTotalSeconds)
    BY <2>1, <2>2
  <2>4. Len(prefix) = n + 1 /\ \A i \in 1 .. n + 1 : prefix[i] = scenes[i]
    BY <1>1, <2>1
  <2>5. \A i \in 1 .. n + 1 : prefix[i].seconds \in Int
    <3>1. \A i \in 1 .. n + 1 : i \in 1 .. Len(scenes)
      BY <2>1
    <3>2. \A i \in 1 .. Len(scenes) : scenes[i].seconds \in Int
      <4> DEFINE D == [role : Roles \union {NoOne}, seconds : Int]
      <4>1. scenes \in Seq(D) /\ \A d \in D : d.seconds \in Int
        OBVIOUS
      <4> HIDE DEF D
      <4> QED
        BY <4>1
    <3> QED
      BY <2>4, <3>1, <3>2
  <2> HIDE DEF prefix
  <2>6. Runtime(prefix) \in Int
    BY <2>1, <2>4, <2>5, RuntimeOf
  <2>7. MaxTotalSeconds \in Int
    BY FilmAssumption
  <2>8. Runtime(prefix) > MaxTotalSeconds
    BY <2>3, <2>6, <2>7
  <2> QED
    BY <2>8 DEF prefix
<1>6. \E k \in 1 .. first :
        /\ Fits(k)
        /\ k < first => Runtime(SubSeq(scenes, 1, k + 1)) > MaxTotalSeconds
  BY <1>4, <1>5
<1>7. Kept(scenes) \in 1 .. first /\ Fits(Kept(scenes))
  BY <1>6 DEF Kept, first
<1>8. \A k \in 1 .. first : k \in 1 .. Len(scenes) /\ k <= MaxScenes
  BY <1>1, <1>2
<1> QED
  BY <1>7, <1>8

\* A draft of at least one scene becomes a cinematic short of the cast.
LEMMA ClampFits ==
    ASSUME NEW draft \in Drafts, RolesOf(cast) \subseteq Roles
    PROVE  LET b == Clamp(draft)
           IN  /\ b \in Seq(Scenes) /\ Len(b) \in 1 .. MaxScenes
               /\ \A i \in 1 .. Len(b) :
                    /\ b[i].seconds \in MinSceneSeconds .. MaxSceneSeconds
                    /\ b[i].role \in RolesOf(cast) \union {NoOne}
               /\ Runtime(b) <= MaxTotalSeconds
<1> DEFINE scenes == [i \in 1 .. Len(draft) |->
                        [role |-> Known(draft[i].role), seconds |-> Clamped(draft[i].seconds)]]
           b == Clamp(draft)
<1>1. draft \in Seq([role : Roles \union {NoOne}, seconds : DraftSeconds]) /\ draft # <<>>
  <2>1. PICK k \in 0 .. MaxDraft :
          draft \in [1 .. k -> [role : (IF film.kind = "cast" THEN Roles ELSE {}) \union {NoOne},
                                seconds : DraftSeconds]]
    BY DEF Drafts, SeqsUpTo
  <2>2. k \in Nat /\ draft \in [1 .. k -> [role : Roles \union {NoOne}, seconds : DraftSeconds]]
    BY <2>1, FilmAssumption
  <2>3. draft # <<>>
    BY DEF Drafts
  <2> DEFINE D == [role : Roles \union {NoOne}, seconds : DraftSeconds]
  <2>4. draft \in [1 .. k -> D]
    BY <2>2
  <2> HIDE DEF D
  <2>5. draft \in Seq(D)
    BY <2>2, <2>4
  <2> QED
    BY <2>3, <2>5 DEF D
<1>2. Len(draft) \in Nat /\ Len(draft) > 0
  BY <1>1
<1>3. \A i \in 1 .. Len(draft) :
        /\ draft[i].seconds \in Int
        /\ Clamped(draft[i].seconds) \in MinSceneSeconds .. MaxSceneSeconds
        /\ Known(draft[i].role) \in RolesOf(cast) \union {NoOne}
  <2> SUFFICES ASSUME NEW i \in 1 .. Len(draft)
               PROVE  /\ draft[i].seconds \in Int
                      /\ Clamped(draft[i].seconds) \in MinSceneSeconds .. MaxSceneSeconds
                      /\ Known(draft[i].role) \in RolesOf(cast) \union {NoOne}
    OBVIOUS
  <2>1. draft[i] \in [role : Roles \union {NoOne}, seconds : DraftSeconds]
    <3> DEFINE D == [role : Roles \union {NoOne}, seconds : DraftSeconds]
    <3>1. draft \in Seq(D)
      BY <1>1
    <3> HIDE DEF D
    <3>2. draft[i] \in D
      BY <3>1
    <3> QED
      BY <3>2 DEF D
  <2>2. draft[i].seconds \in Int
    BY <2>1, FilmAssumption
  <2>3. Clamped(draft[i].seconds) \in MinSceneSeconds .. MaxSceneSeconds
    BY <2>2, FilmAssumption DEF Clamped
  <2> QED
    BY <2>2, <2>3 DEF Known
<1>4. scenes \in Seq(Scenes) /\ Len(scenes) = Len(draft) /\ scenes # <<>>
      /\ \A i \in 1 .. Len(draft) : /\ scenes[i].seconds = Clamped(draft[i].seconds)
                                    /\ scenes[i].role = Known(draft[i].role)
  <2>1. \A i \in 1 .. Len(draft) : scenes[i] \in Scenes
    BY <1>3, FilmAssumption DEF Scenes
  <2> QED
    BY <1>2, <2>1
<1> HIDE DEF scenes
<1> DEFINE n == Kept(scenes)
<1>5. /\ n \in 1 .. Len(scenes) /\ n <= MaxScenes
      /\ n = 1 \/ Runtime(SubSeq(scenes, 1, n)) <= MaxTotalSeconds
  BY <1>4, KeptFits DEF Scenes
<1>6. b = SubSeq(scenes, 1, n)
  BY DEF Clamp, scenes
<1> HIDE DEF b, n
<1>7. b \in Seq(Scenes) /\ Len(b) = n /\ \A i \in 1 .. n : b[i] = scenes[i]
  BY <1>2, <1>4, <1>5, <1>6
<1>8. \A i \in 1 .. Len(b) : /\ b[i].seconds \in MinSceneSeconds .. MaxSceneSeconds
                             /\ b[i].role \in RolesOf(cast) \union {NoOne}
  <2> SUFFICES ASSUME NEW i \in 1 .. Len(b)
               PROVE  /\ b[i].seconds \in MinSceneSeconds .. MaxSceneSeconds
                      /\ b[i].role \in RolesOf(cast) \union {NoOne}
    OBVIOUS
  <2>1. i \in 1 .. n /\ i \in 1 .. Len(draft)
    BY <1>2, <1>4, <1>5, <1>7
  <2> QED
    BY <1>3, <1>4, <1>7, <2>1
<1>9. Len(b) \in 1 .. MaxScenes
  BY <1>2, <1>4, <1>5, <1>7, FilmAssumption
<1>10. Runtime(b) <= MaxTotalSeconds
  <2>1. CASE n = 1
    <3>1. 1 \in 1 .. Len(b) /\ b[1].seconds \in MinSceneSeconds .. MaxSceneSeconds
      BY <1>7, <1>8, <2>1
    <3>2. \A i \in 1 .. 1 : b[i].seconds \in Int
      BY <3>1
    <3>3. Runtime(b) = b[1].seconds
      BY <1>7, <2>1, <3>2, RuntimeOf
    <3> QED
      BY <3>1, <3>3, FilmAssumption
  <2> QED
    BY <1>5, <1>6, <2>1
<1> QED
  BY <1>7, <1>8, <1>9, <1>10 DEF b

-----------------------------------------------------------------------------
(* The invariant of a film *)

\* Where a request is, and how much there is of it.
Staged(f, w, c, b, cl, t) ==
    /\ f.kind # "cast" => c = <<>>
    /\ f.at = "idle" => f.kind = "none"
    /\ f.at = "bind" => f.kind = "cast" /\ w # <<>>
    /\ f.at \in {"direct", "redirect"} => f.kind \in {"cast", "storyboard"}
    /\ f.kind \in {"none", "storyboard", "cast"} => f.override = Unrouted
    /\ f.at \in {"idle", "bind", "direct", "redirect"} => b = <<>> /\ cl = <<>>
    /\ f.at = "voice" <=> t # <<>>
    /\ f.at \in {"render", "voice"} => Len(cl) < Len(b)
    /\ f.at \in {"stitch", "delivered"} /\ f.kind # "storyboard" => Len(cl) = Len(b)

\* One member for each role, one role or none for each scene.
Distinct(c) == \A i, j \in 1 .. Len(c) : c[i].role = c[j].role => i = j
Roled(b, c) == \A i \in 1 .. Len(b) : b[i].role \in RolesOf(c) \union {NoOne}

\* What the plan of a request may be.
Planned(f, b) ==
    /\ f.kind \in {"cast", "storyboard", "compose"} =>
         \A i \in 1 .. Len(b) : b[i].seconds \in MinSceneSeconds .. MaxSceneSeconds
    /\ f.kind \in {"cast", "storyboard"} /\ f.at \in {"render", "voice", "stitch", "delivered"} =>
         Len(b) \in 1 .. MaxScenes /\ Runtime(b) <= MaxTotalSeconds

Own(role, c) == {c[i].avatar : i \in {j \in 1 .. Len(c) : c[j].role = role}}

\* A clip as rendered for the i-th scene.
Shot(shot, i, kind, b, c) ==
    LET role == b[i].role
        own == Own(role, c)
    IN  /\ shot \in Clips /\ shot.index = i /\ i \in 1 .. Len(b)
        /\ shot.face # NoOne => AcceptsRealFace(shot.engine) /\ own = {shot.face}
        /\ kind = "cast" /\ own \subseteq RealPeople /\ own # {} => own = {shot.face}
        /\ shot.voice = NoOne /\ b[i].seconds \in 2 .. 13 => Off(shot.length, b[i].seconds) <= 3
        /\ shot.voice # NoOne => role # NoOne /\ shot.voice.asked \in Asked(VoiceOf[role])
        /\ shot.talking \in own \union {NoOne}
        /\ shot.voice = NoOne => shot.talking = NoOne
        /\ shot.talking = NoOne => own \subseteq {shot.look} /\ (shot.look = NoOne <=> own = {})

Shown(kind, b, c, cl, t) ==
    /\ \A i \in 1 .. Len(cl) : Shot(cl[i], i, kind, b, c)
    /\ t # <<>> => t.voice = NoOne /\ Shot(t, Len(cl) + 1, kind, b, c)

FilmType ==
    /\ film \in Films
    /\ wanted \in Seq(Entries) /\ cast \in Seq(Entries)
    /\ board \in Seq(Scenes)
    /\ clips \in Seq(Clips)
    /\ take \in Clips \union {<<>>}

FilmInv ==
    /\ FilmType
    /\ Staged(film, wanted, cast, board, clips, take)
    /\ Distinct(cast) /\ Roled(board, cast)
    /\ Planned(film, board)
    /\ Shown(film.kind, board, cast, clips, take)

IInv == LoopInv /\ FilmInv

\* The fields of the data of a film.
LEMMA Shapes ==
    /\ \A e \in Entries : e.role \in Roles /\ e.avatar \in Characters
    /\ \A c \in Clips : c # <<>>
    /\ NoOne \notin Roles /\ NoOne \notin Characters /\ NoOne \notin Lines
BY FilmAssumption, LoopAssumption DEF Entries, Clips

\* Each engine renders about what it is asked for.
LEMMA LengthNear ==
    ASSUME NEW e, NEW seconds \in Int
    PROVE  /\ RenderedLength(e, seconds) \in Nat
           /\ seconds \in 2 .. 13 => Off(RenderedLength(e, seconds), seconds) <= 3
<1> DEFINE v == Snap(seconds)
           u == SnapDuration(seconds)
<1>1. NearestOf(v, Lengths, seconds) /\ NearestOf(u, KlingLengths, seconds)
  BY Snapped
<1>2. v \in {4, 8, 12} /\ u \in {5, 10}
  BY <1>1 DEF NearestOf, Lengths, KlingLengths
<1>3. RenderedLength(e, seconds) \in {u, v}
  BY DEF RenderedLength
<1> HIDE DEF u, v
<1>4. ASSUME seconds \in 2 .. 13 PROVE Off(u, seconds) <= 3 /\ Off(v, seconds) <= 3
  <2>1. Off(u, seconds) <= 3
    <3>1. CASE u = 5
      BY <1>1, <1>4, <3>1 DEF NearestOf, KlingLengths, Off
    <3>2. CASE u = 10
      BY <1>1, <1>4, <3>2 DEF NearestOf, KlingLengths, Off
    <3> QED
      BY <1>2, <3>1, <3>2
  <2>2. Off(v, seconds) <= 3
    <3>1. CASE v = 4
      BY <1>1, <1>4, <3>1 DEF NearestOf, Lengths, Off
    <3>2. CASE v = 8
      BY <1>1, <1>4, <3>2 DEF NearestOf, Lengths, Off
    <3>3. CASE v = 12
      BY <1>1, <1>4, <3>3 DEF NearestOf, Lengths, Off
    <3> QED
      BY <1>2, <3>1, <3>2, <3>3
  <2> QED
    BY <2>1, <2>2
<1> QED
  BY <1>2, <1>3, <1>4

\* A line is said in a voice, for the text of the member.
LEMMA LinesSpoken ==
    ASSUME NEW text \in VoiceTexts
    PROVE  \A line \in Spoken(text) : line \in Lines /\ line.asked \in Asked(text)
<1>1. Asked(text) \subseteq VoiceTexts
  <2>1. CASE text.form = "empty" \/ LooksLikeId(text)
    BY <2>1 DEF Asked
  <2>2. CASE ~ (text.form = "empty" \/ LooksLikeId(text))
    <3>1. Asked(text) = Resolve(text)
      BY <2>2 DEF Asked
    <3>2. \A preset \in Presets : Id(preset) \in VoiceTexts
      BY DEF Id, VoiceTexts
    <3>3. CASE IsPreset(text)
      BY <3>1, <3>2, <3>3 DEF Resolve, IsPreset, VoiceTexts
    <3>4. CASE ~ IsPreset(text)
      <4>1. \A hints : FallbackRole(hints) \in Presets
        BY DEF FallbackRole, Presets
      <4>2. RolesFor(text.hints) \subseteq Presets
        BY <4>1, VoiceAssumption DEF RolesFor
      <4> QED
        BY <3>1, <3>2, <3>4, <4>2 DEF Resolve
    <3> QED
      BY <3>3, <3>4
  <2> QED
    BY <2>1, <2>2
<1>2. ASSUME NEW asked \in VoiceTexts, NEW speaker \in Speakers
      PROVE  /\ speaker \in {Azure, OpenAI, ElevenLabs, Chatterbox}
             /\ Says(speaker, asked) \in Presets \union {"default", "named", "clone"}
  <2>1. ResolveVoice(asked) \in Presets
    BY DEF ResolveVoice, VoiceTexts, DefaultPreset, Presets
  <2> QED
    BY <2>1, VoiceAssumption
       DEF Says, AzureSays, OpenAISays, ElevenLabsSays, ChatterboxSays,
           Azure, OpenAI, ElevenLabs, Chatterbox
<1> QED
  BY <1>1, <1>2 DEF Spoken, Lines

\* The members behind a role: none behind no role, one behind a role of the cast.
LEMMA OwnOf ==
    ASSUME NEW c \in Seq(Entries), Distinct(c)
    PROVE  /\ Own(NoOne, c) = {}
           /\ \A role \in RolesOf(c) :
                LET m == CHOOSE i \in 1 .. Len(c) : c[i].role = role
                IN  /\ m \in 1 .. Len(c) /\ c[m].role = role /\ role \in Roles
                    /\ c[m].avatar \in Characters /\ Own(role, c) = {c[m].avatar}
                    /\ {j \in 1 .. Len(c) : c[j].role = role} = {m}
<1>1. \A i \in 1 .. Len(c) : c[i] \in Entries
  OBVIOUS
<1>2. \A i \in 1 .. Len(c) : c[i].role \in Roles /\ c[i].avatar \in Characters
  BY <1>1, Shapes
<1>3. Own(NoOne, c) = {}
  BY <1>2, Shapes DEF Own
<1>4. ASSUME NEW role \in RolesOf(c), NEW m, m = CHOOSE i \in 1 .. Len(c) : c[i].role = role
      PROVE  /\ m \in 1 .. Len(c) /\ c[m].role = role /\ role \in Roles
             /\ c[m].avatar \in Characters /\ Own(role, c) = {c[m].avatar}
             /\ {j \in 1 .. Len(c) : c[j].role = role} = {m}
  <2>1. \E i \in 1 .. Len(c) : c[i].role = role
    BY DEF RolesOf
  <2>2. m \in 1 .. Len(c) /\ c[m].role = role
    BY <1>4, <2>1
  <2>3. {j \in 1 .. Len(c) : c[j].role = role} = {m}
    BY <2>2 DEF Distinct
  <2>4. Own(role, c) = {c[m].avatar}
    BY <2>3 DEF Own
  <2> QED
    BY <1>2, <2>2, <2>3, <2>4
<1> QED
  BY <1>3, <1>4

\* What the member on screen has to do with the scene that is next.
LEMMA OnScreen ==
    ASSUME LoopInv, FilmInv, film.at \in {"render", "voice"}
    PROVE  /\ Index = Len(clips) + 1 /\ Index \in 1 .. Len(board)
           /\ Role = board[Index].role /\ Role \in Roles \union {NoOne} /\ board[Index].seconds \in Int
           /\ Avatar \in People
           /\ Own(Role, cast) = IF Avatar = NoOne THEN {} ELSE {Avatar}
           /\ Role = NoOne => Avatar = NoOne
           /\ Reference \in {NoOne, Avatar}
           /\ Reference # NoOne => Avatar \in RealPeople
<1>1. Index = Len(clips) + 1 /\ Index \in 1 .. Len(board) /\ Role = board[Index].role
  BY DEF FilmInv, FilmType, Staged, Index, Role
<1>2. Role \in RolesOf(cast) \union {NoOne}
  BY <1>1 DEF FilmInv, Roled
<1>3. cast \in Seq(Entries) /\ Distinct(cast)
  BY DEF FilmInv, FilmType
<1>4. ASSUME Role = NoOne PROVE Avatar = NoOne /\ Own(Role, cast) = {}
  BY <1>3, <1>4, OwnOf DEF Avatar
<1>5. ASSUME Role \in RolesOf(cast)
      PROVE  /\ Role # NoOne /\ Role \in Roles /\ Avatar \in Characters /\ Avatar # NoOne
             /\ Own(Role, cast) = {Avatar}
  <2>1. Role # NoOne
    BY <1>3, <1>5, OwnOf, Shapes
  <2>2. Avatar = cast[CHOOSE i \in 1 .. Len(cast) : cast[i].role = Role].avatar
    BY <2>1 DEF Avatar, Member
  <2>3. Avatar \in Characters /\ Own(Role, cast) = {Avatar} /\ Role \in Roles
    BY <1>3, <1>5, <2>2, OwnOf
  <2> QED
    BY <2>1, <2>3, Shapes
<1>6. board[Index].seconds \in Int
  <2>1. board \in Seq(Scenes) /\ (\A x \in Scenes : x.seconds \in Int)
    BY DEF FilmInv, FilmType, Scenes
  <2> HIDE DEF Index
  <2>2. board[Index] \in Scenes
    BY <1>1, <2>1
  <2> QED
    BY <2>1, <2>2
<1>7. Reference \in {NoOne, Avatar} /\ (Reference # NoOne => Avatar \in RealPeople)
  BY DEF Reference, Frame
<1>8. /\ Role = NoOne => Avatar = NoOne
      /\ Own(Role, cast) = IF Avatar = NoOne THEN {} ELSE {Avatar}
      /\ Role \in Roles \union {NoOne} /\ Avatar \in People
  <2>1. CASE Role = NoOne
    BY <1>4, <2>1 DEF People
  <2>2. CASE Role \in RolesOf(cast)
    BY <1>5, <2>2 DEF People
  <2> QED
    BY <1>2, <2>1, <2>2
<1> QED
  BY <1>1, <1>6, <1>7, <1>8

\* A scene that an engine takes.
LEMMA TakeIsShot ==
    ASSUME LoopInv, FilmInv, FilmAt("render"), SceneEngine # Unrouted,
           Takes(engines, SceneEngine, Face, NoOne)
    PROVE  Shot(Take, Len(clips) + 1, film.kind, board, cast)
<1>1. /\ Index = Len(clips) + 1 /\ Index \in 1 .. Len(board)
      /\ Role = board[Index].role /\ board[Index].seconds \in Int /\ Avatar \in People
      /\ Own(Role, cast) = IF Avatar = NoOne THEN {} ELSE {Avatar}
      /\ Role = NoOne => Avatar = NoOne
      /\ Reference \in {NoOne, Avatar} /\ (Reference # NoOne => Avatar \in RealPeople)
  BY OnScreen DEF FilmAt
<1>2. SceneEngine \in Overrides /\ (AcceptsRealFace(SceneEngine) => Face # NoOne)
  BY DEF Takes, LacksFrame, LoopInv, LoopType, Overrides
<1>3. Face \in {NoOne, Avatar} /\ (Face # NoOne => AcceptsRealFace(SceneEngine))
  BY <1>1 DEF Face, Handed
<1>4. film.kind = "cast" /\ Avatar \in RealPeople => AcceptsRealFace(SceneEngine)
  <2> SUFFICES ASSUME film.kind = "cast", Avatar \in RealPeople PROVE AcceptsRealFace(SceneEngine)
    OBVIOUS
  <2>1. RealFace /\ film.override = Unrouted
    BY DEF RealFace, FilmInv, Staged
  <2>2. SceneEngine = IF Accepting(engines) = {} THEN Unrouted
                      ELSE CHOOSE e \in Accepting(engines) : TRUE
    BY <2>1 DEF SceneEngine, Route
  <2>3. SceneEngine \in Accepting(engines)
    BY <2>2
  <2> QED
    BY <2>3 DEF Accepting
<1>5. /\ RenderedLength(SceneEngine, board[Index].seconds) \in Nat
      /\ board[Index].seconds \in 2 .. 13 =>
           Off(RenderedLength(SceneEngine, board[Index].seconds), board[Index].seconds) <= 3
  BY <1>1, LengthNear
<1>6. NoOne \in Lines \union {NoOne} /\ NoOne \in People /\ Index \in Nat /\ Face \in People
  BY <1>1, <1>3 DEF People
<1>7. Take \in Clips
  BY <1>1, <1>2, <1>5, <1>6 DEF Take, Clips
<1>8. /\ Take.index = Index /\ Take.engine = SceneEngine
      /\ Take.length = RenderedLength(SceneEngine, board[Index].seconds)
      /\ Take.face = Face /\ Take.look = Avatar /\ Take.voice = NoOne /\ Take.talking = NoOne
  BY DEF Take
<1> HIDE DEF Take, Face
<1>9. Own(Role, cast) = {} <=> Avatar = NoOne
  BY <1>1
<1>10. Face # NoOne => AcceptsRealFace(Take.engine) /\ Own(Role, cast) = {Face}
  BY <1>1, <1>3, <1>8
<1>11. film.kind = "cast" /\ Own(Role, cast) \subseteq RealPeople /\ Own(Role, cast) # {}
       => Own(Role, cast) = {Face}
  BY <1>1, <1>2, <1>3, <1>4
<1>12. Own(Role, cast) \subseteq {Avatar}
  BY <1>1
<1> QED
  BY <1>1, <1>5, <1>7, <1>8, <1>9, <1>10, <1>11, <1>12 DEF Shot

\* A scene that is said.
LEMMA VoicedIsShot ==
    ASSUME LoopInv, FilmInv, FilmAt("voice"), Role # NoOne,
           NEW line \in Spoken(VoiceOf[Role]), NEW seconds \in SpeechSeconds
    PROVE  Shot(Voiced(line, seconds), Len(clips) + 1, film.kind, board, cast)
<1>1. /\ Index = Len(clips) + 1 /\ Index \in 1 .. Len(board)
      /\ Role = board[Index].role /\ Role \in Roles \union {NoOne} /\ Avatar \in People
      /\ Own(Role, cast) = IF Avatar = NoOne THEN {} ELSE {Avatar}
      /\ Reference \in {NoOne, Avatar}
  BY OnScreen DEF FilmAt
<1>2. line \in Lines /\ line.asked \in Asked(VoiceOf[Role])
  BY <1>1, FilmAssumption, LinesSpoken
<1>3. take # <<>> /\ take \in Clips /\ Shot(take, Len(clips) + 1, film.kind, board, cast)
  BY DEF FilmInv, FilmType, Staged, Shown, FilmAt
<1>4. Reference \in People
  BY <1>1 DEF People
<1> DEFINE clip == Voiced(line, seconds)
<1>5. seconds \in Nat
  BY FilmAssumption
<1>6. clip \in Clips
  BY <1>2, <1>3, <1>4, <1>5 DEF Voiced, Clips
<1>7. /\ clip.index = take.index /\ clip.engine = take.engine /\ clip.face = take.face
      /\ clip.voice = line /\ clip.voice # NoOne /\ clip.talking = Reference
      /\ Reference = NoOne => clip.look = take.look
  BY <1>2, <1>3, Shapes DEF Voiced, Clips
<1> HIDE DEF clip
<1>8. Reference \in Own(Role, cast) \union {NoOne}
  BY <1>1
<1>9. take.talking = NoOne
  BY <1>3 DEF FilmInv, Shown, Shot
<1> HIDE DEF Index, Role, Reference
<1> QED
  BY <1>1, <1>2, <1>3, <1>6, <1>7, <1>8, <1>9 DEF Shot, clip

-----------------------------------------------------------------------------
(* The steps of a film *)

LEMMA LoopStands ==
    ASSUME LoopInv, engines' = engines, loop' = loop, alive' \subseteq alive
    PROVE  LoopInv'
BY DEF LoopInv, LoopType, Billed, Verdicts, Leads

\* Continue changes the place of a request and nothing else.
LEMMA Continued ==
    ASSUME film \in Films, Continue(film'.at),
           film'.at \in {"idle", "bind", "direct", "redirect", "render", "voice", "stitch",
                         "delivered", "refused", "lost"}
    PROVE  /\ film' \in Films /\ film'.kind = film.kind
           /\ film'.real = film.real /\ film'.override = film.override
<1>1. film' = [film EXCEPT !.at = film'.at]
  BY DEF Continue
<1> QED
  BY <1>1 DEF Films

\* A request that fails keeps what it has.
LEMMA FilmFails ==
    ASSUME IInv, take = <<>>, film'.at \in {"refused", "lost", "redirect"}, Continue(film'.at),
           film'.at = "redirect" => FilmAt("direct"),
           wanted' = wanted, cast' = cast, board' = board, clips' = clips, take' = take
    PROVE  FilmInv'
<1>1. film \in Films
  BY DEF IInv, FilmInv, FilmType
<1>2. film' \in Films /\ film'.kind = film.kind /\ film'.override = film.override
  BY <1>1, Continued
<1>3. FilmType' /\ Distinct(cast') /\ Roled(board', cast') /\ Planned(film', board')
  BY <1>2 DEF IInv, FilmInv, FilmType, Distinct, Roled, Planned, RolesOf, FilmAt
<1>4. Staged(film', wanted', cast', board', clips', take')
  BY <1>2 DEF IInv, FilmInv, Staged, FilmAt
<1>5. Shown(film'.kind, board', cast', clips', take')
  BY <1>2 DEF IInv, FilmInv, Shown
<1> QED
  BY <1>3, <1>4, <1>5 DEF FilmInv

\* Before the render there is nothing to show.
LEMMA NothingShown ==
    ASSUME NEW kind, NEW b, NEW c PROVE Shown(kind, b, c, <<>>, <<>>)
BY DEF Shown

LEMMA StoryboardStep == ASSUME IInv, Storyboard PROVE FilmInv'
<1>1. /\ film \in Films /\ film.at = "idle" /\ film.kind = "none"
      /\ cast = <<>> /\ board = <<>> /\ clips = <<>> /\ take = <<>> /\ film.override = Unrouted
  BY DEF IInv, FilmInv, FilmType, Staged, Storyboard, Idle, FilmAt
<1>2. /\ film' \in Films /\ film'.kind = "storyboard" /\ film'.at = "direct"
      /\ film'.override = Unrouted
      /\ wanted' = wanted /\ cast' = <<>> /\ board' = <<>> /\ clips' = <<>> /\ take' = <<>>
  BY <1>1 DEF Storyboard, Films
<1>3. FilmType' /\ Distinct(cast') /\ Roled(board', cast') /\ Planned(film', board')
  BY <1>1, <1>2 DEF IInv, FilmInv, FilmType, Distinct, Roled, Planned
<1>4. Staged(film', wanted', cast', board', clips', take')
  BY <1>2 DEF Staged
<1> QED
  BY <1>2, <1>3, <1>4, NothingShown DEF FilmInv

LEMMA CastComposeStep == ASSUME IInv, CastCompose PROVE FilmInv'
<1>1. /\ film \in Films /\ film.at = "idle" /\ film.kind = "none"
      /\ cast = <<>> /\ board = <<>> /\ clips = <<>> /\ take = <<>> /\ film.override = Unrouted
  BY DEF IInv, FilmInv, FilmType, Staged, CastCompose, Idle, FilmAt
<1>2. /\ film' \in Films /\ film'.kind = "cast" /\ film'.at = "bind"
      /\ film'.override = Unrouted
      /\ cast' = <<>> /\ board' = <<>> /\ clips' = <<>> /\ take' = <<>>
  BY <1>1 DEF CastCompose, Films
<1>3. wanted' \in Seq(Entries) /\ wanted' # <<>>
  <2>1. PICK entries \in SeqsUpTo(Entries, MaxCast) \ {<<>>} : wanted' = entries
    BY DEF CastCompose
  <2>2. PICK k \in 0 .. MaxCast : entries \in [1 .. k -> Entries]
    BY DEF SeqsUpTo
  <2> HIDE DEF Entries
  <2>3. k \in Nat
    BY FilmAssumption
  <2> QED
    BY <2>1, <2>2, <2>3
<1>4. FilmType' /\ Distinct(cast') /\ Roled(board', cast') /\ Planned(film', board')
  BY <1>1, <1>2, <1>3 DEF IInv, FilmInv, FilmType, Distinct, Roled, Planned
<1>5. Staged(film', wanted', cast', board', clips', take')
  BY <1>2, <1>3 DEF Staged
<1> QED
  BY <1>2, <1>4, <1>5, NothingShown DEF FilmInv

LEMMA ComposeStep == ASSUME IInv, Compose PROVE FilmInv'
<1>1. /\ film.at = "idle" /\ film.kind = "none"
      /\ cast = <<>> /\ clips = <<>> /\ take = <<>> /\ wanted \in Seq(Entries)
  BY DEF IInv, FilmInv, FilmType, Staged, Compose, Idle, FilmAt
<1>2. PICK who \in People, override \in Overrides, scenes \in SeqsUpTo(ClientScenes, MaxDraft) :
        /\ film' = [kind |-> "compose", real |-> who \in RealPeople, override |-> override,
                    at |-> IF who \in alive \union {NoOne} /\ scenes # <<>>
                           THEN "render" ELSE "refused"]
        /\ board' = scenes
  BY DEF Compose
<1>3. /\ film' \in Films /\ film'.kind = "compose" /\ film'.at \in {"render", "refused"}
      /\ film'.at = "render" => scenes # <<>>
  BY <1>2 DEF Films
<1>4. wanted' = wanted /\ cast' = <<>> /\ clips' = <<>> /\ take' = <<>>
  BY <1>1 DEF Compose
<1>5. \A x \in ClientScenes :
         x \in Scenes /\ x.role = NoOne /\ x.seconds \in MinSceneSeconds .. MaxSceneSeconds
  <2>1. \A n \in DraftSeconds : Clamped(n) \in MinSceneSeconds .. MaxSceneSeconds
    BY FilmAssumption DEF Clamped
  <2>2. MinSceneSeconds .. MaxSceneSeconds \subseteq Int
    OBVIOUS
  <2> QED
    BY <2>1, <2>2 DEF ClientScenes, Scenes
<1>6. board' \in Seq(ClientScenes)
  <2>1. PICK k \in 0 .. MaxDraft : scenes \in [1 .. k -> ClientScenes]
    BY DEF SeqsUpTo
  <2> HIDE DEF ClientScenes
  <2>2. k \in Nat
    BY FilmAssumption
  <2> QED
    BY <1>2, <2>1, <2>2
<1> HIDE DEF ClientScenes
<1>7. /\ board' \in Seq(Scenes) /\ Len(board') \in Nat /\ (board' # <<>> => 0 < Len(board'))
      /\ \A i \in 1 .. Len(board') : board'[i] \in ClientScenes
  <2>1. /\ Len(board') \in Nat /\ (board' # <<>> => 0 < Len(board'))
        /\ \A i \in 1 .. Len(board') : board'[i] \in ClientScenes
    BY <1>6
  <2> HIDE DEF Scenes
  <2>2. board' \in Seq(Scenes)
    BY <1>5, <1>6
  <2> QED
    BY <2>1, <2>2
<1>8. FilmType'
  BY <1>1, <1>3, <1>4, <1>7 DEF FilmType
<1>9. Distinct(cast') /\ Roled(board', cast') /\ Planned(film', board')
  BY <1>3, <1>4, <1>5, <1>7 DEF Distinct, Roled, Planned
<1>10. Staged(film', wanted', cast', board', clips', take')
  BY <1>2, <1>3, <1>4, <1>7 DEF Staged
<1> QED
  BY <1>4, <1>8, <1>9, <1>10, NothingShown DEF FilmInv

LEMMA PreviewStep == ASSUME IInv, Preview PROVE FilmInv'
<1>1. /\ film.at = "idle" /\ film.kind = "none"
      /\ cast = <<>> /\ clips = <<>> /\ take = <<>> /\ wanted \in Seq(Entries)
  BY DEF IInv, FilmInv, FilmType, Staged, Preview, Idle, FilmAt
<1>2. PICK who \in People, override \in Overrides, seconds \in RefineSeconds :
        /\ film' = [kind |-> "preview", real |-> who \in RealPeople, override |-> override,
                    at |-> IF who \in (alive \ Foreign) \union {NoOne}
                           THEN "render" ELSE "refused"]
        /\ board' = <<[role |-> NoOne, seconds |-> seconds]>>
  BY DEF Preview
<1>3. film' \in Films /\ film'.kind = "preview" /\ film'.at \in {"render", "refused"}
  BY <1>2 DEF Films
<1>4. wanted' = wanted /\ cast' = <<>> /\ clips' = <<>> /\ take' = <<>>
  BY <1>1 DEF Preview
<1>5. board' \in Seq(Scenes) /\ Len(board') = 1 /\ board'[1].role = NoOne
  <2>1. [role |-> NoOne, seconds |-> seconds] \in Scenes
    BY LoopAssumption DEF Scenes
  <2> DEFINE x == [role |-> NoOne, seconds |-> seconds]
  <2>2. x \in Scenes /\ board' = <<x>> /\ x.role = NoOne
    BY <1>2, <2>1
  <2> HIDE DEF x, Scenes
  <2> QED
    BY <2>2
<1>6. FilmType'
  BY <1>1, <1>3, <1>4, <1>5 DEF FilmType
<1>7. Distinct(cast') /\ Roled(board', cast') /\ Planned(film', board')
  BY <1>3, <1>4, <1>5 DEF Distinct, Roled, Planned
<1>8. Staged(film', wanted', cast', board', clips', take')
  BY <1>3, <1>4, <1>5 DEF Staged
<1> QED
  BY <1>4, <1>6, <1>7, <1>8, NothingShown DEF FilmInv

LEMMA BindStep == ASSUME IInv, Bind PROVE FilmInv'
<1>1. /\ film \in Films /\ film.at = "bind" /\ film.kind = "cast" /\ film.override = Unrouted
      /\ wanted \in Seq(Entries) /\ wanted # <<>> /\ cast \in Seq(Entries) /\ Distinct(cast)
      /\ board = <<>> /\ clips = <<>> /\ take = <<>>
  BY DEF IInv, FilmInv, FilmType, Staged, Bind, FilmAt
<1>2. board' = board /\ clips' = clips /\ take' = take
  BY DEF Bind
<1>3. CASE ~Bindable(Head(wanted))
  <2>1. Continue("refused") /\ wanted' = wanted /\ cast' = cast
    BY <1>3 DEF Bind
  <2>2. film'.at = "refused" /\ Continue(film'.at)
    BY <1>1, <2>1 DEF Continue, Films
  <2> QED
    BY <1>1, <1>2, <2>1, <2>2, FilmFails
<1>4. CASE Bindable(Head(wanted))
  <2>1. /\ cast' = Append(cast, Head(wanted)) /\ wanted' = Tail(wanted)
        /\ IF Len(wanted) = 1 THEN Continue("direct") ELSE film' = film
    BY <1>4 DEF Bind
  <2>2. film' \in Films /\ film'.kind = "cast" /\ film'.override = Unrouted
        /\ film'.at = IF Len(wanted) = 1 THEN "direct" ELSE "bind"
    BY <1>1, <2>1 DEF Continue, Films
  <2> DEFINE new == Head(wanted)
  <2>3. new \in Entries /\ wanted' \in Seq(Entries) /\ (Len(wanted) # 1 => wanted' # <<>>)
    <3> DEFINE D == Entries
    <3>1. wanted \in Seq(D) /\ wanted # <<>> /\ wanted' = Tail(wanted)
      BY <1>1, <2>1
    <3> HIDE DEF D
    <3>2. Len(wanted) \in Nat /\ Len(wanted) > 0
      BY <3>1
    <3>3. Head(wanted) \in D /\ wanted' \in Seq(D)
      BY <3>1, <3>2
    <3>4. Len(wanted') = Len(wanted) - 1
      BY <3>1, <3>2
    <3>5. Len(wanted) # 1 => wanted' # <<>>
      BY <3>2, <3>3, <3>4
    <3> QED
      BY <3>3, <3>5 DEF D
  <2>4. new.role \notin RolesOf(cast)
    BY <1>4 DEF Bindable
  <2> HIDE DEF new
  <2>5. /\ cast' \in Seq(Entries) /\ Len(cast') = Len(cast) + 1 /\ Len(cast) \in Nat
        /\ \A i \in 1 .. Len(cast) : cast'[i] = cast[i]
        /\ cast'[Len(cast) + 1] = new
    <3> HIDE DEF Entries
    <3> QED
      BY <1>1, <2>1, <2>3 DEF new
  <2>6. Distinct(cast')
    <3> SUFFICES ASSUME NEW i \in 1 .. Len(cast'), NEW j \in 1 .. Len(cast'),
                        cast'[i].role = cast'[j].role
                 PROVE  i = j
      BY DEF Distinct
    <3>1. \A k \in 1 .. Len(cast) : cast'[k].role # new.role
      BY <2>4, <2>5 DEF RolesOf
    <3>2. \A k \in 1 .. Len(cast') : k \in 1 .. Len(cast) \/ k = Len(cast) + 1
      BY <2>5
    <3>3. CASE i \in 1 .. Len(cast) /\ j \in 1 .. Len(cast)
      BY <1>1, <2>5, <3>3 DEF Distinct
    <3> QED
      BY <2>5, <3>1, <3>2, <3>3
  <2>7. FilmType' /\ Roled(board', cast') /\ Planned(film', board')
    BY <1>1, <1>2, <2>2, <2>3, <2>5 DEF FilmType, Roled, Planned
  <2>8. Staged(film', wanted', cast', board', clips', take')
    BY <1>1, <1>2, <2>2, <2>3 DEF Staged
  <2> QED
    BY <1>1, <1>2, <2>6, <2>7, <2>8, NothingShown DEF FilmInv
<1> QED
  BY <1>3, <1>4

LEMMA DirectStep == ASSUME IInv, Direct PROVE FilmInv'
<1>1. /\ film \in Films /\ film.at \in {"direct", "redirect"} /\ film.kind \in {"cast", "storyboard"}
      /\ film.override = Unrouted
      /\ wanted \in Seq(Entries) /\ cast \in Seq(Entries) /\ Distinct(cast)
      /\ board = <<>> /\ clips = <<>> /\ take = <<>> /\ (film.kind # "cast" => cast = <<>>)
  BY DEF IInv, FilmInv, FilmType, Staged, Direct
<1>2. wanted' = wanted /\ cast' = cast /\ clips' = clips /\ take' = take
  BY DEF Direct
<1>3. CASE Continue(IF FilmAt("direct") THEN "redirect" ELSE "refused") /\ board' = board
  <2>1. film'.at = IF FilmAt("direct") THEN "redirect" ELSE "refused"
    BY <1>1, <1>3 DEF Continue, Films
  <2> QED
    BY <1>1, <1>2, <1>3, <2>1, FilmFails
<1>4. ASSUME NEW draft \in Drafts, board' = Clamp(draft),
             Continue(IF film.kind = "cast" THEN "render" ELSE "delivered")
      PROVE  FilmInv'
  <2>1. /\ film' \in Films /\ film'.kind = film.kind /\ film'.override = Unrouted
        /\ film'.at = IF film.kind = "cast" THEN "render" ELSE "delivered"
    BY <1>1, <1>4 DEF Continue, Films
  <2>2. RolesOf(cast) \subseteq Roles
    BY <1>1, OwnOf
  <2>3. /\ board' \in Seq(Scenes) /\ Len(board') \in 1 .. MaxScenes
        /\ \A i \in 1 .. Len(board') :
             /\ board'[i].seconds \in MinSceneSeconds .. MaxSceneSeconds
             /\ board'[i].role \in RolesOf(cast) \union {NoOne}
        /\ Runtime(board') <= MaxTotalSeconds
    BY <1>4, <2>2, ClampFits
  <2> HIDE DEF Scenes, Entries, Clips
  <2>4. FilmType' /\ Distinct(cast')
    BY <1>1, <1>2, <2>1, <2>3 DEF FilmType
  <2>5. Roled(board', cast') /\ Planned(film', board')
    BY <1>2, <2>3 DEF Roled, Planned
  <2>6. Staged(film', wanted', cast', board', clips', take')
    BY <1>1, <1>2, <2>1, <2>3 DEF Staged
  <2> QED
    BY <1>1, <1>2, <2>4, <2>5, <2>6, NothingShown DEF FilmInv
<1> QED
  BY <1>3, <1>4 DEF Direct

LEMMA RenderStep == ASSUME IInv, Render PROVE FilmInv'
<1>1. /\ FilmAt("render") /\ film.at = "render" /\ film \in Films
      /\ take = <<>> /\ LoopInv /\ FilmInv
  BY DEF IInv, FilmInv, FilmType, Staged, Render, FilmAt
<1>2. wanted' = wanted /\ cast' = cast /\ board' = board /\ clips' = clips
  BY DEF Render
<1>3. ASSUME NEW at \in {"refused", "lost"}, Continue(at), take' = take PROVE FilmInv'
  <2>1. film'.at = at /\ Continue(film'.at)
    BY <1>1, <1>3 DEF Continue, Films
  <2> QED
    BY <1>1, <1>2, <1>3, <2>1, FilmFails
<1>4. ASSUME SceneEngine # Unrouted, Takes(engines, SceneEngine, Face, NoOne),
             take' = Take, Continue("voice")
      PROVE  FilmInv'
  <2>1. Shot(take', Len(clips) + 1, film.kind, board, cast)
    BY <1>1, <1>4, TakeIsShot
  <2>2. take' \in Clips /\ take' # <<>>
    BY <2>1, Shapes DEF Shot
  <2>3. film' \in Films /\ film'.kind = film.kind /\ film'.override = film.override
        /\ film'.at = "voice"
    BY <1>1, <1>4 DEF Continue, Films
  <2>4. FilmType' /\ Distinct(cast') /\ Roled(board', cast') /\ Planned(film', board')
    BY <1>1, <1>2, <2>2, <2>3 DEF FilmInv, FilmType, Distinct, Roled, Planned, RolesOf
  <2>5. Staged(film', wanted', cast', board', clips', take')
    BY <1>1, <1>2, <2>2, <2>3 DEF FilmInv, Staged
  <2>6. take'.voice = NoOne
    BY <1>4 DEF Take
  <2>7. Shown(film'.kind, board', cast', clips', take')
    BY <1>1, <1>2, <2>1, <2>3, <2>6 DEF FilmInv, Shown
  <2> QED
    BY <2>4, <2>5, <2>7 DEF FilmInv
<1>5. CASE SceneEngine = Unrouted
  BY <1>3, <1>5 DEF Render
<1>6. CASE SceneEngine # Unrouted
  BY <1>3, <1>4, <1>6 DEF Render
<1> QED
  BY <1>5, <1>6

LEMMA VoiceStep == ASSUME IInv, Voice PROVE FilmInv'
<1>1. /\ FilmAt("voice") /\ film.at = "voice" /\ film \in Films
      /\ take \in Clips /\ clips \in Seq(Clips) /\ LoopInv /\ FilmInv
      /\ Shot(take, Len(clips) + 1, film.kind, board, cast)
  BY DEF IInv, FilmInv, FilmType, Staged, Shown, Voice, FilmAt
<1>2. /\ wanted' = wanted /\ cast' = cast /\ board' = board /\ take' = <<>>
      /\ Continue(IF Index = Len(board) THEN "stitch" ELSE "render")
  BY DEF Voice
<1>3. PICK shot : /\ Shot(shot, Len(clips) + 1, film.kind, board, cast)
                  /\ clips' = Append(clips, shot)
  <2>1. CASE clips' = Append(clips, take)
    BY <1>1, <2>1
  <2>2. CASE /\ Role # NoOne
             /\ \E line \in Spoken(VoiceOf[Role]), seconds \in SpeechSeconds :
                  clips' = Append(clips, Voiced(line, seconds))
    BY <1>1, <2>2, VoicedIsShot
  <2> QED
    BY <2>1, <2>2 DEF Voice
<1>4. shot \in Clips
  BY <1>3 DEF Shot
<1>5. /\ film' \in Films /\ film'.kind = film.kind /\ film'.override = film.override
      /\ film'.at = IF Index = Len(board) THEN "stitch" ELSE "render"
  BY <1>1, <1>2 DEF Continue, Films
<1>6. /\ clips' \in Seq(Clips) /\ Len(clips') = Len(clips) + 1 /\ Len(clips) \in Nat
      /\ \A i \in 1 .. Len(clips) : clips'[i] = clips[i]
      /\ clips'[Len(clips) + 1] = shot
  <2> HIDE DEF Clips
  <2> QED
    BY <1>1, <1>3, <1>4
<1>7. Index = Len(clips) + 1 /\ Len(clips) < Len(board) /\ Len(board) \in Nat
  BY <1>1 DEF FilmInv, FilmType, Staged, Index
<1>8. FilmType' /\ Distinct(cast') /\ Roled(board', cast') /\ Planned(film', board')
  BY <1>1, <1>2, <1>5, <1>6 DEF FilmInv, FilmType, Distinct, Roled, Planned, RolesOf
<1> HIDE DEF Index
<1>9. Staged(film', wanted', cast', board', clips', take')
  BY <1>1, <1>2, <1>5, <1>6, <1>7 DEF FilmInv, Staged
<1>10. Shown(film'.kind, board', cast', clips', take')
  <2> SUFFICES ASSUME NEW i \in 1 .. Len(clips')
               PROVE  Shot(clips'[i], i, film.kind, board, cast)
    BY <1>2, <1>5 DEF Shown
  <2>1. i \in 1 .. Len(clips) \/ i = Len(clips) + 1
    BY <1>6
  <2>2. \A k \in 1 .. Len(clips) : Shot(clips[k], k, film.kind, board, cast)
    BY <1>1 DEF FilmInv, Shown
  <2> QED
    BY <1>3, <1>6, <2>1, <2>2
<1> QED
  BY <1>8, <1>9, <1>10 DEF FilmInv

LEMMA StitchStep == ASSUME IInv, Stitch PROVE FilmInv'
<1>1. /\ film.at = "stitch" /\ film \in Films /\ take = <<>> /\ FilmInv
  BY DEF IInv, FilmInv, FilmType, Staged, Stitch, FilmAt
<1>2. wanted' = wanted /\ cast' = cast /\ board' = board /\ clips' = clips /\ take' = take
  BY DEF Stitch
<1>3. CASE Continue("refused")
  <2>1. film'.at = "refused" /\ Continue(film'.at)
    BY <1>1, <1>3 DEF Continue, Films
  <2> QED
    BY <1>1, <1>2, <2>1, FilmFails
<1>4. CASE Continue("delivered")
  <2>1. film' \in Films /\ film'.kind = film.kind /\ film'.override = film.override
        /\ film'.at = "delivered"
    BY <1>1, <1>4 DEF Continue, Films
  <2>2. FilmType' /\ Distinct(cast') /\ Roled(board', cast') /\ Planned(film', board')
    BY <1>1, <1>2, <2>1 DEF FilmInv, FilmType, Distinct, Roled, Planned, RolesOf
  <2>3. Staged(film', wanted', cast', board', clips', take')
    BY <1>1, <1>2, <2>1 DEF FilmInv, Staged
  <2>4. Shown(film'.kind, board', cast', clips', take')
    BY <1>1, <1>2, <2>1 DEF FilmInv, Shown
  <2> QED
    BY <2>2, <2>3, <2>4 DEF FilmInv
<1> QED
  BY <1>3, <1>4 DEF Stitch

LEMMA FilmBreaksStep == ASSUME IInv, FilmBreaks PROVE FilmInv'
<1>1. film.at # "voice" /\ film \in Films /\ take = <<>>
  BY DEF IInv, FilmInv, FilmType, Staged, FilmBreaks
<1>2. /\ wanted' = wanted /\ cast' = cast /\ board' = board /\ clips' = clips /\ take' = take
      /\ Continue("lost")
  BY DEF FilmBreaks
<1>3. film'.at = "lost" /\ Continue(film'.at)
  BY <1>1, <1>2 DEF Continue, Films
<1> QED
  BY <1>1, <1>2, <1>3, FilmFails

LEMMA FilmStands == ASSUME IInv, UNCHANGED filmVars PROVE FilmInv'
BY SMTT(30) DEF IInv, FilmInv, FilmType, Staged, Distinct, Roled, RolesOf, Planned, Shown, filmVars

LEMMA Base == Init => IInv
<1> SUFFICES ASSUME Init PROVE IInv
  OBVIOUS
<1>1. LoopInv
  BY LoopAssumption DEF Init, LoopInit, LoopInv, LoopType
<1>2. FilmType
  BY DEF Init, FilmType, Films, Overrides
<1>3. Distinct(cast) /\ Roled(board, cast) /\ Planned(film, board)
  BY DEF Init, Distinct, Roled, Planned
<1>4. Staged(film, wanted, cast, board, clips, take)
  BY DEF Init, Staged
<1>5. Shown(film.kind, board, cast, clips, take)
  BY NothingShown DEF Init
<1> QED
  BY <1>1, <1>2, <1>3, <1>4, <1>5 DEF IInv, FilmInv

LEMMA Step == IInv /\ [Next]_vars => IInv'
<1> SUFFICES ASSUME IInv, [Next]_vars PROVE IInv'
  OBVIOUS
<1>1. CASE FilmNext
  <2>1. LoopInv'
    BY <1>1, LoopStands
       DEF IInv, FilmNext, Storyboard, Compose, Preview, CastCompose, Bind, Direct, Render,
           Voice, Stitch, FilmBreaks
  <2>2. FilmInv'
    BY <1>1, StoryboardStep, ComposeStep, PreviewStep, CastComposeStep, BindStep, DirectStep,
       RenderStep, VoiceStep, StitchStep, FilmBreaksStep
       DEF FilmNext
  <2> QED
    BY <2>1, <2>2 DEF IInv
<1>2. CASE RefineNext
  <2>1. LoopInv'
    BY <1>2, LoopStep DEF IInv, RefineNext
  <2>2. FilmInv'
    BY <1>2, FilmStands DEF RefineNext
  <2> QED
    BY <2>1, <2>2 DEF IInv
<1>3. CASE DeleteCharacter
  <2>1. LoopInv'
    BY <1>3, LoopStands DEF IInv, DeleteCharacter
  <2>2. FilmInv'
    BY <1>3, FilmStands DEF DeleteCharacter
  <2> QED
    BY <2>1, <2>2 DEF IInv
<1>4. CASE UNCHANGED vars
  <2>1. LoopInv'
    BY <1>4, LoopStands DEF IInv, vars
  <2>2. FilmInv'
    BY <1>4, FilmStands DEF vars, filmVars
  <2> QED
    BY <2>1, <2>2 DEF IInv
<1> QED
  BY <1>1, <1>2, <1>3, <1>4 DEF Next

LEMMA Inductive == Spec => []IInv
BY Base, Step, PTL DEF Spec

-----------------------------------------------------------------------------
(* The properties of the runs *)

\* Type correctness: a request is at a step of its own kind with the data
\* that step has.
THEOREM TypeCorrect == Spec => []TypeOK
<1>1. IInv => TypeOK
  BY DEF IInv, LoopInv, FilmInv, FilmType, Staged, TypeOK, FilmAt
<1> QED
  BY <1>1, Inductive, PTL

\* QualityLoop.run: whatever an engine charges, and however often it fails,
\* a refinement submits no more than its cost cap or one render, and no more
\* than its iterations.
THEOREM Capped == Spec => []LoopCapped
<1>1. IInv => LoopCapped
  BY DEF IInv, LoopInv, Billed, LoopCapped, LoopAt
<1> QED
  BY <1>1, Inductive, PTL

\* QualityLoop.run: the take that is delivered is the first of the best, and
\* none was rendered after one that passed.
THEOREM Best == Spec => []BestDelivered
<1>1. IInv => BestDelivered
  <2> SUFFICES ASSUME IInv, loop.at = "delivered"
               PROVE  /\ loop.best \in 1 .. Len(loop.scores)
                      /\ \A i \in 1 .. Len(loop.scores) :
                           /\ loop.scores[i] <= loop.scores[loop.best]
                           /\ i < loop.best => loop.scores[i] < loop.scores[loop.best]
                           /\ loop.scores[i] >= loop.threshold => i = loop.best /\ i = loop.renders
    BY DEF BestDelivered, LoopAt
  <2>1. loop \in Loops /\ Verdicts(loop)
    BY DEF IInv, LoopInv
  <2>2. /\ Len(loop.scores) \in Nat /\ loop.threshold \in Int
        /\ \A i \in 1 .. Len(loop.scores) : loop.scores[i] \in Int
    BY <2>1, LoopFields
  <2>3. loop.best \in 1 .. Len(loop.scores)
    BY <2>1, <2>2 DEF Verdicts, Leads
  <2>4. \A i \in 1 .. Len(loop.scores) :
          /\ loop.scores[i] <= loop.scores[loop.best]
          /\ i < loop.best => loop.scores[i] < loop.scores[loop.best]
          /\ loop.scores[i] >= loop.threshold => i = Len(loop.scores) /\ i = loop.renders
    BY <2>1, <2>3 DEF Verdicts, Leads
  <2>5. ASSUME NEW i \in 1 .. Len(loop.scores), loop.scores[i] >= loop.threshold
        PROVE  i = loop.best
    <3>1. i = Len(loop.scores) /\ loop.scores[i] <= loop.scores[loop.best]
      BY <2>4, <2>5
    <3>2. loop.scores[loop.best] >= loop.threshold
      BY <2>2, <2>3, <2>5, <3>1
    <3> QED
      BY <2>3, <2>4, <3>1, <3>2
  <2> QED
    BY <2>3, <2>4, <2>5
<1> QED
  BY <1>1, Inductive, PTL

\* SceneService.route and CastService.bind: a real person's shot is rendered
\* from that person's own frame by an engine that accepts real faces, and a
\* frame is handed for its own member's shot only.
THEOREM Policy == Spec => []PolicyHonoured
<1>1. IInv => PolicyHonoured
  <2> SUFFICES ASSUME IInv, NEW shot \in Shots
               PROVE  LET role == board[shot.index].role
                          own == Own(role, cast)
                      IN  /\ shot.face # NoOne => AcceptsRealFace(shot.engine) /\ own = {shot.face}
                          /\ film.kind = "cast" /\ own \subseteq RealPeople /\ own # {}
                             => own = {shot.face}
    BY DEF PolicyHonoured, Own
  <2>1. \E i : Shot(shot, i, film.kind, board, cast)
    BY DEF IInv, FilmInv, Shown, Shots
  <2> QED
    BY <2>1 DEF Shot
<1> QED
  BY <1>1, Inductive, PTL

\* DirectorService._clamp: whatever a model writes and whatever the limits,
\* the plan is within them and every role on screen has one member.
THEOREM Achievable == Spec => []PlanAchievable
<1>1. IInv => PlanAchievable
  <2> SUFFICES ASSUME IInv, film.kind \in {"cast", "storyboard"},
                      film.at \in {"render", "voice", "stitch", "delivered"}
               PROVE  /\ Len(board) \in 1 .. MaxScenes
                      /\ \A i \in 1 .. Len(board) :
                           /\ board[i].seconds \in MinSceneSeconds .. MaxSceneSeconds
                           /\ \/ board[i].role = NoOne
                              \/ Cardinality({j \in 1 .. Len(cast) : cast[j].role = board[i].role}) = 1
                      /\ Runtime(board) <= MaxTotalSeconds
    BY DEF PlanAchievable
  <2>1. Planned(film, board) /\ Roled(board, cast) /\ Distinct(cast) /\ cast \in Seq(Entries)
    BY DEF IInv, FilmInv, FilmType
  <2>2. ASSUME NEW role \in RolesOf(cast)
        PROVE  Cardinality({j \in 1 .. Len(cast) : cast[j].role = role}) = 1
    <3> DEFINE member == CHOOSE i \in 1 .. Len(cast) : cast[i].role = role
               behind == {j \in 1 .. Len(cast) : cast[j].role = role}
    <3>1. behind = {member}
      BY <2>1, OwnOf, ZenonT(30)
    <3> HIDE DEF member, behind
    <3>2. Cardinality(behind) = 1
      BY <3>1, FS_Singleton
    <3> QED
      BY <3>2 DEF behind
  <2> QED
    BY <2>1, <2>2 DEF Planned, Roled
<1> QED
  BY <1>1, Inductive, PTL

\* CompositionService.render_with_cast: with scenes of the lengths the engines
\* can come near to (the code allows 3 to 12 seconds), a delivered film has one
\* clip for each scene: silent, and about as long, or a talking one that says
\* what it says in its member's voice, for any lengths of the speech.
THEOREM Complete ==
    ASSUME MinSceneSeconds >= 2, MaxSceneSeconds <= 13
    PROVE  Spec => []FilmIsComplete
<1>1. IInv => FilmIsComplete
  <2> SUFFICES ASSUME IInv, film.at = "delivered", film.kind \in {"compose", "cast"}
               PROVE  /\ Len(clips) = Len(board)
                      /\ \A i \in 1 .. Len(clips) :
                           LET role == board[i].role
                               own == Own(role, cast)
                               silent == clips[i].voice = NoOne
                           IN  /\ clips[i].index = i
                               /\ silent => Off(clips[i].length, board[i].seconds) <= 3
                               /\ ~silent => /\ role # NoOne
                                             /\ clips[i].voice.asked \in Asked(VoiceOf[role])
                               /\ clips[i].talking \in (IF silent THEN {} ELSE own) \union {NoOne}
                               /\ clips[i].talking = NoOne =>
                                     /\ own \subseteq {clips[i].look}
                                     /\ clips[i].look = NoOne <=> own = {}
    BY DEF FilmIsComplete, FilmAt, Own
  <2>1. Len(clips) = Len(board)
    BY DEF IInv, FilmInv, Staged
  <2>2. \A i \in 1 .. Len(clips) : Shot(clips[i], i, film.kind, board, cast)
    BY DEF IInv, FilmInv, Shown
  <2>3. \A i \in 1 .. Len(clips) : board[i].seconds \in 2 .. 13
    <3>1. \A n \in MinSceneSeconds .. MaxSceneSeconds : n \in 2 .. 13
      BY FilmAssumption
    <3>2. \A i \in 1 .. Len(board) : board[i].seconds \in MinSceneSeconds .. MaxSceneSeconds
      BY DEF IInv, FilmInv, Planned
    <3> QED
      BY <2>1, <3>1, <3>2
  <2>4. ASSUME NEW i \in 1 .. Len(clips)
        PROVE  LET role == board[i].role
                   own == Own(role, cast)
                   silent == clips[i].voice = NoOne
               IN  /\ clips[i].index = i
                   /\ silent => Off(clips[i].length, board[i].seconds) <= 3
                   /\ ~silent => /\ role # NoOne
                                 /\ clips[i].voice.asked \in Asked(VoiceOf[role])
                   /\ clips[i].talking \in (IF silent THEN {} ELSE own) \union {NoOne}
                   /\ clips[i].talking = NoOne =>
                         /\ own \subseteq {clips[i].look}
                         /\ clips[i].look = NoOne <=> own = {}
    <3> DEFINE shot == clips[i]
    <3>1. Shot(shot, i, film.kind, board, cast) /\ board[i].seconds \in 2 .. 13
      BY <2>2, <2>3
    <3> HIDE DEF shot
    <3> QED
      BY <3>1 DEF Shot, shot
  <2> QED
    BY <2>1, <2>4
<1> QED
  BY <1>1, Inductive, PTL

-----------------------------------------------------------------------------
(* How long a request may last *)

\* The steps a film has left: a member each, two replies, two steps a scene and
\* the stitching.
Ahead ==
    LET scenes == Len(board) - Len(clips)
    IN  IF FilmAt("bind") THEN 2 * MaxScenes + 3 + Len(wanted)
        ELSE IF FilmAt("direct") THEN 2 * MaxScenes + 3
        ELSE IF FilmAt("redirect") THEN 2 * MaxScenes + 2
        ELSE IF FilmAt("render") THEN 2 * scenes + 1
        ELSE IF FilmAt("voice") THEN 2 * scenes
        ELSE IF FilmAt("stitch") THEN 1 ELSE 0

FilmWorks == Bind \/ Direct \/ Render \/ Voice \/ Stitch \/ FilmBreaks

\* The steps a refinement has left: a render and a verdict for each iteration.
Rounds(l) ==
    IF l.at = "render" THEN 2 * (l.iterations - l.renders) + 1
    ELSE IF l.at = "judge" THEN 2 * (l.iterations - l.renders) + 2
    ELSE IF l.at = "save" THEN 1 ELSE 0

LoopWorks == LoopRender \/ LoopJudge \/ LoopSave \/ LoopBreaks

\* What is known of a request under way, with the lengths that are counted.
LEMMA FilmCounted ==
    ASSUME IInv
    PROVE  /\ film \in Films /\ MaxScenes \in Nat \ {0}
           /\ Len(wanted) \in Nat /\ Len(board) \in Nat /\ Len(clips) \in Nat
           /\ film.at = "bind" => Len(wanted) > 0 /\ film.kind = "cast"
           /\ film.at \in {"direct", "redirect"} => film.kind \in {"cast", "storyboard"}
           /\ film.at \in {"render", "voice"} => Len(clips) < Len(board)
           /\ film.kind \in {"cast", "storyboard"} /\ film.at \in {"render", "voice", "stitch"}
                => Len(board) <= MaxScenes
<1>1. FilmType /\ Staged(film, wanted, cast, board, clips, take) /\ Planned(film, board)
      /\ MaxScenes \in Nat \ {0}
  BY FilmAssumption DEF IInv, FilmInv
<1>2. Len(wanted) \in Nat /\ Len(board) \in Nat /\ Len(clips) \in Nat /\ (wanted # <<>> => Len(wanted) > 0)
  <2> HIDE DEF Entries, Scenes, Clips
  <2> QED
    BY <1>1 DEF FilmType
<1> QED
  BY <1>1, <1>2 DEF FilmType, Staged, Planned

LEMMA AheadBounds ==
    ASSUME IInv
    PROVE  /\ Ahead \in Nat
           /\ film.kind \in {"cast", "storyboard"} => Ahead <= 2 * MaxScenes + 3 + Len(wanted)
           /\ film.kind \notin {"cast", "storyboard"} => Ahead <= 2 * Len(board) + 1
<1> DEFINE scenes == Len(board) - Len(clips)
<1>1. /\ MaxScenes \in Nat /\ Len(wanted) \in Nat /\ Len(board) \in Nat /\ Len(clips) \in Nat
      /\ scenes \in Int /\ scenes <= Len(board)
      /\ film.at \in {"render", "voice"} => scenes > 0
      /\ film.at \in {"bind", "direct", "redirect"} => film.kind \in {"cast", "storyboard"}
      /\ film.kind \in {"cast", "storyboard"} /\ film.at \in {"render", "voice"} => scenes <= MaxScenes
  BY FilmCounted
<1>2. Ahead = IF FilmAt("bind") THEN 2 * MaxScenes + 3 + Len(wanted)
              ELSE IF FilmAt("direct") THEN 2 * MaxScenes + 3
              ELSE IF FilmAt("redirect") THEN 2 * MaxScenes + 2
              ELSE IF FilmAt("render") THEN 2 * scenes + 1
              ELSE IF FilmAt("voice") THEN 2 * scenes
              ELSE IF FilmAt("stitch") THEN 1 ELSE 0
  BY DEF Ahead
<1> HIDE DEF scenes
<1>3. CASE film.at \in {"bind", "direct", "redirect"}
  <2>1. Ahead \in 0 .. 2 * MaxScenes + 3 + Len(wanted)
    BY <1>1, <1>2, <1>3 DEF FilmAt
  <2> QED
    BY <1>1, <1>3, <2>1
<1>4. CASE film.at \in {"render", "voice"}
  <2>1. Ahead \in {2 * scenes, 2 * scenes + 1}
    BY <1>2, <1>4 DEF FilmAt
  <2> QED
    BY <1>1, <1>4, <2>1
<1>5. CASE film.at \notin {"bind", "direct", "redirect", "render", "voice"}
  <2>1. Ahead \in {0, 1}
    BY <1>2, <1>5 DEF FilmAt
  <2> QED
    BY <1>1, <2>1
<1> QED
  BY <1>3, <1>4, <1>5

\* Where a step of the request goes.
LEMMA FilmGoes ==
    ASSUME IInv, FilmWorks
    PROVE  \/ /\ film'.at \in {"refused", "lost", "delivered"} /\ film.at # "voice"
              /\ film.at \in {"bind", "direct", "redirect", "render", "stitch"}
           \/ /\ film.at = "bind" /\ Len(wanted') = Len(wanted) - 1
              /\ film'.at = IF Len(wanted) = 1 THEN "direct" ELSE "bind"
           \/ film.at = "direct" /\ film'.at = "redirect"
           \/ /\ film.at \in {"direct", "redirect"} /\ film.kind = "cast" /\ film'.at = "render"
              /\ film'.kind = "cast"
           \/ film.at = "render" /\ film'.at = "voice" /\ board' = board /\ clips' = clips
           \/ /\ film.at = "voice" /\ board' = board /\ Len(clips') = Len(clips) + 1
              /\ film'.at = IF Len(clips) + 1 = Len(board) THEN "stitch" ELSE "render"
<1>1. film \in Films /\ wanted \in Seq(Entries) /\ clips \in Seq(Clips)
  BY DEF IInv, FilmInv, FilmType
<1>2. \A place : Continue(place) => film'.at = place /\ film'.kind = film.kind
  BY <1>1 DEF Continue, Films
<1>3. CASE Bind
  <2>1. film.at = "bind"
    BY <1>3 DEF Bind, FilmAt
  <2>2. CASE Bindable(Head(wanted))
    <3>1. /\ wanted' = Tail(wanted)
          /\ IF Len(wanted) = 1 THEN Continue("direct") ELSE film' = film
      BY <1>3, <2>2 DEF Bind
    <3>2. Len(wanted') = Len(wanted) - 1
      <4> HIDE DEF Entries
      <4>1. wanted # <<>>
        BY <2>1 DEF IInv, FilmInv, Staged
      <4> QED
        BY <1>1, <3>1, <4>1
    <3> QED
      BY <1>2, <2>1, <3>1, <3>2
  <2>3. CASE ~Bindable(Head(wanted))
    BY <1>2, <1>3, <2>1, <2>3 DEF Bind
  <2> QED
    BY <2>2, <2>3
<1>4. CASE Direct
  BY <1>2, <1>4, FilmCounted DEF Direct, FilmAt
<1>5. CASE Render
  BY <1>2, <1>5 DEF Render, FilmAt
<1>6. CASE Voice
  <2>1. film.at = "voice" /\ board' = board /\ \E shot : clips' = Append(clips, shot)
    BY <1>6 DEF Voice, FilmAt
  <2>2. film'.at = IF Len(clips) + 1 = Len(board) THEN "stitch" ELSE "render"
    BY <1>2, <1>6 DEF Voice, Index
  <2>3. Len(clips') = Len(clips) + 1
    <3> HIDE DEF Clips
    <3> QED
      BY <1>1, <2>1
  <2> QED
    BY <2>1, <2>2, <2>3
<1>7. CASE Stitch \/ FilmBreaks
  BY <1>2, <1>7 DEF Stitch, FilmBreaks, FilmAt
<1> QED
  BY <1>3, <1>4, <1>5, <1>6, <1>7 DEF FilmWorks

LEMMA FilmNearer == ASSUME IInv, [Next]_vars, FilmWorks PROVE Ahead' < Ahead
<1>1. IInv'
  BY Step
<1>2. CASE /\ film'.at \in {"refused", "lost", "delivered"} /\ film.at # "voice"
           /\ film.at \in {"bind", "direct", "redirect", "render", "stitch"}
  <2>1. Ahead' = 0
    BY <1>2 DEF Ahead, FilmAt
  <2>2. Ahead > 0
    BY <1>2, FilmCounted DEF Ahead, FilmAt
  <2> QED
    BY <2>1, <2>2
<1>3. CASE /\ film.at = "bind" /\ Len(wanted') = Len(wanted) - 1
           /\ film'.at = IF Len(wanted) = 1 THEN "direct" ELSE "bind"
  <2>1. Ahead = 2 * MaxScenes + 3 + Len(wanted)
    BY <1>3 DEF Ahead, FilmAt
  <2>2. CASE Len(wanted) = 1
    <3>1. Ahead' = 2 * MaxScenes + 3
      BY <1>3, <2>2 DEF Ahead, FilmAt
    <3> QED
      BY <2>1, <2>2, <3>1, FilmCounted
  <2>3. CASE Len(wanted) # 1
    <3>1. Ahead' = 2 * MaxScenes + 3 + Len(wanted')
      BY <1>3, <2>3 DEF Ahead, FilmAt
    <3> QED
      BY <1>3, <2>1, <3>1, FilmCounted
  <2> QED
    BY <2>2, <2>3
<1>4. CASE film.at = "direct" /\ film'.at = "redirect"
  BY <1>4, FilmCounted DEF Ahead, FilmAt
<1>5. CASE /\ film.at \in {"direct", "redirect"} /\ film.kind = "cast" /\ film'.at = "render"
           /\ film'.kind = "cast"
  <2>1. Len(board') \in Nat /\ Len(clips') \in Nat /\ Len(board') <= MaxScenes
    <3> HIDE DEF Scenes, Clips
    <3> QED
      BY <1>1, <1>5 DEF IInv, FilmInv, FilmType, Planned
  <2>2. Ahead' = 2 * (Len(board') - Len(clips')) + 1
    BY <1>5 DEF Ahead, FilmAt
  <2>3. Ahead = 2 * MaxScenes + 2 \/ Ahead = 2 * MaxScenes + 3
    BY <1>5 DEF Ahead, FilmAt
  <2> QED
    BY <2>1, <2>2, <2>3, FilmCounted
<1>6. CASE film.at = "render" /\ film'.at = "voice" /\ board' = board /\ clips' = clips
  BY <1>6, FilmCounted DEF Ahead, FilmAt
<1>7. CASE /\ film.at = "voice" /\ board' = board /\ Len(clips') = Len(clips) + 1
           /\ film'.at = IF Len(clips) + 1 = Len(board) THEN "stitch" ELSE "render"
  BY <1>7, FilmCounted DEF Ahead, FilmAt
<1> QED
  BY <1>2, <1>3, <1>4, <1>5, <1>6, <1>7, FilmGoes

LEMMA RoundsBounds ==
    ASSUME NEW l, l.at # "idle" => l \in Loops /\ Billed(l)
    PROVE  /\ Rounds(l) \in 0 .. 2 * MaxIterations + 1
           /\ l.at \in {"render", "judge", "save"} => Rounds(l) > 0
<1>1. CASE l.at \in {"render", "judge"}
  <2>1. l \in Loops /\ Billed(l)
    BY <1>1
  <2>2. /\ l.iterations \in 1 .. MaxIterations /\ MaxIterations \in Nat
        /\ l.renders \in Nat /\ Len(l.scores) \in Nat
    BY <2>1, LoopFields, LoopAssumption DEF Loops
  <2>3. l.at = "render" => l.renders < l.iterations
    BY <2>1 DEF Billed
  <2>4. l.at = "judge" => l.renders >= 1 /\ l.renders <= l.iterations
    BY <2>1, <2>2 DEF Billed
  <2> QED
    BY <1>1, <2>2, <2>3, <2>4 DEF Rounds
<1>2. CASE l.at \notin {"render", "judge"}
  BY <1>2, LoopAssumption DEF Rounds
<1> QED
  BY <1>1, <1>2

LEMMA LoopNearer == ASSUME LoopInv, LoopWorks PROVE Rounds(loop') < Rounds(loop)
<1>1. loop \in Loops /\ Billed(loop)
  BY DEF LoopInv, LoopWorks, LoopRender, LoopJudge, LoopSave, LoopBreaks, LoopAt
<1>2. loop.iterations \in Nat \ {0} /\ loop.renders \in Nat /\ Rounds(loop) \in Int
  BY <1>1, LoopFields, RoundsBounds, LoopAssumption
<1>3. CASE LoopAt("render") /\ loop'.at \in {"save", "refused", "lost"}
  <2>1. loop.at = "render" /\ loop.renders < loop.iterations
    BY <1>1, <1>3 DEF Billed, LoopAt
  <2> QED
    BY <1>2, <1>3, <2>1 DEF Rounds
<1>4. CASE /\ LoopAt("render") /\ loop'.at = "judge" /\ loop'.renders = loop.renders + 1
           /\ loop'.iterations = loop.iterations
  BY <1>2, <1>4 DEF Rounds, LoopAt
<1>5. CASE LoopRender
  <2>1. CASE LoopStops
    BY <1>1, <1>3, <1>5, <2>1 DEF LoopRender, LoopStops, Loops
  <2>2. CASE ~LoopStops
    BY <1>1, <1>3, <1>4, <1>5, <2>2 DEF LoopRender, Loops
  <2> QED
    BY <2>1, <2>2
<1>6. CASE LoopJudge
  <2>1. PICK score \in Scores : LoopAt("judge") /\ Judged(score)
    BY <1>6 DEF LoopJudge
  <2>2. /\ loop'.at \in {"save", "render"} /\ loop'.renders = loop.renders
        /\ loop'.iterations = loop.iterations
    BY <1>1, <2>1 DEF Judged, Loops
  <2>3. loop.at = "judge" /\ loop.renders <= loop.iterations
    BY <1>1, <2>1 DEF Billed, LoopAt
  <2> QED
    BY <1>2, <2>2, <2>3 DEF Rounds
<1>7. CASE LoopSave \/ LoopBreaks
  <2>1. loop'.at \in {"delivered", "lost"} /\ loop.at \in {"render", "judge", "save"}
    BY <1>1, <1>7 DEF LoopSave, LoopBreaks, LoopAt, Loops
  <2>2. Rounds(loop') = 0
    BY <2>1 DEF Rounds
  <2>3. Rounds(loop) > 0
    BY <1>1, <2>1, RoundsBounds
  <2> QED
    BY <2>2, <2>3
<1> QED
  BY <1>5, <1>6, <1>7 DEF LoopWorks

\* A film of a plan has one step for each member, two for each scene it may
\* have and three besides; a film of a client's storyboard two for each of its
\* scenes and one; a refinement two for each iteration and one.  Nothing that
\* happens meanwhile gives them more.
RunDown ==
    [][/\ film.kind \in {"cast", "storyboard"} => Ahead \in 0 .. 2 * MaxScenes + 3 + Len(wanted)
       /\ film.kind \notin {"cast", "storyboard"} => Ahead \in 0 .. 2 * Len(board) + 1
       /\ Rounds(loop) \in 0 .. 2 * MaxIterations + 1
       /\ FilmWorks => Ahead' < Ahead
       /\ LoopWorks => Rounds(loop') < Rounds(loop)
       /\ ~Idle => Ahead' <= Ahead /\ Rounds(loop') <= Rounds(loop)]_vars

\* The one-shot film endpoints and POST /scene/refine come to an end whatever
\* the engines and the language models answer (film.py, quality/loop.py: "a
\* runaway loop must be impossible").
THEOREM RequestsRunDown == Spec => RunDown
<1> DEFINE Falls ==
      /\ film.kind \in {"cast", "storyboard"} => Ahead \in 0 .. 2 * MaxScenes + 3 + Len(wanted)
      /\ film.kind \notin {"cast", "storyboard"} => Ahead \in 0 .. 2 * Len(board) + 1
      /\ Rounds(loop) \in 0 .. 2 * MaxIterations + 1
      /\ FilmWorks => Ahead' < Ahead
      /\ LoopWorks => Rounds(loop') < Rounds(loop)
      /\ ~Idle => Ahead' <= Ahead /\ Rounds(loop') <= Rounds(loop)
<1>1. ASSUME IInv, [Next]_vars PROVE Falls
  <2>1. LoopInv /\ Ahead \in Nat /\ Rounds(loop) \in Nat /\ Len(wanted) \in Nat /\ Len(board) \in Nat
        /\ MaxScenes \in Nat
    BY <1>1, AheadBounds, RoundsBounds, FilmCounted, LoopAssumption DEF IInv, LoopInv
  <2>2. Ahead' \in Nat /\ Rounds(loop') \in Nat
    <3>1. LoopInv' /\ FilmInv'
      BY <1>1, Step DEF IInv
    <3>2. Rounds(loop') \in Nat
      BY <3>1, RoundsBounds, LoopAssumption DEF LoopInv
    <3>3. /\ Len(wanted') \in Nat /\ Len(board') \in Nat /\ Len(clips') \in Nat
          /\ film'.at \in {"render", "voice"} => Len(clips') < Len(board')
      <4> HIDE DEF Entries, Scenes, Clips
      <4> QED
        BY <3>1 DEF FilmInv, FilmType, Staged
    <3>4. Ahead' \in Nat
      BY <2>1, <3>3 DEF Ahead, FilmAt
    <3> QED
      BY <3>2, <3>4
  <2>3. /\ film.kind \in {"cast", "storyboard"} => Ahead \in 0 .. 2 * MaxScenes + 3 + Len(wanted)
        /\ film.kind \notin {"cast", "storyboard"} => Ahead \in 0 .. 2 * Len(board) + 1
        /\ Rounds(loop) \in 0 .. 2 * MaxIterations + 1
    BY <1>1, <2>1, AheadBounds, RoundsBounds DEF LoopInv
  <2>4. FilmWorks => Ahead' < Ahead
    BY <1>1, FilmNearer
  <2>5. LoopWorks => Rounds(loop') < Rounds(loop)
    BY <2>1, LoopNearer
  <2>6. ASSUME ~Idle PROVE Ahead' <= Ahead /\ Rounds(loop') <= Rounds(loop)
    <3>1. UNCHANGED filmVars => Ahead' = Ahead
      BY DEF filmVars, Ahead, FilmAt
    <3>2. loop' = loop => Rounds(loop') = Rounds(loop)
      OBVIOUS
    <3>3. CASE FilmNext
      <4>1. FilmWorks /\ loop' = loop
        BY <2>6, <3>3 DEF FilmNext, FilmWorks, Storyboard, Compose, Preview, CastCompose, Bind, Direct,
             Render, Voice, Stitch, FilmBreaks
      <4> QED
        BY <2>1, <2>2, <2>4, <3>2, <4>1
    <3>4. CASE RefineNext
      <4>1. LoopWorks /\ UNCHANGED filmVars
        BY <2>6, <3>4 DEF RefineNext, LoopNext, LoopWorks, Refine, Idle
      <4> QED
        BY <2>1, <2>2, <2>5, <3>1, <4>1
    <3>5. CASE DeleteCharacter \/ UNCHANGED vars
      <4>1. UNCHANGED filmVars /\ loop' = loop
        BY <3>5 DEF DeleteCharacter, vars, filmVars
      <4> QED
        BY <2>1, <2>2, <3>1, <3>2, <4>1
    <3> QED
      BY <1>1, <3>3, <3>4, <3>5 DEF Next
  <2> QED
    BY <2>3, <2>4, <2>5, <2>6
<1>2. IInv /\ [Next]_vars => Falls
  BY <1>1
<1> HIDE DEF Falls
<1>3. [][Falls]_vars => RunDown
  BY PTL DEF Falls, RunDown
<1> QED
  BY <1>2, <1>3, Inductive, PTL DEF Spec
=============================================================================
