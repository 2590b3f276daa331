--------------------------- MODULE RenderContract ---------------------------
(***************************************************************************)
(* What a caller of the render engines is promised, whichever engine it    *)
(* asks and however long that takes.                                       *)
(*                                                                         *)
(* A caller tries once; some may try again, one try at a time, after one   *)
(* that was refused or lost.  A refused try is never billed.  A lost try   *)
(* - the caller stopped waiting, or could not get at the result - may be,  *)
(* before or after that.  A try that delivers is billed, and no other      *)
(* follows it, nor one that was given up.  So a caller pays twice only if  *)
(* it has lost a try.                                                      *)
(***************************************************************************)
EXTENDS Naturals

CONSTANTS Callers,     \* who wants a render
          Patient,     \* those of them that may try again
          MaxTries     \* how often these try

VARIABLES open,        \* tries under way
          refused,     \* tries whose engine said no
          lost,        \* tries whose render the caller does not get, and may try again
          dropped,     \* tries after which it gave up
          delivered,   \* tries whose render it has
          billed       \* tries the engine rendered, and charges for

vars == <<open, refused, lost, dropped, delivered, billed>>

Tries == Callers \X (1 .. MaxTries)
Begun == open \union refused \union lost \union dropped \union delivered

\* The try of the same caller before this one.
Previous(t) == <<t[1], t[2] - 1>>

Init ==
    /\ open = {} /\ refused = {} /\ lost = {}
    /\ dropped = {} /\ delivered = {} /\ billed = {}

Try(t) ==
    /\ t \notin Begun
    /\ t[2] = 1 \/ (t[1] \in Patient /\ Previous(t) \in refused \union lost)
    /\ open' = open \union {t}
    /\ UNCHANGED <<refused, lost, dropped, delivered, billed>>

Bill(t) ==
    /\ t \in Begun \ refused
    /\ billed' = billed \union {t}
    /\ UNCHANGED <<open, refused, lost, dropped, delivered>>

Close(t) == t \in open /\ open' = open \ {t} /\ UNCHANGED billed

Refuse(t) ==
    /\ Close(t) /\ t \notin billed
    /\ refused' = refused \union {t}
    /\ UNCHANGED <<lost, dropped, delivered>>

Lose(t) ==
    /\ Close(t)
    /\ lost' = lost \union {t}
    /\ UNCHANGED <<refused, dropped, delivered>>

Drop(t) ==
    /\ Close(t)
    /\ dropped' = dropped \union {t}
    /\ UNCHANGED <<refused, lost, delivered>>

Deliver(t) ==
    /\ Close(t) /\ t \in billed
    /\ delivered' = delivered \union {t}
    /\ UNCHANGED <<refused, lost, dropped>>

Next ==
    \E t \in Tries :
        Try(t) \/ Bill(t) \/ Refuse(t) \/ Lose(t) \/ Drop(t) \/ Deliver(t)

Spec == Init /\ [][Next]_vars

-----------------------------------------------------------------------------
\* A caller has at most one try under way and at most one render, and if it
\* paid for a try and went on to another, then because it lost the first.
PaidTwiceOnlyIfLost ==
    \A c \in Callers, m, n \in 1 .. MaxTries :
        m < n /\ <<c, n>> \in Begun
           => /\ <<c, m>> \notin open \union dropped \union delivered
              /\ <<c, m>> \in billed => <<c, m>> \in lost
=============================================================================
