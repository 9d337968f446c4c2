---------------------------- MODULE BoundedQueue ----------------------------
(***************************************************************************)
(* What Queue(T, depth = N) promises the processes bound to it, whatever   *)
(* circuit implements it: a bounded first-in first-out sequence, on which  *)
(* one put and one take may happen in the same step.  A put appends at the *)
(* tail and needs room; a take returns the head and needs a token; a reset *)
(* brings the initial tokens back.  The queue may refuse at any time (a    *)
(* circuit that sees its other side late does), but it never loses,        *)
(* invents, duplicates or reorders a token.                                *)
(*                                                                         *)
(* TbnFifo and AsyncFifo are shown to implement this module.               *)
(***************************************************************************)
EXTENDS Integers, Sequences

CONSTANTS
    Data,     \* the tokens
    None,     \* "no token"
    Depth,    \* the declared depth
    Initial   \* the tokens present after reset, a sequence over Data

VARIABLES
    contents, \* the tokens in the queue, oldest first
    put,      \* the token accepted by the last step, or None
    taken     \* the token delivered by the last step, or None

vars == <<contents, put, taken>>

Token == Data \union {None}

Optional(t) == IF t = None THEN <<>> ELSE <<t>>

-----------------------------------------------------------------------------

Init == 
    /\ contents = Initial
    /\ put = None
    /\ taken = None

(* One step: token p is put and token t is taken, either of them may be    *)
(* None.  Room and availability are judged before the step, so a full      *)
(* queue accepts nothing even while it delivers.                           *)
Step(p, t) ==
    /\ p # None => Len(contents) < Depth
    /\ t # None => contents # <<>> /\ t = Head(contents)
    /\ contents' = (IF t = None THEN contents ELSE Tail(contents)) \o Optional(p)
    /\ put' = p
    /\ taken' = t

Reset ==
    /\ contents' = Initial
    /\ put' = None
    /\ taken' = None

Next == 
    \/ Reset 
    \/ \E p, t \in Token : Step(p, t)

Spec == Init /\ [][Next]_vars

=============================================================================
