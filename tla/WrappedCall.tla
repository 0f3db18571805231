---------------------------- MODULE WrappedCall -----------------------------
(***************************************************************************)
(* What the WrapN functions of aspect/wrap.go promise about a call,        *)
(* whatever advice is woven in, in terms of the target function alone: the *)
(* target takes effect at most once, while the call lasts, and the caller  *)
(* gets its answer.  Advice may meddle, that is, fail or change the        *)
(* context of the call: only then can the caller get another answer, or    *)
(* the target not take effect at all.                                      *)
(***************************************************************************)
CONSTANTS
    Calls,      \* calls of wrapped functions
    Answers,    \* what a function can answer: a return, a panic or a Goexit
    NoAnswer    \* none of the answers

\* Answers can be a large set: that an answer is one of them is said of the new
\* value, so that it is tested and not searched for.
VARIABLES
    status,     \* "idle", "called" or "returned"
    effect,     \* the answer of the target, NoAnswer until it has run
    meddled,    \* whether advice has meddled
    answer      \* what the caller gets

vars == <<status, effect, meddled, answer>>

Init ==
    /\ status = [p \in Calls |-> "idle"]
    /\ effect = [p \in Calls |-> NoAnswer]
    /\ meddled = [p \in Calls |-> FALSE]
    /\ answer = [p \in Calls |-> NoAnswer]

Begin(p) ==
    /\ status[p] = "idle"
    /\ status' = [status EXCEPT ![p] = "called"]
    /\ UNCHANGED <<effect, meddled, answer>>

TakeEffect(p) ==
    /\ status[p] = "called" /\ effect[p] = NoAnswer
    /\ effect'[p] \in Answers
    /\ effect' = [effect EXCEPT ![p] = effect'[p]]
    /\ UNCHANGED <<status, meddled, answer>>

Meddle(p) ==
    /\ status[p] = "called"
    /\ meddled' = [meddled EXCEPT ![p] = TRUE]
    /\ UNCHANGED <<status, effect, answer>>

Return(p) ==
    /\ status[p] = "called"
    /\ status' = [status EXCEPT ![p] = "returned"]
    /\ answer'[p] \in Answers /\ (answer'[p] = effect[p] \/ meddled[p])
    /\ answer' = [answer EXCEPT ![p] = answer'[p]]
    /\ UNCHANGED <<effect, meddled>>

Next == \E p \in Calls : Begin(p) \/ TakeEffect(p) \/ Meddle(p) \/ Return(p)

Spec == Init /\ [][Next]_vars
=============================================================================
