------------------------------ MODULE Context -------------------------------
(***************************************************************************)
(* aspect/context.go: the execution context of one call of a wrapped       *)
(* function.                                                               *)
(*                                                                         *)
(* FunctionName, Args and Metadata are left out: the library fills them in *)
(* and never reads them.                                                   *)
(***************************************************************************)
EXTENDS Integers, Sequences

Nil == "nil"

NewContext ==
    [results |-> <<>>, error |-> Nil, panicValue |-> Nil, skipped |-> FALSE]

ContextRecord(values, errors, panics) ==
    [results    : Seq(values \cup {Nil}),
     error      : errors \cup {Nil},
     panicValue : panics \cup {Nil},
     skipped    : BOOLEAN]

\* The slice is extended with nils until index is in range; a negative index is
\* ignored.  Go indexes from 0, a sequence from 1.
SetResult(ctx, index, value) ==
    IF index < 0 THEN ctx
    ELSE [ctx EXCEPT !.results =
            [i \in 1..(IF index < Len(@) THEN Len(@) ELSE index + 1) |->
                CASE i = index + 1 -> value
                  [] i # index + 1 /\ i <= Len(ctx.results) -> ctx.results[i]
                  [] OTHER -> Nil]]

GetResult(ctx, index) ==
    IF index < 0 \/ index >= Len(ctx.results) THEN Nil
    ELSE ctx.results[index + 1]

HasPanic(ctx) == ctx.panicValue # Nil
=============================================================================
