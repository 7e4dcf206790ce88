------------------------------ MODULE Decoding ------------------------------
(* What the readers of files and packets have in common: each reads one    *)
(* input from its beginning and ends with a value or an exception.         *)
EXTENDS Integers, Sequences

VARIABLES
  file,     \* the input
  at,       \* how far it has been read
  acc,      \* what has been made of it so far
  result    \* Pending, Error or Ok(value)

decodingVars == <<file, at, acc, result>>

Pending == [status |-> "pending"]
Error == [status |-> "error"]
Ok(value) == [status |-> "ok", value |-> value]

Running == result = Pending
Begins(input, start) == file = input /\ at = 0 /\ acc = start /\ result = Pending
GoesOn(position, state) == Running /\ at' = position /\ acc' = state /\ UNCHANGED <<file, result>>
Ends(outcome) == Running /\ result' = outcome /\ UNCHANGED <<file, at, acc>>
=============================================================================
