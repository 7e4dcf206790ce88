------------------------------ MODULE IniParser ------------------------------
(***************************************************************************)
(* parse_ini of parseini.py, a line at a time.  A line is a sequence of    *)
(* characters; section and ini of the code are one function from names to  *)
(* sections, and the name of the section that is being read.               *)
(***************************************************************************)
EXTENDS Decoding, FiniteSetsExt

Space == " "
Semicolon == ";"
Equals == "="
Opening == "["
Closing == "]"

Global == <<"__global__">>
NoKeys == [n \in {} |-> {}]
Set(f, x, v) == [y \in DOMAIN f \cup {x} |-> IF y = x THEN v ELSE f[y]]

Init(input) ==
  Begins(input, [section |-> Global, ini |-> Set(NoKeys, Global, NoKeys)])

Strip(s) ==
  LET ink == {i \in DOMAIN s : s[i] # Space}
  IN  IF ink = {} THEN <<>> ELSE SubSeq(s, Min(ink), Max(ink))

Reading == at < Len(file.lines)
Line == file.lines[at + 1]
Stripped == Strip(Line)

\* Comments are told by the first character of the line as it is ...
IsComment == Line # <<>> /\ Line[1] = Semicolon

\* ... and headers by both ends of the line without its spaces.
IsHeader ==
  /\ ~IsComment /\ Stripped # <<>>
  /\ Stripped[1] = Opening /\ Stripped[Len(Stripped)] = Closing
Signs == {i \in DOMAIN Stripped : Stripped[i] = Equals}

Skip == Reading /\ (IsComment \/ (~IsHeader /\ Signs = {})) /\ GoesOn(at + 1, acc)

\* Mutant: a section that was there before is gone on with.
HeaderResumes ==
  /\ Reading /\ IsHeader
  /\ LET name == Strip(SubSeq(Stripped, 2, Len(Stripped) - 1))
     IN  GoesOn(at + 1, [section |-> name,
                         ini |-> IF name \in DOMAIN acc.ini THEN acc.ini
                                 ELSE Set(acc.ini, name, NoKeys)])

\* A header begins a section anew, also one that was there before.
Header ==
  /\ Reading /\ IsHeader
  /\ LET name == Strip(SubSeq(Stripped, 2, Len(Stripped) - 1))
     IN  GoesOn(at + 1, [section |-> name, ini |-> Set(acc.ini, name, NoKeys)])

\* Mutant: the line is split at its last sign.
SplitAtLast(signs) == Max(signs)

SplitAt(signs) == Min(signs)

Assign ==
  /\ Reading /\ ~IsComment /\ ~IsHeader /\ Signs # {}
  /\ LET i == SplitAt(Signs)
         name == Strip(SubSeq(Stripped, 1, i - 1))
         value == Strip(SubSeq(Stripped, i + 1, Len(Stripped)))
     IN  GoesOn(at + 1, [acc EXCEPT !.ini[acc.section] = Set(@, name, value)])

Finish == ~Reading /\ Ends(Ok(acc.ini))

Next == Skip \/ Header \/ Assign \/ Finish

=============================================================================
