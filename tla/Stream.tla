------------------------------- MODULE Stream -------------------------------
(***************************************************************************)
(* What a buffering channel promises its users: a first-in first-out       *)
(* stream of bytes between one writer and one reader.  Nothing the writer  *)
(* hands over is lost, repeated or reordered; the reader learns of the end *)
(* only when it has taken everything; only an error may cut data off, and  *)
(* then at the end.                                                        *)
(***************************************************************************)
EXTENDS Naturals, Sequences

VARIABLES
  input,   \* what the writer handed over
  output,  \* what the reader took
  writer,  \* "open", "ended" or "failed"
  reader   \* "open", "eof" or "error" (told so, not finished), "done"

streamVars == <<input, output, writer, reader>>

Prefixes(s) == {SubSeq(s, 1, n) : n \in 0..Len(s)}

StreamInit == input = <<>> /\ output = <<>> /\ writer = "open" /\ reader = "open"

Write ==
  /\ writer = "open" /\ reader = "open"
  /\ input \in Prefixes(input')
  /\ UNCHANGED <<output, writer, reader>>

(* A reader that has taken everything may learn of the end at once. *)
EndWriting ==
  /\ writer = "open" /\ reader = "open"
  /\ writer' = "ended"
  /\ reader' = "open" \/ (reader' = "eof" /\ output = input)
  /\ UNCHANGED <<input, output>>

(* An error of the writer or of the buffer, of which the reader may learn   *)
(* at once, or an error of the reader, which gives up.                      *)
Fail ==
  /\ writer \in {"open", "ended"}
  /\ writer' = "failed"
  /\ reader' \in IF reader = "open" THEN {"open", "error", "done"} ELSE {reader}
  /\ UNCHANGED <<input, output>>

(* The reader takes data and learns what comes after it. *)
Take ==
  /\ reader = "open"
  /\ output' \in Prefixes(input) /\ output \in Prefixes(output')
  /\ \/ reader' = "open"
     \/ reader' = "eof" /\ writer = "ended" /\ output' = input
     \/ reader' = "error" /\ writer = "failed"
     \/ reader' = "done"
  /\ UNCHANGED <<input, writer>>

Acknowledge ==
  /\ reader \in {"eof", "error"}
  /\ reader' = "done"
  /\ UNCHANGED <<input, output, writer>>

Reuse == input' = <<>> /\ output' = <<>> /\ writer' = "open" /\ reader' = "open"

StreamNext == Write \/ EndWriting \/ Fail \/ Take \/ Acknowledge \/ Reuse

StreamSpec == StreamInit /\ [][StreamNext]_streamVars
=============================================================================
