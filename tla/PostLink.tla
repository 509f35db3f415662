------------------------------ MODULE PostLink ------------------------------
(***************************************************************************)
(* What the post-link stage promises of the output path: it decides once,  *)
(* and leaves the image the linker wrote or a whole, strictly smaller one, *)
(* unless the copy to the output path itself fails.  The promise is about  *)
(* this link's images as long as BOLT, when it reports success, has        *)
(* written its output: if not, a file that an earlier link left in that    *)
(* place may stray in, and then only the size is promised.                 *)
(***************************************************************************)
EXTENDS Integers

CONSTANTS Linked,   \* the images a linker may write: records with a size
          Whole,    \* the kinds of complete images the stage may produce
          Foreign   \* the kinds of files an earlier link may leave

VARIABLES linked, output,
          stray     \* a file of an earlier link was taken for BOLT's output

Undecided == [image |-> "undecided", size |-> -1]
Failed == [image |-> "failed", size |-> -1]

Init == linked \in Linked /\ output = Undecided /\ stray = FALSE

Stray == output = Undecided /\ ~stray /\ stray' = TRUE /\ output' = output

Keep == output' = linked

Replace == \E kind \in Whole \cup {k \in Foreign : stray}, n \in 1 .. linked.size - 1 :
              output' = [image |-> kind, size |-> n]

Fail == output' = Failed

Decide == output = Undecided /\ (Keep \/ Replace \/ Fail) /\ stray' = stray

Next == (Stray \/ Decide) /\ linked' = linked

vars == <<linked, output, stray>>

Spec == Init /\ [][Next]_vars /\ WF_vars(Next)
=============================================================================
