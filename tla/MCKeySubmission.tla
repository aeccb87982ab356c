--------------------------- MODULE MCKeySubmission ---------------------------
(***************************************************************************)
(* Instances of KeySubmission for TLC.                                     *)
(***************************************************************************)
EXTENDS KeySubmission, TLC

CONSTANTS m, h1, h2

MCHelpers == {h1, h2}

\* Everybody holds one key (the common case).
OneEach == [a \in {m, h1, h2} |-> 1]
\* A colleague holds enough keys to complete an operation.
RichHelper == (h1 :> 3) @@ OneEach
\* Main does, and has keys to submit before the final one.
RichMain == (m :> 3) @@ OneEach
==============================================================================
