-------------------------- MODULE AtomicDocument --------------------------
(***************************************************************************)
(* What "atomically persist" promises of a JSON file that is written by    *)
(* renaming a temporary file over it: it always holds one whole document,  *)
(* and a reader gets the document that was there at one moment.            *)
(***************************************************************************)
CONSTANTS Docs, Readers
VARIABLES document, seen

Init ==
  /\ document \in Docs
  /\ seen = [r \in Readers |-> document]

Replace ==
  /\ document' \in Docs
  /\ UNCHANGED seen

Read(r) ==
  /\ seen' = [seen EXCEPT ![r] = document]
  /\ UNCHANGED document

Next == Replace \/ \E r \in Readers : Read(r)

Spec == Init /\ [][Next]_<<document, seen>>
===========================================================================
