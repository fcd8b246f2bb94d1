---------------------------- MODULE IngestArchive ----------------------------
(***************************************************************************)
(* What the ingest-writer promises the archive (docs/ARCHITECTURE.md, the  *)
(* opening comment of writer.py): rows are added in windows of the stream, *)
(* each window lies above the cursor and moves it to the window's end, and *)
(* a batch in the window is left out only when it is excused.  An excused  *)
(* batch may still turn up later.                                          *)
(***************************************************************************)
EXTENDS Integers

VARIABLES batches,  \* sequences of the decodable batches on the stream
          rows,     \* sequences whose rows are archived
          cursor,   \* everything at or below is settled
          excused   \* batches that may be missing from the archive

vars == <<batches, rows, cursor, excused>>

Init == batches = {} /\ rows = {} /\ cursor = 0 /\ excused = {}

Publish ==
  /\ batches \subseteq batches' /\ \A n \in batches' \ batches : n > cursor
  /\ UNCHANGED <<rows, cursor, excused>>

Excuse == excused \subseteq excused' /\ UNCHANGED <<batches, rows, cursor>>

Window(last) == {n \in batches : cursor < n /\ n <= last}

Archive ==
  /\ cursor' >= cursor
  /\ rows \subseteq rows' /\ rows' \ rows \subseteq Window(cursor') \cup excused
  /\ Window(cursor') \subseteq rows' \cup excused
  /\ UNCHANGED <<batches, excused>>

Next == Publish \/ Excuse \/ Archive

Spec == Init /\ [][Next]_vars

=============================================================================
