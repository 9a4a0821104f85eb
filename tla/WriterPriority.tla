--------------------------- MODULE WriterPriority ----------------------------
(***************************************************************************)
(* What the schedule board's lock promises: readers share the board, a     *)
(* writer has it alone, nobody starts to read while a writer waits, and    *)
(* every update is seen by all that follow.                                *)
(***************************************************************************)
EXTENDS Naturals

CONSTANTS Readers, Writers

VARIABLES reading,  \* readers that may look at the board
          waiting,  \* writers that have asked for it
          writing,  \* writers that may change it
          version   \* the number of updates made

vars == <<reading, waiting, writing, version>>

Init == reading = {} /\ waiting = {} /\ writing = {} /\ version = 0

StartRead(r) ==
  /\ writing = {} /\ waiting = {}
  /\ reading' = reading \cup {r}
  /\ UNCHANGED <<waiting, writing, version>>

EndRead(r) ==
  /\ r \in reading
  /\ reading' = reading \ {r}
  /\ UNCHANGED <<waiting, writing, version>>

Ask(w) ==
  /\ w \notin writing
  /\ waiting' = waiting \cup {w}
  /\ UNCHANGED <<reading, writing, version>>

\* A writer starts when nobody reads and nobody writes, whether it has been
\* waiting for some time or asks just now.
StartWrite(w) ==
  /\ reading = {} /\ writing = {}
  /\ writing' = {w}
  /\ waiting' = waiting \ {w}
  /\ UNCHANGED <<reading, version>>

Update(w) ==
  /\ writing = {w} /\ reading = {}
  /\ version' = version + 1
  /\ UNCHANGED <<reading, waiting, writing>>

EndWrite(w) ==
  /\ w \in writing
  /\ writing' = writing \ {w}
  /\ UNCHANGED <<reading, waiting, version>>

Next ==
  \/ \E r \in Readers : StartRead(r) \/ EndRead(r)
  \/ \E w \in Writers : Ask(w) \/ StartWrite(w) \/ Update(w) \/ EndWrite(w)

Spec == Init /\ [][Next]_vars

==============================================================================
