---------------------------- MODULE MemoryStore ----------------------------
(***************************************************************************)
(* The JSONL memory file (memory/store.py, class MemoryStore).  A store    *)
(* reads the whole file when it is constructed; an update is computed from *)
(* what it read and replaces the whole file by a rename.  There is no      *)
(* lock: an update takes back whatever another one has written since its   *)
(* store was constructed.                                                  *)
(***************************************************************************)
CONSTANTS
    Writers,    \* the callers that construct a store
    Keys,       \* record ids
    NoRecord,   \* "no record under this id"
    Updates     \* the updates the callers make: ids to drop, records to put

VARIABLES
    file,       \* the records on disk
    open,       \* the writers with a store in use
    snap,       \* the records each of those stores holds
    undone      \* history: ids whose last update was taken back

memoryVars == <<file, open, snap, undone>>

Empty == [k \in Keys |-> NoRecord]

Init ==
    /\ file = Empty
    /\ open = {}
    /\ snap = [w \in Writers |-> Empty]
    /\ undone = {}

(* __init__ and _load                                                      *)
Load(w) ==
    /\ w \notin open
    /\ open' = open \cup {w}
    /\ snap' = [snap EXCEPT ![w] = file]
    /\ UNCHANGED <<file, undone>>

(* replace_matching: drop the matching records, then put the new ones;     *)
(* append and upsert drop nothing and put one.                             *)
Applied(u, content) ==
    [k \in Keys |-> IF k \in DOMAIN u.put THEN u.put[k]
                    ELSE IF k \in u.drop THEN NoRecord
                    ELSE content[k]]

Touched(u) == u.drop \cup DOMAIN u.put

(* _persist and its os.replace, and the store is dropped.                  *)

Persist(w, u) ==
    /\ w \in open
    /\ file' = Applied(u, snap[w])
    /\ undone' = (undone \cup {k \in Keys : snap[w][k] # file[k]}) \ Touched(u)
    /\ open' = open \ {w}
    /\ snap' = [snap EXCEPT ![w] = Empty]

(* The temp file could not be written or the process died: it has a name   *)
(* of its own, so that nothing of the update reaches the file.             *)

Discard(w) ==
    /\ open' = open \ {w}
    /\ snap' = [snap EXCEPT ![w] = Empty]
    /\ UNCHANGED <<file, undone>>

Next ==
    \E w \in Writers :
        \/ Load(w)
        \/ \E u \in Updates : Persist(w, u)
        \/ w \in open /\ Discard(w)

Spec == Init /\ [][Next]_memoryVars
=============================================================================
