----------------------------- MODULE Submission -----------------------------
(***************************************************************************)
(* What handing in work promises one student of one run.  The directory    *)
(* holds nothing, then what the first request writes, then its archive;    *)
(* the student is told so only after the archive was stored to its end,    *)
(* and it is still there.  That holds while the application waits for its  *)
(* answers: once it has given one up, the request that is still served and *)
(* a later one can overwrite each other, also what has been confirmed.     *)
(* WorkUpload shows how the application and the backend do it.             *)
(***************************************************************************)
CONSTANT Requests

VARIABLES
    file,     \* the directory: "none", "part", "mixed", or whose archive
    stored,   \* the requests whose archive has been stored to its end
    told,     \* the requests the student was told of as uploaded
    givenUp   \* the application has stopped waiting for an answer

vars == <<file, stored, told, givenUp>>

Init ==
    /\ file = "none"
    /\ stored = {}
    /\ told = {}
    /\ givenUp = FALSE

Open ==
    /\ file = "none"
    /\ file' = "part"
    /\ UNCHANGED <<stored, told, givenUp>>

Store(r) ==
    /\ file = "part"
    /\ file' = r
    /\ stored' = stored \cup {r}
    /\ UNCHANGED <<told, givenUp>>

Confirm(r) ==
    /\ r \in stored
    /\ file = r \/ givenUp
    /\ told' = told \cup {r}
    /\ UNCHANGED <<file, stored, givenUp>>

GiveUp ==
    /\ givenUp' = TRUE
    /\ UNCHANGED <<file, stored, told>>

\* Two requests at the same file, of which one may have been stored and confirmed.
Clash(r) ==
    /\ givenUp
    /\ file # "none"
    /\ file' \in {"part", "mixed", r}
    /\ stored' = stored \/ (stored' = stored \cup {r} /\ file' # "part")
    /\ UNCHANGED <<told, givenUp>>

Next == Open \/ GiveUp \/ \E r \in Requests : Store(r) \/ Confirm(r) \/ Clash(r)

Spec == Init /\ [][Next]_vars
=============================================================================
