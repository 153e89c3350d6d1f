-------------------------- MODULE CredsFileSerial --------------------------
(***************************************************************************)
(* What packages/creds-manage promises of its data file, without locks,    *)
(* caches or processes: the file is a single object that requests are      *)
(* applied to one at a time.                                               *)
(***************************************************************************)
EXTENDS CredsDataFile

CONSTANTS Inputs, Edits, InitialFile, Corrupt

VARIABLES file, clock

Init == file = InitialFile /\ clock = 0

\* Time passes, whether or not the request that reads it succeeds.
Tick == clock' = clock + 1 /\ UNCHANGED file

Write(r) ==
    /\ file # Corrupt
    /\ Accepts(file, r)
    /\ file' = Apply(file, r, clock)
    /\ UNCHANGED clock

Edit(d) == file' = d /\ UNCHANGED clock

Next ==
    \/ Tick
    \/ \E r \in Inputs : Write(r)
    \/ \E d \in Edits : Edit(d)

Spec == Init /\ [][Next]_<<file, clock>>
=============================================================================
