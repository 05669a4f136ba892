-------------------------------- MODULE Lease --------------------------------
(***************************************************************************)
(* What tunshare promises the machine it runs on (README.md, "Clean        *)
(* shutdown"): it is changed only while a session holds it, and the end of *)
(* the session gives it back as it was, as far as the machine lets it.     *)
(***************************************************************************)
VARIABLES held,      \* a session holds the machine
          pristine   \* the machine is as the program found it, but for
                     \* what it refused to have undone

leaseVars == <<held, pristine>>

LeaseInit == held = FALSE /\ pristine = TRUE

Acquire == ~held /\ held' = TRUE /\ UNCHANGED pristine

Use == held /\ UNCHANGED held /\ pristine' \in BOOLEAN

Return == held /\ held' = FALSE /\ pristine' = TRUE

LeaseSpec == LeaseInit /\ [][Acquire \/ Use \/ Return]_leaseVars
=============================================================================
