------------------------------ MODULE GpuLease ------------------------------
(***************************************************************************)
(* What the scheduler promises about GPUs, with the machinery taken away:  *)
(* a job holds a set of GPUs while it runs, an exclusive holder is alone   *)
(* on each of its GPUs, and a job runs at most once.  No ready heap, no    *)
(* occupancy snapshot, no limits: Allocation.tla is shown to implement     *)
(* this specification, and its proof module proves it.                     *)
(***************************************************************************)
EXTENDS Naturals, FiniteSets

CONSTANTS Jobs,   \* the identifiers a job may have
          Gpus    \* the GPU indices of the machine

Modes == {"Exclusive", "Shared"}

VARIABLES phase,  \* phase[j]: "waiting", "leased" or "over"
          mode,   \* mode[j]: how j shares its GPUs, once it has a lease
          lease   \* lease[j]: the GPUs j holds
vars == <<phase, mode, lease>>

TypeOK == /\ phase \in [Jobs -> {"waiting", "leased", "over"}]
          /\ mode \in [Jobs -> Modes]
          /\ lease \in [Jobs -> SUBSET Gpus]

Holders(g) == {j \in Jobs : phase[j] = "leased" /\ g \in lease[j]}

(* A GPU can take one more holder of mode m.  *)
Admits(g, m) == \A k \in Holders(g) : m = "Shared" /\ mode[k] = "Shared"

Init == /\ phase = [j \in Jobs |-> "waiting"]
        /\ mode \in [Jobs -> Modes]
        /\ lease = [j \in Jobs |-> {}]

Acquire(j) ==
    /\ phase[j] = "waiting"
    /\ \E S \in SUBSET Gpus :
          /\ \A g \in S : Admits(g, mode[j])
          /\ lease' = [lease EXCEPT ![j] = S]
    /\ phase' = [phase EXCEPT ![j] = "leased"]
    /\ UNCHANGED mode

(* A lease ends, or a job is given up before it ever had one.  *)
End(j) ==
    /\ phase[j] # "over"
    /\ phase' = [phase EXCEPT ![j] = "over"]
    /\ lease' = [lease EXCEPT ![j] = {}]
    /\ UNCHANGED mode

(* A job that waits fixes how it will share its GPUs.  *)
Configure(j) ==
    /\ phase[j] = "waiting"
    /\ \E m \in Modes : mode' = [mode EXCEPT ![j] = m]
    /\ UNCHANGED <<phase, lease>>

Next == \E j \in Jobs : Acquire(j) \/ End(j) \/ Configure(j)

Spec == Init /\ [][Next]_vars

-----------------------------------------------------------------------------
(* Two holders of one GPU both share it: what --exclusive and --shared mean
   (docs user-guide/gpu-management.md, "Shared GPU Mode").  *)
Compatible ==
    \A g \in Gpus : \A j, k \in Holders(g) :
        j # k => mode[j] = "Shared" /\ mode[k] = "Shared"
=============================================================================
