------------------------------ MODULE MemStore ------------------------------
(***************************************************************************)
(* The in-memory persistence provider (package mem, src/unnamed/part_000): *)
(* its shutdown gate.  Every accessor selects on status.done and fails     *)
(* with ErrNotOpen once it is closed; Shutdown selects on done and closes  *)
(* it in the default branch, without a lock.  The select and the close are *)
(* two steps, so two Shutdown calls can both reach the default branch.     *)
(***************************************************************************)
EXTENDS Naturals

CONSTANTS
    Clients,     \* goroutines calling System / Sessions / Retained
    Shutters,    \* goroutines calling impl.Shutdown
    MaxCalls,    \* accessor calls each client makes (bound)
    NoArg

VARIABLES
    done,        \* status.done has been closed
    cresp,       \* what a client's last accessor call returned
    calls,       \* accessor calls each client has left
    spc,         \* Shutdown: "idle", "closing" (in default), "done", "panicked"
    sresp        \* what Shutdown returned

vars == <<done, cresp, calls, spc, sresp>>

Accessors == {"System", "Sessions", "Retained"}

TypeOK ==
    /\ done \in BOOLEAN
    /\ calls \in [Clients -> 0..MaxCalls]
    /\ spc \in [Shutters -> {"idle", "closing", "done", "panicked"}]

Init ==
    /\ done = FALSE
    /\ cresp = [c \in Clients |-> NoArg]
    /\ calls = [c \in Clients |-> MaxCalls]
    /\ spc = [h \in Shutters |-> "idle"]
    /\ sresp = [h \in Shutters |-> NoArg]

\* impl.System / impl.Sessions / impl.Retained
Accessor(c, a) ==
    /\ calls[c] > 0
    /\ calls' = [calls EXCEPT ![c] = @ - 1]
    /\ cresp' = [cresp EXCEPT ![c] = IF done THEN "ErrNotOpen" ELSE a]
    /\ UNCHANGED <<done, spc, sresp>>

\* impl.Shutdown: the select finds done closed and returns ErrNotOpen ...
ShutdownNotOpen(h) ==
    /\ spc[h] = "idle"
    /\ done
    /\ spc' = [spc EXCEPT ![h] = "done"]
    /\ sresp' = [sresp EXCEPT ![h] = "ErrNotOpen"]
    /\ UNCHANGED <<done, cresp, calls>>

\* ... or takes the default branch,
ShutdownDefault(h) ==
    /\ spc[h] = "idle"
    /\ ~done
    /\ spc' = [spc EXCEPT ![h] = "closing"]
    /\ UNCHANGED <<done, cresp, calls, sresp>>

\* where close(status.done) panics if done was closed in the meantime.
ShutdownCloseDone(h) ==
    /\ spc[h] = "closing"
    /\ IF done
         THEN spc' = [spc EXCEPT ![h] = "panicked"] /\ UNCHANGED <<done, sresp>>
         ELSE /\ done' = TRUE
              /\ spc' = [spc EXCEPT ![h] = "done"]
              /\ sresp' = [sresp EXCEPT ![h] = "nil"]
    /\ UNCHANGED <<cresp, calls>>

Terminated ==
    /\ \A c \in Clients : calls[c] = 0
    /\ \A h \in Shutters : spc[h] \in {"done", "panicked"}
    /\ UNCHANGED vars

Next ==
    \/ \E c \in Clients, a \in Accessors : Accessor(c, a)
    \/ \E h \in Shutters :
          ShutdownNotOpen(h) \/ ShutdownDefault(h) \/ ShutdownCloseDone(h)
    \/ Terminated

Spec == Init /\ [][Next]_vars

\* Spec 5: once the provider is shut down, a further Shutdown fails with
\* ErrNotOpen; no Shutdown call panics on close of a closed channel.
ShutdownNeverPanics == \A h \in Shutters : spc[h] # "panicked"
=============================================================================
